------------------------ MODULE ControlService_proofs ------------------------
(***************************************************************************)
(* Proofs about the two components that write the valves.                  *)
(*                                                                         *)
(* ControlService, for every value of its constants: any number of         *)
(* clients, any message limit, any timeouts and any set of packets         *)
(* producers may send.                                                     *)
(*                                                                         *)
(* PwmController, the reference's, for any threads, commands, time limits  *)
(* and configuration files: PwmInv says which thread has the last decision *)
(* on a valve, and what the monitor may rely on; SideInv says what the     *)
(* ramp remembers of a valve.                                              *)
(***************************************************************************)
EXTENDS ControlService, SafetyCore_proofs, PwmController, WellFoundedInduction

LEMMA ProductOfIntegers == \A x, y \in Int : x * y \in Int
  BY Z3

LEMMA QuotientOfIntegers == \A x \in Int, y \in Nat \ {0} : x \div y \in Int
  BY Z3

\* What a calibration is, field by field.
LEMMA CalibrationType ==
    ASSUME NEW v \in ValveType
    PROVE  /\ v.min \in Nat /\ v.center \in Nat /\ v.max \in Nat /\ v.direction \in {-1, 1}
           /\ v.deadband_pos \in Nat /\ v.deadband_neg \in Nat
           /\ v.curve \in [0 .. FullCommand -> 0 .. CurveUnit]
           /\ v.ramp_limit \in Nat /\ v.dither_amp \in Nat /\ v.taper_us \in Nat
           /\ v.skip_deadband \in BOOLEAN /\ v.taper \in BOOLEAN
           /\ UpperEdge(v) \in Int /\ LowerEdge(v) \in Int
           /\ v.center <= UpperEdge(v) /\ LowerEdge(v) <= v.center
BY DEF ValveType, UpperEdge, LowerEdge

LEMMA CalibrationOf ==
    ASSUME NEW n \in ValveNames
    PROVE  Calibration[n] \in ValveType /\ Calibratable(Calibration[n])
BY CalibrationAssumption

LEMMA UnitType ==
    /\ CurveUnit \in Nat \ {0} /\ SineUnit \in Nat \ {0} /\ RampWindow \in Nat
    /\ FullCommand \in Nat
<1>1. Full \in Nat /\ RowTime \in Nat /\ DecayScale \in Nat
  BY ScaleAssumption, TimeAssumption DEF DecayScale
<1>2. \A x, y \in Nat : x * y \in Nat
  BY Z3
<1>3. Full * RowTime \in Nat
  BY <1>1, <1>2
<1> QED
  BY <1>1, <1>2, <1>3, UnitAssumption DEF FullCommand

\* A command is cut to a full one, and the curve turns it into a share of the stroke.
LEMMA ShareType ==
    ASSUME NEW v \in ValveType, NEW x \in Int,
           NEW size, size = IF Abs(x) > FullCommand THEN FullCommand ELSE Abs(x)
    PROVE  size \in 0 .. FullCommand /\ v.curve[size] \in 0 .. CurveUnit
<1>1. Abs(x) \in Nat
  BY DEF Abs
<1>2. size \in 0 .. FullCommand
  BY <1>1, UnitType
<1> QED
  BY <1>2, CalibrationType

LEMMA TargetType ==
    ASSUME NEW v \in ValveType, NEW x \in Int
    PROVE  TargetPulse(v, x) \in Int
<1> DEFINE size == IF Abs(x) > FullCommand THEN FullCommand ELSE Abs(x)
           share == v.curve[size]
           up == (share * (v.max - UpperEdge(v))) \div CurveUnit
           down == (share * (LowerEdge(v) - v.min)) \div CurveUnit
<1>1. share \in Int
  BY ShareType
<1>2. up \in Int /\ down \in Int
  <2> HIDE DEF share
  <2>1. v.max - UpperEdge(v) \in Int /\ LowerEdge(v) - v.min \in Int
    BY CalibrationType
  <2>2. share * (v.max - UpperEdge(v)) \in Int /\ share * (LowerEdge(v) - v.min) \in Int
    BY <1>1, <2>1, ProductOfIntegers
  <2> QED
    BY <2>2, UnitType, QuotientOfIntegers
<1>3. TargetPulse(v, x) \in {v.center, UpperEdge(v) + up, LowerEdge(v) - down}
  BY DEF TargetPulse
<1> HIDE DEF up, down, share
<1> QED
  BY <1>2, <1>3, CalibrationType

LEMMA RampType ==
    ASSUME NEW v \in ValveType, NEW target \in Int, NEW t \in Nat, NEW r \in RampState
    PROVE  RampPulse(v, target, t, r) \in Int
<1> DEFINE from == RampStart(v, r.pulse, target)
           allowed == v.ramp_limit * Clamp(t - r.time, 0, RampWindow)
           moved == from + Clamp(target - from, -allowed, allowed)
<1>1. r.pulse \in Int /\ r.time \in Nat
  BY DEF RampState
<1>2. from \in Int
  BY <1>1, CalibrationType DEF RampStart
<1>3. allowed \in Int
  <2>1. Clamp(t - r.time, 0, RampWindow) \in Int
    BY <1>1, UnitType DEF Clamp
  <2> QED
    BY <2>1, CalibrationType, ProductOfIntegers
<1>4. moved \in Int
  <2> HIDE DEF from, allowed
  <2> QED
    BY <1>2, <1>3 DEF Clamp
<1>5. RampPulse(v, target, t, r) \in {target, v.center, moved}
  BY DEF RampPulse
<1> HIDE DEF moved
<1> QED
  BY <1>4, <1>5, CalibrationType

\* A dither swings by no more than its amplitude.
LEMMA AmplitudeBound ==
    ASSUME NEW v \in ValveType, NEW base \in Int
    PROVE  Amplitude(v, base) \in 0 .. v.dither_amp
<1> DEFINE beyond == IF base > v.center THEN base - UpperEdge(v) ELSE LowerEdge(v) - base
           fade == IF v.taper_us = 0 THEN 1 ELSE v.taper_us
           part == Clamp(beyond, 0, fade)
<1>1. fade \in Nat \ {0} /\ v.dither_amp \in Nat
  BY CalibrationType
<1>2. beyond \in Int
  BY CalibrationType
<1>3. part \in 0 .. fade
  <2> HIDE DEF beyond, fade
  <2> QED
    BY <1>1, <1>2 DEF Clamp
<1>4. \A a0 \in Nat, f0 \in Nat \ {0} : \A p0 \in 0 .. f0 : (a0 * p0) \div f0 \in 0 .. a0
  <2> SUFFICES ASSUME NEW a0 \in Nat, NEW f0 \in Nat \ {0}, NEW p0 \in 0 .. f0
               PROVE  (a0 * p0) \div f0 \in 0 .. a0
    OBVIOUS
  <2> DEFINE d0 == (a0 * p0) \div f0
  <2>1. d0 \in Int /\ f0 * d0 <= a0 * p0 /\ a0 * p0 < f0 * (d0 + 1)
    BY Z3
  <2>2. 0 <= a0 * p0 /\ a0 * p0 <= a0 * f0 /\ a0 * p0 \in Int /\ a0 * f0 \in Int
    BY Z3
  <2> HIDE DEF d0
  <2>3. d0 <= a0
    <3> SUFFICES ASSUME d0 >= a0 + 1 PROVE FALSE
      BY <2>1
    <3>1. f0 * d0 >= f0 * (a0 + 1)
      BY <2>1, Z3
    <3>2. f0 * (a0 + 1) = a0 * f0 + f0
      BY Z3
    <3> QED
      BY <2>1, <2>2, <3>1, <3>2
  <2>4. d0 >= 0
    <3> SUFFICES ASSUME d0 <= -1 PROVE FALSE
      BY <2>1
    <3>1. f0 * (d0 + 1) <= 0 /\ f0 * (d0 + 1) \in Int
      BY <2>1, Z3
    <3> QED
      BY <2>1, <2>2, <3>1
  <2> QED
    BY <2>1, <2>3, <2>4 DEF d0
<1>5. (v.dither_amp * part) \div fade \in 0 .. v.dither_amp
  <2> HIDE DEF part, fade
  <2> QED
    BY <1>1, <1>3, <1>4
<1>6. Amplitude(v, base) \in {v.dither_amp, (v.dither_amp * part) \div fade}
  BY DEF Amplitude
<1> QED
  BY <1>1, <1>5, <1>6

\* A sine is a share of the amplitude.
LEMMA SwingBound ==
    ASSUME NEW a \in Nat, NEW sine \in -SineUnit .. SineUnit
    PROVE  (a * sine) \div SineUnit \in -a .. a
<1>0. SineUnit \in Nat \ {0}
  BY UnitType
<1> DEFINE f == SineUnit
           d == (a * sine) \div f
<1> SUFFICES d \in -a .. a
  OBVIOUS
<1> HIDE DEF f
<1>1. f \in Nat \ {0} /\ sine \in -f .. f
  BY <1>0 DEF f
<1>2. d \in Int /\ f * d <= a * sine /\ a * sine < f * (d + 1)
  BY <1>1, Z3
<1>3. -(a * f) <= a * sine /\ a * sine <= a * f /\ a * sine \in Int /\ a * f \in Int
  BY <1>1, Z3
<1> HIDE DEF d
<1>4. d <= a
  <2> SUFFICES ASSUME d >= a + 1 PROVE FALSE
    BY <1>2
  <2>1. f * d >= f * (a + 1) /\ f * (a + 1) = a * f + f /\ f * d \in Int
    BY <1>1, <1>2, Z3
  <2> QED
    BY <1>1, <1>2, <1>3, <2>1
<1>5. d >= -a
  <2> SUFFICES ASSUME d <= -a - 1 PROVE FALSE
    BY <1>2
  <2>1. f * (d + 1) <= f * (-a) /\ f * (-a) = -(a * f) /\ f * (d + 1) \in Int
    BY <1>1, <1>2, Z3
  <2> QED
    BY <1>1, <1>2, <1>3, <2>1
<1> QED
  BY <1>2, <1>4, <1>5

LEMMA DitherType ==
    ASSUME NEW v \in ValveType, NEW base \in Int, NEW sine \in -SineUnit .. SineUnit
    PROVE  Dither(v, base, sine) \in Int
<1> DEFINE amp == Amplitude(v, base)
           room == IF v.min + amp > v.max - amp THEN (v.min + v.max) \div 2
                   ELSE Clamp(base, v.min + amp, v.max - amp)
           swung == room + (Amplitude(v, room) * sine) \div SineUnit
<1>1. amp \in Nat
  BY AmplitudeBound, CalibrationType
<1>2. room \in Int
  <2> HIDE DEF amp
  <2> QED
    BY <1>1, CalibrationType DEF Clamp
<1>3. swung \in Int
  <2> HIDE DEF room
  <2>1. Amplitude(v, room) \in Nat
    BY <1>2, AmplitudeBound, CalibrationType
  <2>2. (Amplitude(v, room) * sine) \div SineUnit \in Int
    BY <2>1, SwingBound
  <2> QED
    BY <1>2, <2>2
<1>4. Dither(v, base, sine) \in {Clamp(base, v.min, v.max), Clamp(swung, v.min, v.max)}
  BY DEF Dither
<1> HIDE DEF swung
<1> QED
  BY <1>3, <1>4, CalibrationType DEF Clamp

LEMMA InitialCoreType ==
    /\ CoreInit \in CoreType /\ Neutral \in Output /\ Zero \in Row
    /\ [n \in ValveNames |-> NoRamp] \in [ValveNames -> RampState]
<1>1. CoreInit \in CoreType /\ Zero \in Row
  BY ZeroType DEF CoreInit, CoreType, NoPlan, Plan, SafetyState
<1>2. \A n \in ValveNames : Calibration[n].center \in Int
  BY CalibrationOf, CalibrationType
<1> QED
  BY <1>1, <1>2 DEF Neutral, Output, NoRamp, RampState

LEMMA CommandType ==
    ASSUME NEW c \in CoreType, NEW t \in Nat
    PROVE  Command(c, t) \in Row
<1>1. DecayScale \in Int /\ DecayLeft(c, t) \in Int
  BY TimeAssumption DEF DecayScale, DecayLeft, Clamp, CoreType
<1>2. /\ c.previous \in Row /\ c.decay_from \in Row
  BY DEF CoreType
<1> QED
  BY <1>1, <1>2, ZeroType DEF Command, Row

LEMMA InitialTableType ==
    /\ NoClient \in Client /\ NoSample \in Imu
    /\ [ci \in Clients |-> NoClient] \in [Clients -> Client]
    /\ MessageLimit \in 0 .. MessageLimit /\ 1 \in Clients
    /\ Clients \subseteq 1 .. NumClients + 1
BY LoopAssumption DEF NoClient, Client, NoSample, Imu, Clients

LEMMA LoopFaultsType ==
    ASSUME NEW c \in CoreType, NEW gap, NEW io_error \in BOOLEAN, NEW disturbed \in BOOLEAN
    PROVE  LoopFaults(c, gap, io_error, disturbed) \in CoreType
BY HaltType DEF LoopFaults, Fault, SafetyState

\* What the chip gets and what the ramps remember are pulses.
LEMMA PulsesType ==
    ASSUME NEW c \in CoreType, NEW command \in Row, now \in Nat,
           ramps \in [ValveNames -> RampState]
    PROVE  /\ Ramps(c, command) \in [ValveNames -> RampState]
           /\ \A state \in [ValveNames -> RampState], sine \in [ValveNames -> -SineUnit .. SineUnit] :
                 Pulses(c, state, sine) \in [ValveNames -> Int]
<1>1. ASSUME NEW n \in ValveNames
      PROVE  /\ Calibration[n] \in ValveType /\ Calibration[n].center \in Int
             /\ ValveCommand(command, n) \in Int
  BY CalibrationOf, CalibrationType DEF ValveCommand, Row
<1>2. ASSUME NEW n \in ValveNames
      PROVE  RampPulse(Calibration[n], TargetPulse(Calibration[n], ValveCommand(command, n)), now,
                       ramps[n]) \in Int
  BY <1>1, TargetType, RampType
<1>3. ASSUME NEW state \in [ValveNames -> RampState],
             NEW sine \in [ValveNames -> -SineUnit .. SineUnit], NEW n \in ValveNames
      PROVE  Dither(Calibration[n], state[n].pulse, sine[n]) \in Int
  <2>1. state[n].pulse \in Int /\ sine[n] \in -SineUnit .. SineUnit
    BY DEF RampState
  <2> QED
    BY <1>1, <2>1, DitherType
<1>4. Ramps(c, command) \in [ValveNames -> RampState]
  BY <1>1, <1>2 DEF Ramps, RampState
<1> QED
  BY <1>1, <1>3, <1>4 DEF Pulses

\* What Apply writes, whatever the sine of the dither is.
LEMMA ApplyWrites ==
    ASSUME TypeOK, Apply
    PROVE  /\ core' = Tick(core, now, healthy) /\ core' \in CoreType
           /\ Command(core', now) \in Row
           /\ ramps' = Ramps(core', Command(core', now)) /\ ramps' \in [ValveNames -> RampState]
           /\ \E sine \in [ValveNames -> -SineUnit .. SineUnit] :
                 pwm' = [valves |-> Pulses(core', ramps', sine), pump |-> PumpOn(core')]
           /\ pwm' \in Output
           /\ ~Active(core') => pwm' = Neutral
<1>1. now \in Nat /\ core \in CoreType /\ healthy \in BOOLEAN /\ ramps \in [ValveNames -> RampState]
  BY DEF TypeOK
<1>2. core' = Tick(core, now, healthy) /\ core' \in CoreType
  BY <1>1, TickType DEF Apply
<1>3. Command(core', now) \in Row
  BY <1>1, <1>2, CommandType
<1>4. ramps' = Ramps(core', Command(core', now)) /\ ramps' \in [ValveNames -> RampState]
  BY <1>1, <1>2, <1>3, PulsesType DEF Apply
<1>5. PICK sine \in [ValveNames -> -SineUnit .. SineUnit] :
          pwm' = [valves |-> Pulses(core', ramps', sine), pump |-> PumpOn(core')]
  BY DEF Apply
<1>6. Pulses(core', ramps', sine) \in [ValveNames -> Int] /\ PumpOn(core') \in BOOLEAN
  BY <1>1, <1>2, <1>3, <1>4, PulsesType DEF PumpOn, CoreType
<1>7. ~Active(core') => pwm' = Neutral
  BY <1>5 DEF Active, Pulses, PumpOn, Neutral
<1> QED
  BY <1>2, <1>3, <1>4, <1>5, <1>6, <1>7 DEF Output

-----------------------------------------------------------------------------
\* Every step keeps every type.
LEMMA TypeStep == TypeOK /\ [Next]_vars => TypeOK'
<1> SUFFICES ASSUME TypeOK, [Next]_vars PROVE TypeOK'
  OBVIOUS
<1> USE DEF TypeOK
<1>0. NumClients \in Nat \ {0} /\ MessageLimit \in Nat \ {0} /\ MaxSequence \in Nat
  BY LoopAssumption
<1>1. ASSUME NEW t \in now + 1 .. MaxTime, BeginTick(t) PROVE TypeOK'
  <2>1. t \in Nat
    BY LoopAssumption
  <2>2. PICK received \in {imu.received, t}, valid \in BOOLEAN, blocked \in BOOLEAN,
             disturbed \in BOOLEAN, io_error \in BOOLEAN :
          /\ imu' = [received |-> received, valid |-> valid, blocked |-> blocked]
          /\ healthy' = ImuHealthy(imu', t)
          /\ core' = Tick(LoopFaults(core, t - now, io_error, disturbed), t, healthy')
          /\ stop_at' = IF t - now > Deadline \/ io_error \/ disturbed \/ ~healthy'
                        THEN t ELSE stop_at
    BY <1>1 DEF BeginTick
  <2>3. imu' \in Imu /\ healthy' \in BOOLEAN
    BY <2>1, <2>2 DEF Imu, ImuHealthy
  <2>4. core' \in CoreType
    BY <2>1, <2>2, <2>3, LoopFaultsType, TickType
  <2>5. stop_at' \in Nat
    BY <2>1, <2>2
  <2> QED
    BY <1>1, <2>1, <2>3, <2>4, <2>5 DEF BeginTick
<1>2. CASE AcceptClients
  <2>1. clients' \in [Clients -> Client]
    <3> DEFINE opened == [NoClient EXCEPT !.open = TRUE]
    <3>1. opened \in Client
      BY DEF NoClient, Client
    <3>2. PICK k \in 0 .. NumClients :
            LET free == {ci \in Clients : ~clients[ci].open}
                taken == {ci \in free : Cardinality({f \in free : f <= ci}) <= k}
            IN  clients' = [ci \in Clients |-> IF ci \in taken THEN opened ELSE clients[ci]]
      BY <1>2 DEF AcceptClients
    <3> HIDE DEF opened
    <3> QED
      BY <3>1, <3>2
  <2> QED
    BY <1>2, <2>1, InitialTableType DEF AcceptClients
<1>3. ASSUME NEW ci \in Clients, CloseClient(ci) PROVE TypeOK'
  <2>1. core' \in CoreType
    BY <1>3, HaltType DEF CloseClient, Fault, SafetyState
  <2> QED
    BY <1>0, <1>3, <2>1, InitialTableType DEF CloseClient, NextTurn, Serving, Clients, NoOwner
<1>4. ASSUME NEW ci \in Clients, ServePacket(ci) PROVE TypeOK'
  <2>1. PICK s \in PacketShapes, sequence \in {clients[ci].sequence, clients[ci].sequence + 1} :
          \/ RejectPacket(ci, s, sequence) \/ ServeStatus(ci, s, sequence)
          \/ SkipDrive(ci, s, sequence) \/ ServeDrive(ci, s, sequence)
          \/ ServeDisarm(ci, s, sequence) \/ ServeEstop(ci, s, sequence)
    BY <1>4 DEF ServePacket
  <2>2. s \in Shape /\ sequence \in Nat
    BY <2>1, PacketAssumption DEF Client
  <2>3. CASE RejectPacket(ci, s, sequence)
    <3>1. core' \in CoreType
      BY <2>3, HaltType DEF RejectPacket, Fault, SafetyState
    <3> QED
      BY <1>0, <2>3, <3>1 DEF RejectPacket, ServeUnchanged, Serving
  <2>4. ASSUME Receives(ci, s, sequence)
        PROVE  /\ clients' \in [Clients -> Client] /\ budget' \in 0 .. MessageLimit
               /\ UNCHANGED <<now, pc, turn, imu, healthy, applied, ramps, pwm, output_at>>
    <3>1. [clients[ci] EXCEPT !.seen = TRUE, !.sequence = sequence] \in Client
      BY <2>2 DEF Client
    <3>2. clients' = [clients EXCEPT ![ci] = [clients[ci] EXCEPT !.seen = TRUE,
                                                                !.sequence = sequence]]
      BY <2>4 DEF Receives
    <3> QED
      BY <1>0, <2>4, <3>1, <3>2 DEF Receives, ServeUnchanged
  <2>5. CASE ServeStatus(ci, s, sequence) \/ SkipDrive(ci, s, sequence)
    BY <2>4, <2>5 DEF ServeStatus, SkipDrive
  <2>6. CASE ServeDrive(ci, s, sequence)
    BY <2>2, <2>4, <2>6, ReceiveDriveType DEF ServeDrive
  <2>7. CASE ServeDisarm(ci, s, sequence)
    BY <2>4, <2>7, HaltType DEF ServeDisarm, Disarm, SafetyState
  <2>8. CASE ServeEstop(ci, s, sequence)
    BY <2>4, <2>8, HaltType DEF ServeEstop, Fault, SafetyState
  <2> QED
    BY <2>1, <2>3, <2>5, <2>6, <2>7, <2>8
<1>5. CASE EndTurn
  BY <1>0, <1>5, InitialTableType DEF EndTurn, NextTurn, Clients
<1>6. CASE Apply
  <2>1. core' \in CoreType
    BY <1>6, TickType DEF Apply
  <2>2. Command(core', now) \in Row /\ ramps' \in [ValveNames -> RampState] /\ pwm' \in Output
    BY <1>6, ApplyWrites
  <2> QED
    BY <1>6, <2>1, <2>2, InitialTableType DEF Apply
<1>7. ASSUME NEW output \in Output, Exit(output) PROVE TypeOK'
  BY <1>0, <1>7, InitialCoreType, InitialTableType
     DEF Exit, NoOwner
<1>8. CASE Shutdown \/ Crash
  BY <1>7, <1>8, InitialCoreType DEF Shutdown, Crash
<1>9. CASE Restart
  BY <1>9, InitialCoreType DEF Restart
<1>10. CASE UNCHANGED vars
  BY <1>10 DEF vars
<1> QED
  BY <1>1, <1>2, <1>3, <1>4, <1>5, <1>6, <1>8, <1>9, <1>10 DEF Next

\* Every variable keeps its type, whatever packets arrive and whenever the
\* process stops or restarts.
THEOREM TypeCorrect == Spec => []TypeOK
<1>1. Init => TypeOK
  <2> SUFFICES ASSUME Init PROVE TypeOK
    OBVIOUS
  <2> USE DEF Init
  <2>1. now \in Nat /\ stop_at \in Nat /\ output_at \in Nat
    BY LoopAssumption
  <2>2. turn \in 1 .. NumClients + 1 /\ budget \in 0 .. MessageLimit
    BY InitialTableType
  <2>3. clients \in [Clients -> Client] /\ imu \in Imu /\ healthy \in BOOLEAN
    BY InitialTableType
  <2>4. /\ core \in CoreType /\ applied \in [command : Row, sequence : Nat]
        /\ ramps \in [ValveNames -> RampState] /\ pwm \in Output
    BY InitialCoreType
  <2> QED
    BY <2>1, <2>2, <2>3, <2>4 DEF TypeOK
<1> QED
  BY <1>1, TypeStep, PTL DEF Spec

-----------------------------------------------------------------------------
\* A core the loop's own faults leave live is the core they were given, and
\* nothing that must stop the machine happened.
LEMMA LoopFaultsEffect ==
    ASSUME NEW c \in CoreType, NEW gap, NEW io_error \in BOOLEAN, NEW disturbed \in BOOLEAN,
           LoopFaults(c, gap, io_error, disturbed).state \in Live
    PROVE  /\ LoopFaults(c, gap, io_error, disturbed) = c
           /\ ~(gap > Deadline) /\ ~io_error /\ ~disturbed
<1>1. \A e \in CoreType : Fault(e) \in CoreType /\ Fault(e).state = "fault"
  BY HaltType DEF Fault, SafetyState
<1> QED
  BY <1>1 DEF LoopFaults, Live

\* Between any two steps the timers of the core stand in these relations.
THEOREM TimersConsistent == Spec => []LeaseTimers
<1>1. Init => LeaseTimers
  BY LoopAssumption DEF Init, LeaseTimers, CoreInit, Live
<1>2. TypeOK /\ LeaseTimers /\ [Next]_vars => LeaseTimers'
  <2> SUFFICES ASSUME TypeOK, LeaseTimers, [Next]_vars PROVE LeaseTimers'
    OBVIOUS
  <2>0. /\ now \in Nat /\ stop_at \in Nat /\ core \in CoreType /\ healthy \in BOOLEAN
        /\ Deadline \in Nat /\ Lease \in Nat /\ Decay \in Nat /\ ArmDuration \in Nat
    BY TimeAssumption, LoopAssumption DEF TypeOK
  <2>a. /\ core.arm_started \in Nat /\ core.updated \in Nat /\ core.decay_started \in Nat
    BY <2>0 DEF CoreType
  <2>b. \A e \in CoreType : Fault(e).state = "fault" /\ Disarm(e).state = "disarmed"
    BY HaltType DEF Fault, Disarm, SafetyState
  <2>1. ASSUME NEW t \in now + 1 .. MaxTime, BeginTick(t) PROVE LeaseTimers'
    <3>1. PICK disturbed \in BOOLEAN, io_error \in BOOLEAN :
            /\ core' = Tick(LoopFaults(core, t - now, io_error, disturbed), t, healthy')
            /\ stop_at' = IF t - now > Deadline \/ io_error \/ disturbed \/ ~healthy'
                          THEN t ELSE stop_at
      BY <2>1 DEF BeginTick
    <3>2. t \in Nat /\ now < t /\ now' = t /\ pc' = "accept" /\ healthy' \in BOOLEAN
      BY <2>0, <2>1 DEF BeginTick, ImuHealthy
    <3>3. stop_at' <= now'
      BY <2>0, <3>1, <3>2 DEF LeaseTimers
    <3>4. CASE core'.state \notin Live
      BY <3>2, <3>3, <3>4 DEF LeaseTimers, Live
    <3>5. CASE core'.state \in Live
      <4> DEFINE c == LoopFaults(core, t - now, io_error, disturbed)
      <4>1. c \in CoreType
        BY <2>0, LoopFaultsType
      <4>2. /\ healthy' /\ core'.arm_started = c.arm_started /\ core'.updated = c.updated
            /\ core'.state = "arming" => c.state = "arming"
            /\ core'.state = "armed" => c.state = "armed" /\ t - c.updated <= Lease
            /\ core'.state = "decaying" =>
                 \/ c.state = "armed" /\ core'.decay_started = t /\ 0 < Decay
                 \/ /\ c.state = "decaying" /\ core'.decay_started = c.decay_started
                    /\ t - c.decay_started < Decay
        BY <3>1, <3>2, <3>5, <4>1, TickEffect DEF Live
      <4>3. c.state \in Live
        BY <3>5, <4>2 DEF Live
      <4>4. c = core /\ ~(t - now > Deadline) /\ ~io_error /\ ~disturbed
        BY <2>0, <4>3, LoopFaultsEffect
      <4>5. stop_at' = stop_at /\ t - now <= Deadline
        BY <2>0, <3>1, <3>2, <4>2, <4>4
      <4> HIDE DEF c
      <4> QED
        BY <2>0, <2>a, <3>2, <3>5, <4>2, <4>4, <4>5 DEF LeaseTimers, Live
    <3> QED
      BY <3>4, <3>5
  <2>2. ASSUME UNCHANGED <<now, core, stop_at>>,
               (pc' = "tick" /\ pwm' # Neutral) => (pc = "tick" /\ pwm # Neutral),
               pc' = "exited" => pc = "exited"
        PROVE  LeaseTimers'
    BY <2>2 DEF LeaseTimers
  <2>3. ASSUME now' = now, pc' # "tick", stop_at' \in {stop_at, now}, core'.state \notin Live
        PROVE  LeaseTimers'
    BY <2>0, <2>3 DEF LeaseTimers, Live
  <2>4. CASE AcceptClients \/ EndTurn
    BY <2>2, <2>4 DEF AcceptClients, EndTurn, NextTurn
  <2>5. ASSUME NEW ci \in Clients, CloseClient(ci) PROVE LeaseTimers'
    <3>1. now' = now /\ pc' \in {"serve", "apply"}
      BY <2>5 DEF CloseClient, NextTurn
    <3>2. CASE owner = ci
      BY <2>0, <2>b, <2>3, <2>5, <3>1, <3>2 DEF CloseClient, Live
    <3>3. CASE owner # ci
      BY <2>2, <2>5, <3>1, <3>3 DEF CloseClient
    <3> QED
      BY <3>2, <3>3
  <2>6. ASSUME NEW ci \in Clients, ServePacket(ci) PROVE LeaseTimers'
    <3>1. PICK s \in PacketShapes, sequence \in {clients[ci].sequence, clients[ci].sequence + 1} :
            \/ RejectPacket(ci, s, sequence) \/ ServeStatus(ci, s, sequence)
            \/ SkipDrive(ci, s, sequence) \/ ServeDrive(ci, s, sequence)
            \/ ServeDisarm(ci, s, sequence) \/ ServeEstop(ci, s, sequence)
      BY <2>6 DEF ServePacket
    <3>2. s \in Shape /\ sequence \in Nat
      BY <3>1, PacketAssumption DEF Client, TypeOK
    <3>3. now' = now /\ pc' = pc /\ pwm' = pwm /\ pc = "serve"
      BY <3>1 DEF RejectPacket, ServeStatus, SkipDrive, ServeDrive, ServeDisarm, ServeEstop,
                  Receives, ServeUnchanged, Serving
    <3>4. CASE RejectPacket(ci, s, sequence)
      <4>1. CASE owner = ci
        BY <2>0, <2>b, <2>3, <3>3, <3>4, <4>1 DEF RejectPacket, Live
      <4>2. CASE owner # ci
        BY <2>2, <3>3, <3>4, <4>2 DEF RejectPacket
      <4> QED
        BY <4>1, <4>2
    <3>5. CASE ServeStatus(ci, s, sequence) \/ SkipDrive(ci, s, sequence)
      BY <2>2, <3>3, <3>5 DEF ServeStatus, SkipDrive
    <3>6. CASE ServeDrive(ci, s, sequence)
      <4>0. core' = ReceiveDrive(core, s, now, healthy) /\ stop_at' \in {stop_at, now}
        BY <3>6 DEF ServeDrive
      <4>2. CASE core'.state \notin Live
        BY <2>3, <3>3, <4>0, <4>2
      <4>3. CASE core'.state \in Live
        <5>0. s.deadman \/ core.state \in {"fault", "decaying"}
          BY <2>0, <2>b, <4>0, <4>3 DEF ReceiveDrive, Live
        <5>a. stop_at' = stop_at
          BY <3>6, <5>0 DEF ServeDrive
        <5>b. core' = ReceiveDrive(core, s, now, healthy) /\ stop_at' = stop_at
          BY <4>0, <5>a
        <5>1. \/ core.state = "decaying" /\ core' = core
              \/ /\ core'.state \in {"arming", "armed"} /\ core'.updated = now
                 /\ \/ core.state \in {"arming", "armed"} /\ core'.arm_started = core.arm_started
                    \/ core.state = "disarmed" /\ core'.arm_started = now
                 /\ core'.state = "armed" =>
                       core.state = "armed" \/ now - core'.arm_started >= ArmDuration
          BY <2>0, <3>2, <5>b, <4>3, ReceiveDriveEffect DEF Live
        <5>2. CASE core.state = "decaying" /\ core' = core
          BY <2>2, <3>3, <5>b, <5>2
        <5>3. CASE core.state # "decaying" \/ core' # core
          <6>1. /\ core'.state \in {"arming", "armed"} /\ core'.updated = now
                /\ stop_at <= core'.arm_started /\ core'.arm_started <= now
            BY <2>0, <2>a, <5>1, <5>3 DEF LeaseTimers, Live
          <6>2. core'.state = "armed" => now - core'.arm_started >= ArmDuration
            BY <2>0, <2>a, <5>1, <5>3 DEF LeaseTimers
          <6> QED
            BY <2>0, <3>3, <5>b, <6>1, <6>2 DEF LeaseTimers, Live
        <5> QED
          BY <5>2, <5>3
      <4> QED
        BY <4>2, <4>3
    <3>7. CASE ServeDisarm(ci, s, sequence) \/ ServeEstop(ci, s, sequence)
      BY <2>0, <2>b, <2>3, <3>3, <3>7 DEF ServeDisarm, ServeEstop, Live
    <3> QED
      BY <3>1, <3>4, <3>5, <3>6, <3>7
  <2>7. CASE Apply
    <3>1. core' = Tick(core, now, healthy) /\ now' = now /\ stop_at' = stop_at
      BY <2>7 DEF Apply
    <3>2. core'.state \notin {"armed", "decaying"} => pwm' = Neutral
      BY <2>7, ApplyWrites DEF Active
    <3>3. CASE core'.state \notin Live
      BY <2>0, <3>1, <3>2, <3>3 DEF LeaseTimers, Live
    <3>4. CASE core'.state \in Live
      <4>1. /\ healthy /\ core'.arm_started = core.arm_started /\ core'.updated = core.updated
            /\ core'.state = "arming" => core.state = "arming"
            /\ core'.state = "armed" => core.state = "armed" /\ now - core.updated <= Lease
            /\ core'.state = "decaying" =>
                 \/ core.state = "armed" /\ core'.decay_started = now /\ 0 < Decay
                 \/ /\ core.state = "decaying" /\ core'.decay_started = core.decay_started
                    /\ now - core.decay_started < Decay
        BY <2>0, <3>1, <3>4, TickEffect DEF Live
      <4>2. pc' = "tick"
        BY <2>7 DEF Apply
      <4>3. core'.state = "decaying" =>
              /\ core'.decay_started <= now /\ now - core'.decay_started < Decay
              /\ core'.decay_started - core'.updated <= Lease + Deadline
        BY <2>0, <2>a, <4>1 DEF LeaseTimers
      <4> QED
        BY <2>0, <2>a, <3>1, <3>2, <3>4, <4>1, <4>2, <4>3 DEF LeaseTimers, Live
    <3> QED
      BY <3>3, <3>4
  <2>8. CASE Shutdown \/ Crash
    BY <2>3, <2>8 DEF Shutdown, Crash, Exit, CoreInit, Live
  <2>9. CASE Restart
    BY <2>0, <2>9 DEF Restart, LeaseTimers, Live
  <2>10. CASE UNCHANGED vars
    BY <2>2, <2>10 DEF vars
  <2> QED
    BY <2>1, <2>4, <2>5, <2>6, <2>7, <2>8, <2>9, <2>10 DEF Next
<1> QED
  BY <1>1, <1>2, TypeCorrect, PTL DEF Spec

-----------------------------------------------------------------------------
\* After any event that must stop the machine, no output leaves neutral before
\* a full arming hold has passed.
THEOREM StopsHold == Spec => []NoMotionAfterStop
<1>1. TypeOK /\ LeaseTimers => NoMotionAfterStop
  BY TimeAssumption DEF TypeOK, CoreType, LeaseTimers, NoMotionAfterStop, Live
<1> QED
  BY <1>1, TypeCorrect, TimersConsistent, PTL

\* Neither the core's clock nor a stop moves the time of the last accepted packet.
LEMMA UpdatedOnlyByDrive ==
    ASSUME NEW c \in CoreType
    PROVE  /\ Fault(c).updated = c.updated /\ Disarm(c).updated = c.updated
           /\ \A t \in Nat, h \in BOOLEAN : Tick(c, t, h).updated = c.updated
           /\ \A s \in Shape, t \in Nat, h \in BOOLEAN :
                 ReceiveDrive(c, s, t, h).updated \in {c.updated, t}
<1>1. \A e \in CoreType : Fault(e).updated = e.updated /\ Disarm(e).updated = e.updated
  BY DEF Fault, Disarm, Halt, CoreType
<1>2. ASSUME NEW t \in Nat, NEW h \in BOOLEAN PROVE Tick(c, t, h).updated = c.updated
  <2>1. StartDecay(c, t) \in CoreType /\ StartDecay(c, t).updated = c.updated
    BY DEF StartDecay, CoreType, SafetyState
  <2>2. [c EXCEPT !.previous = Evaluate(c.plan, t)].updated = c.updated
    BY DEF CoreType
  <2> QED
    BY <1>1, <2>1, <2>2 DEF Tick, EndDecay
<1>3. ASSUME NEW s \in Shape, NEW t \in Nat, NEW h \in BOOLEAN
      PROVE  ReceiveDrive(c, s, t, h).updated \in {c.updated, t}
  <2>1. Accept(c, s, t).updated = t
    BY DEF Accept, CoreType
  <2> QED
    BY <1>1, <2>1 DEF ReceiveDrive
<1> QED
  BY <1>1, <1>2, <1>3

\* What a step does to the time of the last accepted packet while the process runs.
LEMMA UpdatedStep ==
    ASSUME TypeOK, [Next]_vars, pc' # "exited", pc # "exited"
    PROVE  core'.updated \in {core.updated, now}
<1>0. now \in Nat /\ core \in CoreType /\ healthy \in BOOLEAN
  BY DEF TypeOK
<1>1. ASSUME NEW t \in now + 1 .. MaxTime, BeginTick(t) PROVE core'.updated = core.updated
  <2>1. PICK disturbed \in BOOLEAN, io_error \in BOOLEAN :
            core' = Tick(LoopFaults(core, t - now, io_error, disturbed), t, healthy')
    BY <1>1 DEF BeginTick
  <2> DEFINE c == LoopFaults(core, t - now, io_error, disturbed)
  <2>2. c \in CoreType /\ t \in Nat /\ healthy' \in BOOLEAN
    BY <1>0, <1>1, LoopAssumption, LoopFaultsType DEF BeginTick, ImuHealthy
  <2>3. \A e \in CoreType : Fault(e) \in CoreType /\ Fault(e).updated = e.updated
    BY HaltType, UpdatedOnlyByDrive DEF Fault, SafetyState
  <2>4. c.updated = core.updated
    BY <1>0, <2>3 DEF LoopFaults
  <2> HIDE DEF c
  <2>5. core' = Tick(c, t, healthy')
    BY <2>1 DEF c
  <2> QED
    BY <2>2, <2>4, <2>5, UpdatedOnlyByDrive
<1>2. ASSUME NEW ci \in Clients, ServePacket(ci) PROVE core'.updated \in {core.updated, now}
  <2>1. PICK s \in PacketShapes, sequence \in {clients[ci].sequence, clients[ci].sequence + 1} :
          \/ RejectPacket(ci, s, sequence) \/ ServeStatus(ci, s, sequence)
          \/ SkipDrive(ci, s, sequence) \/ ServeDrive(ci, s, sequence)
          \/ ServeDisarm(ci, s, sequence) \/ ServeEstop(ci, s, sequence)
    BY <1>2 DEF ServePacket
  <2>2. s \in Shape
    BY <2>1, PacketAssumption
  <2> QED
    BY <1>0, <2>1, <2>2, UpdatedOnlyByDrive
       DEF RejectPacket, ServeStatus, SkipDrive, ServeDrive, ServeDisarm, ServeEstop
<1>3. ASSUME NEW ci \in Clients, CloseClient(ci) PROVE core'.updated = core.updated
  BY <1>0, <1>3, UpdatedOnlyByDrive DEF CloseClient
<1>4. CASE Apply
  BY <1>0, <1>4, UpdatedOnlyByDrive DEF Apply
<1>5. CASE AcceptClients \/ EndTurn \/ UNCHANGED vars
  BY <1>5 DEF AcceptClients, EndTurn, vars
<1>6. ~(Shutdown \/ Crash \/ Restart)
  BY DEF Shutdown, Crash, Restart, Exit
<1> QED
  BY <1>1, <1>2, <1>3, <1>4, <1>5, <1>6 DEF Next

\* What the chip holds was written within the bound of the last accepted packet.
OutputInTime ==
    /\ output_at <= now
    /\ pwm # Neutral /\ pc # "exited" =>
          /\ output_at - core.updated < Lease + Deadline + Decay
          /\ pc = "tick" => output_at = now

\* What the core authorises, and every output it wrote, ends within lease + deadline
\* + decay of the last drive packet it accepted.
THEOREM MotionEnds == Spec => []MotionDeadline
<1>1. TypeOK /\ LeaseTimers /\ OutputInTime => MotionDeadline
  BY TimeAssumption, LoopAssumption DEF TypeOK, CoreType, LeaseTimers, MotionDeadline, OutputInTime, Active
<1>2. Init => OutputInTime
  BY LoopAssumption DEF Init, OutputInTime
<1>3. TypeOK /\ LeaseTimers' /\ OutputInTime /\ [Next]_vars => OutputInTime'
  <2> SUFFICES ASSUME TypeOK, LeaseTimers', OutputInTime, [Next]_vars PROVE OutputInTime'
    OBVIOUS
  <2>0. /\ now \in Nat /\ output_at \in Nat /\ core.updated \in Nat
        /\ Deadline \in Nat \ {0} /\ Lease \in Nat /\ Decay \in Nat
    BY TimeAssumption, LoopAssumption DEF TypeOK, CoreType
  <2>a. TypeOK'
    BY TypeStep
  <2>b. now' \in Nat /\ core'.updated \in Nat /\ core'.decay_started \in Nat
    BY <2>a DEF TypeOK, CoreType
  <2>1. ASSUME now <= now', UNCHANGED <<pwm, output_at>>, pc' # "tick", pc # "exited"
        PROVE  OutputInTime'
    <3>1. CASE pc' = "exited"
      BY <2>0, <2>b, <2>1, <3>1 DEF OutputInTime
    <3>2. CASE pc' # "exited"
      BY <2>0, <2>b, <2>1, <3>2, UpdatedStep DEF OutputInTime
    <3> QED
      BY <3>1, <3>2
  <2>2. ASSUME NEW t \in now + 1 .. MaxTime, BeginTick(t) PROVE OutputInTime'
    <3>1. now <= now' /\ UNCHANGED <<pwm, output_at>> /\ pc' = "accept" /\ pc = "tick"
      BY <2>0, <2>2, LoopAssumption DEF BeginTick
    <3> QED
      BY <2>1, <3>1
  <2>3. CASE AcceptClients \/ EndTurn
    <3>1. now' = now /\ UNCHANGED <<pwm, output_at>> /\ pc' \in {"serve", "apply"} /\ pc # "exited"
      BY <2>3 DEF AcceptClients, EndTurn, NextTurn
    <3> QED
      BY <2>0, <2>1, <3>1
  <2>4. ASSUME NEW ci \in Clients, CloseClient(ci) \/ ServePacket(ci) PROVE OutputInTime'
    <3>1. ASSUME CloseClient(ci)
          PROVE  now' = now /\ UNCHANGED <<pwm, output_at>> /\ pc' # "tick" /\ pc # "exited"
      BY <3>1 DEF CloseClient, NextTurn, Serving
    <3>2. ASSUME ServePacket(ci)
          PROVE  now' = now /\ UNCHANGED <<pwm, output_at>> /\ pc' # "tick" /\ pc # "exited"
      BY <3>2 DEF ServePacket, RejectPacket, ServeStatus, SkipDrive, ServeDrive, ServeDisarm,
                  ServeEstop, Receives, ServeUnchanged, Serving
    <3> QED
      BY <2>0, <2>1, <2>4, <3>1, <3>2
  <2>5. CASE Apply
    <3>1. now' = now /\ output_at' = now /\ pc' = "tick"
      BY <2>5 DEF Apply
    <3>2. ASSUME pwm' # Neutral PROVE now - core'.updated < Lease + Deadline + Decay
      <4>1. core'.state \in {"armed", "decaying"}
        BY <2>5, <3>2, ApplyWrites DEF Active
      <4> QED
        BY <2>0, <2>b, <3>1, <4>1 DEF LeaseTimers
    <3> QED
      BY <2>0, <3>1, <3>2 DEF OutputInTime
  <2>6. CASE Shutdown \/ Crash
    BY <2>6 DEF Shutdown, Crash, Exit, OutputInTime
  <2>7. CASE Restart
    BY <2>0, <2>7 DEF Restart, OutputInTime
  <2>8. CASE UNCHANGED vars
    BY <2>8 DEF vars, OutputInTime
  <2> QED
    BY <2>2, <2>3, <2>4, <2>5, <2>6, <2>7, <2>8 DEF Next
<1> QED
  BY <1>1, <1>2, <1>3, TypeCorrect, TimersConsistent, PTL DEF Spec

-----------------------------------------------------------------------------
\* What licenses motion: the IMU verdict of a tick is the one its sample earns
\* at the time the tick keeps, through every later step of that tick.
HealthIsCurrent == healthy => ImuHealthy(imu, now)

\* Output off neutral is licensed on the tick that writes it.
THEOREM MotionStaysLicensed == Spec => []MotionIsLicensed
<1> DEFINE LInv == HealthIsCurrent /\ MotionIsLicensed
<1>1. Init => LInv
  <2>1. Init => ~healthy /\ pwm = Neutral
    BY DEF Init
  <2> QED
    BY <2>1 DEF HealthIsCurrent, MotionIsLicensed
<1>2. TypeOK /\ LInv /\ [Next]_vars => LInv'
  <2> SUFFICES ASSUME TypeOK, LInv, [Next]_vars PROVE LInv'
    OBVIOUS
  <2>0. now \in Nat /\ core \in CoreType /\ healthy \in BOOLEAN
    BY DEF TypeOK
  <2>1. ASSUME UNCHANGED <<now, imu, healthy>>, pc' # "tick" PROVE LInv'
    BY <2>1 DEF HealthIsCurrent, MotionIsLicensed, ImuHealthy
  <2>2. ASSUME NEW t \in now + 1 .. MaxTime, BeginTick(t) PROVE LInv'
    <3>1. pc' = "accept" /\ now' = t
      BY <2>2 DEF BeginTick
    <3>2. PICK received \in {imu.received, t}, valid \in BOOLEAN, blocked \in BOOLEAN :
            /\ imu' = [received |-> received, valid |-> valid, blocked |-> blocked]
            /\ healthy' = ImuHealthy([received |-> received, valid |-> valid, blocked |-> blocked], t)
      BY <2>2, Zenon DEF BeginTick
    <3>3. HealthIsCurrent'
      BY <3>1, <3>2 DEF HealthIsCurrent
    <3> QED
      BY <3>1, <3>3 DEF MotionIsLicensed
  <2>3. CASE AcceptClients \/ EndTurn
    BY <2>1, <2>3 DEF AcceptClients, EndTurn, NextTurn
  <2>4. ASSUME NEW ci \in Clients, CloseClient(ci) \/ ServePacket(ci) PROVE LInv'
    <3>1. CASE CloseClient(ci)
      BY <2>1, <3>1 DEF CloseClient, NextTurn
    <3>2. CASE ServePacket(ci)
      <4>1. pc' # "tick" /\ UNCHANGED <<now, imu, healthy>>
        BY <3>2 DEF ServePacket, RejectPacket, ServeStatus, SkipDrive, ServeDrive, ServeDisarm,
                    ServeEstop, Receives, ServeUnchanged, Serving
      <4> QED
        BY <2>1, <4>1
    <3> QED
      BY <2>4, <3>1, <3>2
  <2>5. CASE Apply
    <3>1. core' = Tick(core, now, healthy) /\ UNCHANGED <<now, imu, healthy>>
      BY <2>5 DEF Apply
    <3>2. HealthIsCurrent'
      BY <3>1 DEF HealthIsCurrent, ImuHealthy
    <3>3. ASSUME pwm' # Neutral
          PROVE  /\ healthy /\ core'.state \in {"armed", "decaying"}
                 /\ core'.state = "armed" => /\ now - core'.updated <= Lease
                                             /\ ~Exhausted(core, now) /\ ~StaleObservation(core, now)
                                             /\ core'.plan = core.plan
      <4>1. core'.state \in {"armed", "decaying"}
        BY <2>5, <3>3, ApplyWrites DEF Active
      <4>2. /\ healthy /\ core'.updated = core.updated
            /\ core'.state = "armed" => now - core.updated <= Lease
        BY <2>0, <3>1, <4>1, TickEffect
      <4> QED
        BY <2>0, <3>1, <4>1, <4>2, TickLicence
    <3>4. ASSUME pwm' # Neutral, core'.state = "armed"
          PROVE  /\ Len(core'.plan.rows) > 1 =>
                      now <= core'.plan.t0 + (Len(core'.plan.rows) - 1) * RowTime
                 /\ core'.plan.observation > 0 =>
                      now - core'.plan.observation <= MaxObservationAge
      <4>1. /\ core.plan.rows \in Seq(Row) /\ core.plan.t0 \in Int /\ core.plan.observation \in Int
        BY <2>0 DEF CoreType, Plan
      <4> DEFINE last == core.plan.t0 + (Len(core.plan.rows) - 1) * RowTime
      <4>2. last \in Int /\ MaxObservationAge \in Nat
        <5> DEFINE steps == Len(core.plan.rows) - 1
        <5>1. steps \in Int /\ RowTime \in Int BY <4>1, TimeAssumption
        <5> HIDE DEF steps
        <5>2. steps * RowTime \in Int BY <5>1, ProductOfIntegers
        <5>3. core.plan.t0 + steps * RowTime \in Int BY <4>1, <5>2
        <5> QED BY <5>3, TimeAssumption DEF steps
      <4>3. Len(core.plan.rows) > 1 => ~(now > last)
        BY <3>3, <3>4 DEF Exhausted
      <4> HIDE DEF last
      <4>4. Len(core.plan.rows) > 1 => now <= last
        BY <2>0, <4>2, <4>3
      <4>5. core.plan.observation > 0 => now - core.plan.observation <= MaxObservationAge
        BY <2>0, <3>3, <3>4, <4>1, <4>2 DEF StaleObservation
      <4> QED
        BY <3>3, <3>4, <4>4, <4>5 DEF last
    <3>5. pwm'.pump => core'.state = "armed"
      <4>1. PICK sine \in [ValveNames -> -SineUnit .. SineUnit] :
                pwm' = [valves |-> Pulses(core', ramps', sine), pump |-> PumpOn(core')]
        BY <2>5, ApplyWrites
      <4>2. pwm'.pump = PumpOn(core')
        BY <4>1
      <4> QED
        BY <4>2 DEF PumpOn
    <3>6. healthy => ~imu.blocked /\ imu.valid /\ now - imu.received <= ImuTimeout
      BY DEF HealthIsCurrent, ImuHealthy
    <3> QED
      BY <3>1, <3>2, <3>3, <3>4, <3>5, <3>6 DEF MotionIsLicensed
  <2>6. CASE Shutdown \/ Crash
    <3>1. ~healthy' /\ pc' = "exited"
      BY <2>6 DEF Shutdown, Crash, Exit
    <3> QED
      BY <3>1 DEF HealthIsCurrent, MotionIsLicensed
  <2>7. CASE Restart
    BY <2>7 DEF Restart, HealthIsCurrent, MotionIsLicensed, ImuHealthy
  <2>8. CASE UNCHANGED vars
    BY <2>8 DEF vars, HealthIsCurrent, MotionIsLicensed, ImuHealthy
  <2> QED
    BY <2>2, <2>3, <2>4, <2>5, <2>6, <2>7, <2>8 DEF Next
<1> QED
  BY <1>1, <1>2, TypeCorrect, PTL DEF Spec

-----------------------------------------------------------------------------
\* What the status reports follows the core: the command of the last tick is the one
\* an armed core evaluated then, and in a decay a share of where the decay began that
\* is no smaller than the one that is left.
AppliedFollows ==
    /\ pc = "tick" /\ core.state = "armed" =>
          applied.command = [a \in Axes |-> core.previous[a] * DecayScale]
    /\ core.state = "decaying" =>
          \E k \in 0 .. Decay :
             /\ DecayLeft(core, now) <= k
             /\ applied.command = [a \in Axes |-> core.decay_from[a] * k]

\* A smaller share of a command is no larger, and points the same way.
LEMMA ShareBound ==
    ASSUME NEW x \in Int, NEW k \in Nat, NEW m \in Nat, k <= m
    PROVE  /\ x * k \in Int /\ x * m \in Int
           /\ Abs(x * k) <= Abs(x * m)
           /\ x * k > 0 => x * m > 0
           /\ x * k < 0 => x * m < 0
<1>1. CASE x >= 0
  <2>1. x * k <= x * m /\ 0 <= x * k /\ x * k \in Int /\ x * m \in Int
    BY <1>1, Z3
  <2> QED
    BY <2>1 DEF Abs
<1>2. CASE x < 0
  <2>1. x * m <= x * k /\ x * k <= 0 /\ x * k \in Int /\ x * m \in Int
    BY <1>2, Z3
  <2> QED
    BY <2>1 DEF Abs
<1> QED
  BY <1>1, <1>2

\* A larger share of a stroke reaches further.
LEMMA StrokeBound ==
    ASSUME NEW x \in Nat, NEW y \in Nat, x <= y, NEW span \in Nat, NEW f0 \in Nat \ {0}
    PROVE  /\ (x * span) \div f0 \in Nat /\ (y * span) \div f0 \in Nat
           /\ (x * span) \div f0 <= (y * span) \div f0
<1> DEFINE q == (x * span) \div f0
           r == (y * span) \div f0
<1>1. x * span \in Int /\ y * span \in Int /\ 0 <= x * span /\ x * span <= y * span
  BY Z3
<1>2. q \in Int /\ f0 * q <= x * span /\ x * span < f0 * (q + 1)
  BY <1>1, Z3
<1>3. r \in Int /\ f0 * r <= y * span /\ y * span < f0 * (r + 1)
  BY <1>1, Z3
<1> SUFFICES q \in Nat /\ r \in Nat /\ q <= r
  OBVIOUS
<1> HIDE DEF q, r
<1>4. q >= 0
  <2> SUFFICES ASSUME q <= -1 PROVE FALSE
    BY <1>2
  <2>1. f0 * (q + 1) <= 0 /\ f0 * (q + 1) \in Int
    BY <1>2, Z3
  <2> QED
    BY <1>1, <1>2, <2>1
<1>5. q <= r
  <2> SUFFICES ASSUME r + 1 <= q PROVE FALSE
    BY <1>2, <1>3
  <2>1. f0 * (r + 1) <= f0 * q /\ f0 * (r + 1) \in Int /\ f0 * q \in Int
    BY <1>2, <1>3, Z3
  <2> QED
    BY <1>1, <1>2, <1>3, <2>1
<1> QED
  BY <1>2, <1>3, <1>4, <1>5

\* The pulse of a smaller command of the same sign lies between the centre and that of
\* the larger one.
LEMMA TargetFalls ==
    ASSUME NEW v \in ValveType, Calibratable(v), NEW x \in Int, NEW y \in Int,
           Abs(x) <= Abs(y), x > 0 => y > 0, x < 0 => y < 0
    PROVE  Amid(TargetPulse(v, x), v.center, TargetPulse(v, y))
<1> DEFINE sx == IF Abs(x) > FullCommand THEN FullCommand ELSE Abs(x)
           sy == IF Abs(y) > FullCommand THEN FullCommand ELSE Abs(y)
           hx == v.curve[sx]
           hy == v.curve[sy]
           above == v.max - UpperEdge(v)
           below == LowerEdge(v) - v.min
           ux == (hx * above) \div CurveUnit
           uy == (hy * above) \div CurveUnit
           dx == (hx * below) \div CurveUnit
           dy == (hy * below) \div CurveUnit
<1>1. /\ v.center \in Nat /\ UpperEdge(v) \in Int /\ LowerEdge(v) \in Int
      /\ v.center <= UpperEdge(v) /\ LowerEdge(v) <= v.center /\ v.direction \in {-1, 1}
      /\ above \in Nat /\ below \in Nat /\ CurveUnit \in Nat \ {0}
  BY CalibrationType, UnitType DEF Calibratable
<1>2. sx \in 0 .. FullCommand /\ sy \in 0 .. FullCommand /\ hx \in 0 .. CurveUnit /\ hy \in 0 .. CurveUnit
  BY ShareType
<1>3. hx <= hy
  <2>1. sx <= sy
    BY UnitType DEF Abs
  <2> QED
    BY <1>2, <2>1 DEF Calibratable
<1>4. hx # 0 => x # 0 /\ y # 0
  <2>1. x = 0 => sx = 0
    BY UnitType DEF Abs
  <2>2. x = 0 => hx = 0
    BY <2>1 DEF Calibratable
  <2> QED
    BY <2>2 DEF Abs
<1>5. /\ TargetPulse(v, x) = IF hx = 0 THEN v.center
                             ELSE IF x * v.direction > 0 THEN UpperEdge(v) + ux
                             ELSE LowerEdge(v) - dx
      /\ TargetPulse(v, y) = IF hy = 0 THEN v.center
                             ELSE IF y * v.direction > 0 THEN UpperEdge(v) + uy
                             ELSE LowerEdge(v) - dy
  BY DEF TargetPulse
<1>6. hx # 0 => (x * v.direction > 0 <=> y * v.direction > 0)
  BY <1>1, <1>4
<1>7. ux \in Nat /\ uy \in Nat /\ ux <= uy /\ dx \in Nat /\ dy \in Nat /\ dx <= dy
  <2> HIDE DEF hx, hy, above, below
  <2>1. hx \in Nat /\ hy \in Nat
    BY <1>1, <1>2
  <2> QED
    BY <1>1, <1>3, <2>1, StrokeBound
<1> HIDE DEF ux, uy, dx, dy, hx, hy, sx, sy, above, below
<1>8. CASE hx = 0
  BY <1>1, <1>5, <1>7, <1>8 DEF Amid
<1>9. CASE hx # 0
  <2>1. hy # 0
    BY <1>1, <1>2, <1>3, <1>9
  <2> QED
    BY <1>1, <1>5, <1>6, <1>7, <1>9, <2>1 DEF Amid
<1> QED
  BY <1>8, <1>9

\* A valve is asked for the centre, or for a pulse beyond its dead band and inside its limits.
LEMMA TargetReach ==
    ASSUME NEW v \in ValveType, Calibratable(v), NEW x \in Int
    PROVE  LET target == TargetPulse(v, x)
           IN  /\ target \in v.min .. v.max
               /\ target = v.center \/ target >= UpperEdge(v) \/ target <= LowerEdge(v)
<1> DEFINE size == IF Abs(x) > FullCommand THEN FullCommand ELSE Abs(x)
           share == v.curve[size]
           above == v.max - UpperEdge(v)
           below == LowerEdge(v) - v.min
           up == (share * above) \div CurveUnit
           down == (share * below) \div CurveUnit
<1>1. /\ v.center \in Nat /\ v.min \in Nat /\ v.max \in Nat
      /\ UpperEdge(v) \in Int /\ LowerEdge(v) \in Int
      /\ v.center <= UpperEdge(v) /\ LowerEdge(v) <= v.center
      /\ above \in Nat /\ below \in Nat /\ CurveUnit \in Nat \ {0}
  BY CalibrationType, UnitType DEF Calibratable
<1>2. share \in 0 .. CurveUnit
  BY ShareType
<1>3. ASSUME NEW span \in Nat PROVE (share * span) \div CurveUnit \in 0 .. span
  <2>1. (CurveUnit * span) \div CurveUnit = span
    BY <1>1, Z3
  <2>2. share \in Nat /\ CurveUnit \in Nat /\ share <= CurveUnit
    BY <1>1, <1>2
  <2> HIDE DEF share
  <2> QED
    BY <1>1, <2>1, <2>2, StrokeBound
<1>4. up \in 0 .. above /\ down \in 0 .. below
  <2> HIDE DEF share, above, below
  <2> QED
    BY <1>1, <1>3
<1>5. TargetPulse(v, x) \in {v.center, UpperEdge(v) + up, LowerEdge(v) - down}
  BY DEF TargetPulse
<1>6. v.min <= v.center /\ v.center <= v.max
  BY <1>1 DEF Calibratable
<1> HIDE DEF up, down, share
<1> QED
  BY <1>1, <1>4, <1>5, <1>6

\* A ramp that starts inside the limits goes from where it stands to what it is asked.
LEMMA RampApproaches ==
    ASSUME NEW v \in ValveType, Calibratable(v), NEW x \in Int, NEW t \in Nat,
           NEW r \in RampState, r.initialized => r.pulse \in v.min .. v.max
    PROVE  LET target == TargetPulse(v, x)
               next == RampPulse(v, target, t, r)
           IN  /\ next \in v.min .. v.max
               /\ Amid(next, r.pulse, target)
<1> DEFINE target == TargetPulse(v, x)
           from == RampStart(v, r.pulse, target)
           allowed == v.ramp_limit * Clamp(t - r.time, 0, RampWindow)
           moved == from + Clamp(target - from, -allowed, allowed)
           next == RampPulse(v, target, t, r)
<1>1. /\ v.center \in Nat /\ v.min \in Nat /\ v.max \in Nat
      /\ UpperEdge(v) \in Int /\ LowerEdge(v) \in Int
      /\ v.center <= UpperEdge(v) /\ LowerEdge(v) <= v.center
      /\ v.min <= v.center /\ v.center <= v.max
      /\ r.pulse \in Int /\ r.time \in Nat
  BY CalibrationType DEF Calibratable, RampState
<1>2. /\ target \in v.min .. v.max
      /\ target = v.center \/ target >= UpperEdge(v) \/ target <= LowerEdge(v)
  BY TargetReach
<1>3. allowed \in Nat
  <2>1. Clamp(t - r.time, 0, RampWindow) \in Nat
    BY <1>1, UnitType DEF Clamp
  <2>2. v.ramp_limit \in Nat
    BY CalibrationType
  <2>3. \A p0, q0 \in Nat : p0 * q0 \in Nat
    BY Z3
  <2> QED
    BY <2>1, <2>2, <2>3
<1> HIDE DEF target, allowed
<1>4. target \in Int
  BY <1>1, <1>2
<1>5. Amid(from, r.pulse, target) /\ from \in Int
  BY <1>1, <1>2, <1>4 DEF RampStart, Amid
<1> HIDE DEF from
<1>6. Amid(moved, from, target) /\ moved \in Int
  BY <1>3, <1>4, <1>5 DEF Clamp, Amid
<1> HIDE DEF moved
<1>7. next \in {target, moved} \/ (target = v.center /\ next = v.center)
  BY DEF RampPulse, target, from, allowed, moved
<1>8. next # target => r.initialized /\ next = moved
  BY <1>7 DEF RampPulse, moved, from, allowed
<1> HIDE DEF next
<1>9. CASE next = target
  BY <1>1, <1>2, <1>4, <1>9 DEF Amid, target, next
<1>10. CASE next # target
  BY <1>1, <1>2, <1>4, <1>5, <1>6, <1>8, <1>10 DEF Amid, target, next
<1> QED
  BY <1>9, <1>10

\* A dither never takes a pulse inside the limits further than two amplitudes.
LEMMA DitherBound ==
    ASSUME NEW v \in ValveType, v.min + 2 * v.dither_amp <= v.max,
           NEW base \in v.min .. v.max, NEW sine \in -SineUnit .. SineUnit
    PROVE  Abs(Dither(v, base, sine) - base) <= 2 * v.dither_amp
<1> DEFINE amp == Amplitude(v, base)
           room == IF v.min + amp > v.max - amp THEN (v.min + v.max) \div 2
                   ELSE Clamp(base, v.min + amp, v.max - amp)
           swing == (Amplitude(v, room) * sine) \div SineUnit
           swung == room + swing
           given == IF v.dither_amp = 0 \/ base = v.center THEN base ELSE swung
<1>1. v.min \in Nat /\ v.max \in Nat /\ v.dither_amp \in Nat /\ base \in Int
  BY CalibrationType
<1>2. amp \in 0 .. v.dither_amp
  BY <1>1, AmplitudeBound
<1>3. room \in Int /\ -amp <= room - base /\ room - base <= amp
  <2> HIDE DEF amp
  <2> QED
    BY <1>1, <1>2 DEF Clamp
<1>4. swing \in Int /\ -v.dither_amp <= swing /\ swing <= v.dither_amp
  <2> HIDE DEF room
  <2>1. Amplitude(v, room) \in 0 .. v.dither_amp
    BY <1>3, AmplitudeBound
  <2>2. swing \in -Amplitude(v, room) .. Amplitude(v, room)
    BY <1>1, <2>1, SwingBound
  <2> HIDE DEF swing
  <2> QED
    BY <1>1, <2>1, <2>2
<1>5. Dither(v, base, sine) = Clamp(given, v.min, v.max)
  BY DEF Dither
<1>6. given \in Int /\ -(2 * v.dither_amp) <= given - base /\ given - base <= 2 * v.dither_amp
  <2> HIDE DEF amp, room, swing
  <2> QED
    BY <1>1, <1>2, <1>3, <1>4
<1> HIDE DEF given
<1> QED
  BY <1>1, <1>5, <1>6 DEF Clamp, Abs

\* The share that is left of a decay only falls.
LEMMA DecayFalls ==
    ASSUME NEW c \in CoreType, NEW t \in Nat, NEW u \in Nat, t <= u
    PROVE  /\ DecayLeft(c, t) \in 0 .. Decay /\ DecayLeft(c, u) \in 0 .. Decay
           /\ DecayLeft(c, u) <= DecayLeft(c, t)
BY TimeAssumption DEF DecayLeft, Clamp, CoreType

\* A step of a decaying core's service: the decay goes on untouched or ends in a stop.
LEMMA DecayStep ==
    ASSUME TypeOK, [Next]_vars, core.state = "decaying"
    PROVE  core' = core \/ core'.state \in {"fault", "disarmed"}
<1>0. now \in Nat /\ core \in CoreType /\ healthy \in BOOLEAN
  BY DEF TypeOK
<1>a. \A e \in CoreType : Fault(e).state = "fault" /\ Disarm(e).state = "disarmed"
  BY HaltType DEF Fault, Disarm, SafetyState
<1>1. ASSUME NEW t \in now + 1 .. MaxTime, BeginTick(t)
      PROVE  core' = core \/ core'.state \in {"fault", "disarmed"}
  <2>1. PICK disturbed \in BOOLEAN, io_error \in BOOLEAN :
            core' = Tick(LoopFaults(core, t - now, io_error, disturbed), t, healthy')
    BY <1>1 DEF BeginTick
  <2> DEFINE c == LoopFaults(core, t - now, io_error, disturbed)
  <2>2. c \in CoreType /\ t \in Nat /\ healthy' \in BOOLEAN
    BY <1>0, <1>1, LoopAssumption, LoopFaultsType DEF BeginTick, ImuHealthy
  <2>3. c = core \/ c.state = "fault"
    BY <1>0, <1>a, HaltType DEF LoopFaults, Fault, SafetyState
  <2> HIDE DEF c
  <2>4. core' = Tick(c, t, healthy')
    BY <2>1 DEF c
  <2>5. core' = c \/ core'.state = "fault"
    BY <2>2, <2>3, <2>4, TickOfStopped
  <2> QED
    BY <2>3, <2>5
<1>2. ASSUME NEW ci \in Clients, ServePacket(ci)
      PROVE  core' = core \/ core'.state \in {"fault", "disarmed"}
  BY <1>0, <1>a, <1>2, ReceiveOfStopped
     DEF ServePacket, RejectPacket, ServeStatus, SkipDrive, ServeDrive, ServeDisarm, ServeEstop
<1>3. ASSUME NEW ci \in Clients, CloseClient(ci)
      PROVE  core' = core \/ core'.state \in {"fault", "disarmed"}
  BY <1>0, <1>a, <1>3 DEF CloseClient
<1>4. CASE Apply
  BY <1>0, <1>4, TickOfStopped DEF Apply
<1>5. CASE Shutdown \/ Crash
  BY <1>5 DEF Shutdown, Crash, Exit, CoreInit
<1>6. CASE AcceptClients \/ EndTurn \/ Restart \/ UNCHANGED vars
  BY <1>6 DEF AcceptClients, EndTurn, Restart, vars
<1> QED
  BY <1>1, <1>2, <1>3, <1>4, <1>5, <1>6 DEF Next

\* What tick commands in a decay: the share that is left of where it began.
LEMMA DecayCommand ==
    ASSUME NEW c \in CoreType, NEW t \in Nat, c.state = "decaying"
    PROVE  Command(c, t) = [a \in Axes |-> c.decay_from[a] * DecayLeft(c, t)] /\ ~PumpOn(c)
BY DEF Command, PumpOn

\* A decay that starts keeps the command of the tick before.
LEMMA TickStartsDecay ==
    ASSUME NEW c \in CoreType, NEW t \in Nat, NEW h \in BOOLEAN,
           c.state = "armed", Tick(c, t, h).state = "decaying"
    PROVE  Tick(c, t, h).decay_from = c.previous /\ 0 < Decay
<1>1. \A e \in CoreType : Fault(e).state = "fault"
  BY HaltType DEF Fault, SafetyState
<1>2. /\ StartDecay(c, t) \in CoreType /\ StartDecay(c, t).decay_from = c.previous
  BY DEF StartDecay, CoreType, SafetyState
<1>3. [c EXCEPT !.previous = Evaluate(c.plan, t)].state = "armed"
  BY DEF CoreType
<1>4. Tick(c, t, h) = EndDecay(StartDecay(c, t), t)
  BY <1>1, <1>3 DEF Tick
<1>5. Tick(c, t, h) = StartDecay(c, t)
  BY <1>1, <1>2, <1>4 DEF EndDecay
<1> QED
  BY <1>2, <1>5, TickEffect

\* The reported command follows the core.
LEMMA AppliedHolds == Spec => []AppliedFollows
<1>1. Init => AppliedFollows
  <2>1. Init => core.state = "disarmed"
    BY DEF Init, CoreInit
  <2> QED
    BY <2>1 DEF AppliedFollows
<1>2. TypeOK /\ LeaseTimers /\ AppliedFollows /\ [Next]_vars => AppliedFollows'
  <2> SUFFICES ASSUME TypeOK, LeaseTimers, AppliedFollows, [Next]_vars PROVE AppliedFollows'
    OBVIOUS
  <2>0. /\ now \in Nat /\ core \in CoreType /\ healthy \in BOOLEAN /\ Decay \in Nat
        /\ core.previous \in Row /\ now' \in Nat /\ core' \in CoreType
    <3>1. TypeOK'
      BY TypeStep
    <3> QED
      BY <3>1, TimeAssumption DEF TypeOK, CoreType
  <2>1. ASSUME core' = core, applied' = applied, now <= now', core.state = "decaying"
        PROVE  \E k \in 0 .. Decay :
                  /\ DecayLeft(core', now') <= k
                  /\ applied'.command = [a \in Axes |-> core'.decay_from[a] * k]
    <3>1. PICK k \in 0 .. Decay :
              /\ DecayLeft(core, now) <= k
              /\ applied.command = [a \in Axes |-> core.decay_from[a] * k]
      BY <2>1 DEF AppliedFollows
    <3>2. /\ DecayLeft(core, now') <= DecayLeft(core, now)
          /\ DecayLeft(core, now) \in Int /\ DecayLeft(core, now') \in Int
      BY <2>0, <2>1, DecayFalls
    <3>3. DecayLeft(core, now') <= k
      BY <3>1, <3>2
    <3> QED
      BY <2>1, <3>1, <3>3
  <2>2. ASSUME core'.state \notin {"armed", "decaying"} PROVE AppliedFollows'
    BY <2>2 DEF AppliedFollows
  <2>3. ASSUME NEW t \in now + 1 .. MaxTime, BeginTick(t) PROVE AppliedFollows'
    <3>1. PICK disturbed \in BOOLEAN, io_error \in BOOLEAN :
              core' = Tick(LoopFaults(core, t - now, io_error, disturbed), t, healthy')
      BY <2>3 DEF BeginTick
    <3> DEFINE c == LoopFaults(core, t - now, io_error, disturbed)
    <3>2. c \in CoreType /\ t \in Nat /\ healthy' \in BOOLEAN /\ now' = t /\ now < t
          /\ pc = "tick" /\ pc' = "accept" /\ applied' = applied
      BY <2>0, <2>3, LoopAssumption, LoopFaultsType DEF BeginTick, ImuHealthy
    <3>3. CASE core'.state # "decaying"
      BY <3>2, <3>3 DEF AppliedFollows
    <3>4. CASE core'.state = "decaying"
      <4>1. c.state \in {"armed", "decaying"}
        BY <3>1, <3>2, <3>4, TickEffect
      <4>2. c = core
        BY <2>0, <4>1, LoopFaultsEffect DEF Live
      <4>3. CASE core.state = "decaying"
        <5>1. core' = core
          BY <2>0, <3>1, <3>2, <3>4, <4>2, <4>3, TickOfStopped
        <5> QED
          BY <2>0, <2>1, <3>2, <4>3, <5>1 DEF AppliedFollows
      <4>4. CASE core.state = "armed"
        <5>1. /\ core'.decay_from = core.previous /\ 0 < Decay
          BY <2>0, <3>1, <3>2, <3>4, <4>2, <4>4, TickStartsDecay
        <5>2. applied'.command = [a \in Axes |-> core'.decay_from[a] * Decay]
          BY <2>0, <3>2, <4>4, <5>1 DEF AppliedFollows, DecayScale
        <5>3. DecayLeft(core', now') <= Decay /\ Decay \in 0 .. Decay
          BY <2>0, DecayFalls
        <5> QED
          BY <3>2, <5>2, <5>3 DEF AppliedFollows
      <4> QED
        BY <4>1, <4>2, <4>3, <4>4
    <3> QED
      BY <3>3, <3>4
  <2>4. CASE Apply
    <3>1. /\ core' = Tick(core, now, healthy) /\ now' = now
          /\ applied'.command = Command(core', now)
      BY <2>4 DEF Apply
    <3>2. core'.state = "armed" =>
            applied'.command = [a \in Axes |-> core'.previous[a] * DecayScale]
      BY <3>1 DEF Command
    <3>3. DecayLeft(core', now) \in 0 .. Decay /\ DecayLeft(core', now) <= DecayLeft(core', now)
      BY <2>0, DecayFalls
    <3>4. core'.state = "decaying" =>
            applied'.command = [a \in Axes |-> core'.decay_from[a] * DecayLeft(core', now)]
      BY <3>1 DEF Command
    <3> QED
      BY <3>1, <3>2, <3>3, <3>4 DEF AppliedFollows
  <2>5. CASE Shutdown \/ Crash
    BY <2>2, <2>5 DEF Shutdown, Crash, Exit, CoreInit
  <2>6. ASSUME now' = now, applied' = applied, pc' # "tick" \/ core'.state # "armed",
               core'.state = "decaying" => core' = core
        PROVE  AppliedFollows'
    <3>1. CASE core'.state = "decaying"
      <4>1. core' = core /\ core.state = "decaying"
        BY <2>6, <3>1
      <4> QED
        BY <2>0, <2>1, <2>6, <3>1, <4>1 DEF AppliedFollows
    <3>2. CASE core'.state # "decaying"
      BY <2>6, <3>2 DEF AppliedFollows
    <3> QED
      BY <3>1, <3>2
  <2>7. ASSUME Restart PROVE AppliedFollows'
    <3>1. now' = now /\ UNCHANGED <<applied, core>> /\ pc = "exited"
      BY <2>7 DEF Restart
    <3>2. core.state # "armed"
      BY <3>1 DEF LeaseTimers, Live
    <3> QED
      BY <2>6, <3>1, <3>2
  <2>8. CASE AcceptClients \/ EndTurn
    <3>1. now' = now /\ UNCHANGED <<applied, core>> /\ pc' \in {"serve", "apply"}
      BY <2>8 DEF AcceptClients, EndTurn, NextTurn
    <3> QED
      BY <2>6, <3>1
  <2>9. CASE UNCHANGED vars
    BY <2>9 DEF vars, AppliedFollows
  <2>10. ASSUME NEW ci \in Clients, CloseClient(ci) \/ ServePacket(ci) PROVE AppliedFollows'
    <3>1. now' = now /\ applied' = applied /\ pc' # "tick" /\ pc = "serve"
      BY <2>10, SMTT(30) DEF CloseClient, NextTurn, ServePacket, RejectPacket, ServeStatus,
                  SkipDrive, ServeDrive, ServeDisarm, ServeEstop, Receives, ServeUnchanged, Serving
    <3>2. \A e \in CoreType : Fault(e).state = "fault" /\ Disarm(e).state = "disarmed"
      BY HaltType DEF Fault, Disarm, SafetyState
    <3>3. CASE CloseClient(ci)
      BY <2>0, <2>6, <3>1, <3>2, <3>3 DEF CloseClient
    <3>4. CASE ServePacket(ci)
      <4>1. PICK s \in PacketShapes, sequence \in {clients[ci].sequence, clients[ci].sequence + 1} :
            \/ RejectPacket(ci, s, sequence) \/ ServeStatus(ci, s, sequence)
            \/ SkipDrive(ci, s, sequence) \/ ServeDrive(ci, s, sequence)
            \/ ServeDisarm(ci, s, sequence) \/ ServeEstop(ci, s, sequence)
        BY <3>4 DEF ServePacket
      <4>2. s \in Shape
        BY <4>1, PacketAssumption
      <4>3. core'.state = "decaying" => core' = core
        <5>1. CASE ServeDrive(ci, s, sequence)
          BY <2>0, <4>2, <5>1, ReceiveDriveEffect DEF ServeDrive
        <5>2. CASE ~ServeDrive(ci, s, sequence)
          BY <2>0, <3>2, <4>1, <5>2
             DEF RejectPacket, ServeStatus, SkipDrive, ServeDisarm, ServeEstop
        <5> QED
          BY <5>1, <5>2
      <4> QED
        BY <2>6, <3>1, <4>3
    <3> QED
      BY <2>10, <3>3, <3>4
  <2> QED
    BY <2>3, <2>4, <2>5, <2>7, <2>8, <2>9, <2>10 DEF Next
<1> QED
  BY <1>1, <1>2, TypeCorrect, TimersConsistent, PTL DEF Spec

\* What a ramp remembers lies within the limits of its valve.
RampsInRange ==
    \A n \in ValveNames :
        ramps[n].initialized => ramps[n].pulse \in Calibration[n].min .. Calibration[n].max

LEMMA RampsStayInRange == Spec => []RampsInRange
<1>1. Init => RampsInRange
  BY DEF Init, RampsInRange, NoRamp
<1>2. TypeOK /\ RampsInRange /\ [Next]_vars => RampsInRange'
  <2> SUFFICES ASSUME TypeOK, RampsInRange, [Next]_vars PROVE RampsInRange'
    OBVIOUS
  <2>1. CASE UNCHANGED ramps
    BY <2>1 DEF RampsInRange
  <2>2. CASE Apply
    <3>1. now \in Nat /\ ramps \in [ValveNames -> RampState]
      BY DEF TypeOK
    <3>2. Command(core', now) \in Row /\ ramps' = Ramps(core', Command(core', now))
      BY <2>2, ApplyWrites
    <3>3. ASSUME NEW n \in ValveNames
          PROVE  ramps'[n].pulse \in Calibration[n].min .. Calibration[n].max
      <4> DEFINE v == Calibration[n]
                 x == ValveCommand(Command(core', now), n)
                 next == RampPulse(v, TargetPulse(v, x), now, ramps[n])
      <4>1. v \in ValveType /\ Calibratable(v) /\ x \in Int /\ ramps[n] \in RampState
        BY <3>1, <3>2, CalibrationOf DEF ValveCommand, Row
      <4>2. next \in v.min .. v.max
        BY <3>1, <4>1, RampApproaches DEF RampsInRange
      <4>3. v.center \in v.min .. v.max
        BY <4>1, CalibrationType DEF Calibratable
      <4>4. ramps'[n].pulse \in {next, v.center}
        BY <3>2 DEF Ramps
      <4> HIDE DEF next, v
      <4> QED
        BY <4>2, <4>3, <4>4 DEF v
    <3> QED
      BY <3>3 DEF RampsInRange
  <2>3. CASE Shutdown \/ Crash
    BY <2>3 DEF Shutdown, Crash, Exit, RampsInRange, NoRamp
  <2>4. ASSUME NEW t, BeginTick(t) PROVE UNCHANGED ramps
    BY <2>4 DEF BeginTick
  <2>5. ASSUME NEW ci, CloseClient(ci) PROVE UNCHANGED ramps
    BY <2>5 DEF CloseClient
  <2>6. ASSUME NEW ci, ServePacket(ci) PROVE UNCHANGED ramps
    BY <2>6 DEF ServePacket, RejectPacket, ServeStatus, SkipDrive, ServeDrive, ServeDisarm,
                ServeEstop, Receives, ServeUnchanged
  <2>7. CASE AcceptClients \/ EndTurn \/ Restart \/ UNCHANGED vars
    BY <2>1, <2>7 DEF AcceptClients, EndTurn, Restart, vars
  <2> QED
    BY <2>1, <2>2, <2>3, <2>4, <2>5, <2>6, <2>7 DEF Next
<1> QED
  BY <1>1, <1>2, TypeCorrect, PTL DEF Spec

\* A tick that finds the core decaying asks less of every valve; the ramps approach what
\* is asked, and the chip gets what they say but for the dither.
LEMMA DecayingTick ==
    ASSUME TypeOK, AppliedFollows, RampsInRange, Apply, core.state = "decaying",
           core' = core \/ core'.state \in {"fault", "disarmed"}
    PROVE  /\ ~pwm'.pump
           /\ \A n \in ValveNames :
                 LET v == Calibration[n]
                 IN  /\ Amid(Asks(n)', v.center, Asks(n))
                     /\ Amid(ramps'[n].pulse, ramps[n].pulse, Asks(n)')
                     /\ v.min + 2 * v.dither_amp <= v.max =>
                           Abs(pwm'.valves[n] - ramps'[n].pulse) <= 2 * v.dither_amp
<1>0. /\ now \in Nat /\ core \in CoreType /\ ramps \in [ValveNames -> RampState]
      /\ core.decay_from \in Row /\ Decay \in Nat
  BY TimeAssumption DEF TypeOK, CoreType
<1>1. /\ core' \in CoreType /\ Command(core', now) \in Row
      /\ ramps' = Ramps(core', Command(core', now)) /\ ramps' \in [ValveNames -> RampState]
  BY ApplyWrites
<1>2. PICK sine \in [ValveNames -> -SineUnit .. SineUnit] :
          pwm' = [valves |-> Pulses(core', ramps', sine), pump |-> PumpOn(core')]
  BY ApplyWrites
<1>3. applied'.command = Command(core', now)
  BY DEF Apply
<1>4. ~pwm'.pump
  BY <1>2 DEF PumpOn
<1>5. PICK k \in 0 .. Decay :
          /\ DecayLeft(core, now) <= k
          /\ applied.command = [a \in Axes |-> core.decay_from[a] * k]
  BY DEF AppliedFollows
<1>6. DecayLeft(core, now) \in Nat /\ k \in Nat
  BY <1>0, DecayFalls
<1>7. ASSUME NEW n \in ValveNames
      PROVE  LET v == Calibration[n]
             IN  /\ Amid(Asks(n)', v.center, Asks(n))
                 /\ Amid(ramps'[n].pulse, ramps[n].pulse, Asks(n)')
                 /\ v.min + 2 * v.dither_amp <= v.max =>
                       Abs(pwm'.valves[n] - ramps'[n].pulse) <= 2 * v.dither_amp
  <2> DEFINE v == Calibration[n]
             x == ValveCommand(Command(core', now), n)
             y == ValveCommand(applied.command, n)
  <2>1. v \in ValveType /\ Calibratable(v) /\ x \in Int /\ y \in Int /\ ramps[n] \in RampState
    <3>1. applied.command \in Row
      BY DEF TypeOK
    <3> QED
      BY <1>0, <1>1, <3>1, CalibrationOf DEF ValveCommand, Row
  <2>2. Asks(n)' = TargetPulse(v, x) /\ Asks(n) = TargetPulse(v, y)
    BY <1>3 DEF Asks
  <2>3. Abs(x) <= Abs(y) /\ (x > 0 => y > 0) /\ (x < 0 => y < 0)
    <3>1. CASE n \notin Axes \/ core'.state \in {"fault", "disarmed"}
      <4>1. x = 0
        BY <3>1 DEF ValveCommand, Command, Zero
      <4> QED
        BY <2>1, <4>1 DEF Abs
    <3>2. CASE n \in Axes /\ core' = core
      <4>1. /\ x = core.decay_from[n] * DecayLeft(core, now)
            /\ y = core.decay_from[n] * k
        BY <1>0, <1>5, <3>2, DecayCommand DEF ValveCommand
      <4>2. core.decay_from[n] \in Int
        BY <1>0, <3>2 DEF Row
      <4> HIDE DEF x, y
      <4> QED
        BY <1>5, <1>6, <4>1, <4>2, ShareBound
    <3> QED
      BY <3>1, <3>2
  <2>4. Amid(Asks(n)', v.center, Asks(n))
    <3> HIDE DEF x, y, v
    <3> QED
      BY <2>1, <2>2, <2>3, TargetFalls
  <2>5. CASE Active(core')
    <3>1. ramps'[n].pulse = RampPulse(v, TargetPulse(v, x), now, ramps[n])
      BY <1>1, <2>5 DEF Ramps
    <3>2. ramps'[n].pulse \in v.min .. v.max /\ Amid(ramps'[n].pulse, ramps[n].pulse, Asks(n)')
      BY <1>0, <2>1, <2>2, <3>1, RampApproaches DEF RampsInRange
    <3>3. pwm'.valves[n] = Dither(v, ramps'[n].pulse, sine[n]) /\ sine[n] \in -SineUnit .. SineUnit
      BY <1>2, <2>5 DEF Pulses
    <3>4. v.min + 2 * v.dither_amp <= v.max =>
             Abs(pwm'.valves[n] - ramps'[n].pulse) <= 2 * v.dither_amp
      <4> HIDE DEF v
      <4> QED
        BY <2>1, <3>2, <3>3, DitherBound
    <3> QED
      BY <2>4, <3>2, <3>4
  <2>6. CASE ~Active(core')
    <3>1. ramps'[n].pulse = v.center /\ pwm'.valves[n] = v.center
      BY <1>1, <1>2, <2>6 DEF Ramps, Pulses
    <3>2. x = 0
      BY <2>6 DEF ValveCommand, Command, Zero, Active
    <3>3. Asks(n)' = v.center
      <4>1. v.curve[0] = 0 /\ (IF Abs(x) > FullCommand THEN FullCommand ELSE Abs(x)) = 0
        BY <2>1, <3>2, UnitType DEF Calibratable, Abs
      <4> QED
        BY <2>2, <4>1 DEF TargetPulse
    <3>4. v.center \in Nat /\ v.dither_amp \in Nat /\ ramps[n].pulse \in Int
      BY <2>1, CalibrationType DEF RampState
    <3> QED
      BY <2>4, <3>1, <3>3, <3>4 DEF Amid, Abs
  <2> QED
    BY <2>5, <2>6
<1> QED
  BY <1>4, <1>7

\* A producer that returns while the core decays cannot resume, and no valve is asked
\* for more, or opened beyond what its ramp held or is asked, on the way to the stop.
THEOREM DecaysOnlyStop == Spec => DecayOnlyStops
<1>1. TypeOK /\ AppliedFollows /\ RampsInRange /\ [Next]_vars =>
        [core.state = "decaying" =>
          /\ core'.state \in {"decaying", "fault", "disarmed"}
          /\ pc = "apply" /\ pc' = "tick" =>
                /\ ~pwm'.pump
                /\ \A n \in ValveNames :
                      LET v == Calibration[n]
                      IN  /\ Amid(Asks(n)', v.center, Asks(n))
                          /\ Amid(ramps'[n].pulse, ramps[n].pulse, Asks(n)')
                          /\ v.min + 2 * v.dither_amp <= v.max =>
                                Abs(pwm'.valves[n] - ramps'[n].pulse) <= 2 * v.dither_amp]_vars
  <2> SUFFICES ASSUME TypeOK, AppliedFollows, RampsInRange, [Next]_vars, core.state = "decaying"
               PROVE  /\ core'.state \in {"decaying", "fault", "disarmed"}
                      /\ pc = "apply" /\ pc' = "tick" =>
                              /\ ~pwm'.pump
                              /\ \A n \in ValveNames :
                                    LET v == Calibration[n]
                                    IN  /\ Amid(Asks(n)', v.center, Asks(n))
                                        /\ Amid(ramps'[n].pulse, ramps[n].pulse, Asks(n)')
                                        /\ v.min + 2 * v.dither_amp <= v.max =>
                                              Abs(pwm'.valves[n] - ramps'[n].pulse) <= 2 * v.dither_amp
    OBVIOUS
  <2>1. core' = core \/ core'.state \in {"fault", "disarmed"}
    BY DecayStep
  <2>2. ASSUME pc = "apply", pc' = "tick" PROVE Apply
    BY <2>2 DEF Next, BeginTick, AcceptClients, CloseClient, ServePacket, RejectPacket,
       ServeStatus, SkipDrive, ServeDrive, ServeDisarm, ServeEstop, Receives, Serving, EndTurn,
       Shutdown, Crash, Exit, Restart, vars
  <2> QED
    BY <2>1, <2>2, DecayingTick
<1> QED
  BY <1>1, TypeCorrect, AppliedHolds, RampsStayInRange, PTL DEF Spec, DecayOnlyStops

-----------------------------------------------------------------------------
\* A live core has an owner, who is connected.
LiveIsOwned == core.state \in Live => owner \in Clients /\ clients[owner].open

\* What a step does to the core and its owner: it leaves both alone, stops the
\* core, or serves the owner's (or the first) drive packet.
LEMMA OwnerStep ==
    ASSUME TypeOK, LiveIsOwned, [Next]_vars, core'.state \in Live
    PROVE  /\ owner' \in Clients /\ clients'[owner'].open
           /\ core.state \in Live => owner' = owner
           /\ core.state # "fault"
<1>0. /\ now \in Nat /\ core \in CoreType /\ healthy \in BOOLEAN
      /\ clients \in [Clients -> Client] /\ NoOwner \notin Clients
  BY LoopAssumption DEF TypeOK, Clients, NoOwner
<1>a. \A e \in CoreType : Fault(e).state \notin Live /\ Disarm(e).state \notin Live
  BY HaltType DEF Fault, Disarm, SafetyState, Live
<1>1. ASSUME UNCHANGED <<core, owner>>, \A ci \in Clients : clients[ci].open /\ ci = owner => clients'[ci].open
      PROVE  /\ owner' \in Clients /\ clients'[owner'].open
             /\ core.state \in Live => owner' = owner
             /\ core.state # "fault"
  BY <1>1 DEF LiveIsOwned, Live
<1>2. ASSUME UNCHANGED <<clients, owner>>, core.state \in Live
      PROVE  /\ owner' \in Clients /\ clients'[owner'].open
             /\ core.state \in Live => owner' = owner
             /\ core.state # "fault"
  BY <1>2 DEF LiveIsOwned, Live
<1>3. ASSUME NEW t \in now + 1 .. MaxTime, BeginTick(t)
      PROVE  core.state \in Live /\ UNCHANGED <<clients, owner>>
  <2>1. PICK disturbed \in BOOLEAN, io_error \in BOOLEAN :
            core' = Tick(LoopFaults(core, t - now, io_error, disturbed), t, healthy')
    BY <1>3 DEF BeginTick
  <2> DEFINE c == LoopFaults(core, t - now, io_error, disturbed)
  <2>2. c \in CoreType /\ t \in Nat /\ healthy' \in BOOLEAN
    BY <1>0, <1>3, LoopAssumption, LoopFaultsType DEF BeginTick, ImuHealthy
  <2>3. c.state \in Live
    BY <2>1, <2>2, TickEffect DEF Live
  <2>4. c = core
    BY <1>0, <2>3, LoopFaultsEffect
  <2> QED
    BY <1>3, <2>3, <2>4 DEF BeginTick
<1>4. CASE AcceptClients
  BY <1>1, <1>4 DEF AcceptClients
<1>5. CASE EndTurn \/ UNCHANGED vars
  BY <1>1, <1>5 DEF EndTurn, vars
<1>6. ASSUME NEW ci \in Clients, CloseClient(ci)
      PROVE  UNCHANGED <<core, owner>> /\ \A cj \in Clients : clients[cj].open /\ cj = owner => clients'[cj].open
  BY <1>0, <1>a, <1>6 DEF CloseClient
<1>7. ASSUME NEW ci \in Clients, ServePacket(ci)
      PROVE  /\ owner' \in Clients /\ clients'[owner'].open
             /\ core.state \in Live => owner' = owner
             /\ core.state # "fault"
  <2>1. PICK s \in PacketShapes, sequence \in {clients[ci].sequence, clients[ci].sequence + 1} :
            \/ RejectPacket(ci, s, sequence) \/ ServeStatus(ci, s, sequence)
            \/ SkipDrive(ci, s, sequence) \/ ServeDrive(ci, s, sequence)
            \/ ServeDisarm(ci, s, sequence) \/ ServeEstop(ci, s, sequence)
    BY <1>7 DEF ServePacket
  <2>2. ASSUME Receives(ci, s, sequence)
        PROVE  \A cj \in Clients : clients[cj].open => clients'[cj].open
    <3>1. clients' = [clients EXCEPT ![ci] = [clients[ci] EXCEPT !.seen = TRUE,
                                                                !.sequence = sequence]]
      BY <2>2 DEF Receives
    <3>2. clients[ci] \in Client /\ [clients[ci] EXCEPT !.seen = TRUE, !.sequence = sequence].open
                                        = clients[ci].open
      BY <1>0 DEF Client
    <3> QED
      BY <1>0, <3>1, <3>2
  <2>3. CASE RejectPacket(ci, s, sequence)
    BY <1>0, <1>1, <1>a, <2>3 DEF RejectPacket
  <2>4. CASE ServeStatus(ci, s, sequence) \/ SkipDrive(ci, s, sequence)
    BY <1>1, <2>2, <2>4 DEF ServeStatus, SkipDrive
  <2>5. CASE ServeDrive(ci, s, sequence)
    <3>1. owner \in {NoOwner, ci} /\ owner' = ci /\ clients'[ci].open
      BY <2>2, <2>5 DEF ServeDrive, Receives, Serving
    <3>2. core.state \in Live => owner = ci
      BY <1>0, <3>1 DEF LiveIsOwned
    <3>3. core.state # "fault"
      BY <2>5, ReceiveOfStopped DEF ServeDrive, Live
    <3> QED
      BY <3>1, <3>2, <3>3
  <2>6. CASE ServeDisarm(ci, s, sequence) \/ ServeEstop(ci, s, sequence)
    BY <1>0, <1>a, <2>6 DEF ServeDisarm, ServeEstop
  <2> QED
    BY <2>1, <2>3, <2>4, <2>5, <2>6
<1>8. CASE Apply
  <2>1. core.state \in Live
    BY <1>0, <1>8, TickEffect DEF Apply, Live
  <2> QED
    BY <1>2, <1>8, <2>1 DEF Apply
<1>9. CASE Shutdown \/ Crash
  BY <1>9 DEF Shutdown, Crash, Exit, CoreInit, Live
<1>10. CASE Restart
  BY <1>1, <1>10 DEF Restart
<1> QED
  BY <1>1, <1>2, <1>3, <1>4, <1>5, <1>6, <1>7, <1>8, <1>9, <1>10 DEF Next

LEMMA OwnerHolds == Spec => []LiveIsOwned
<1>1. Init => LiveIsOwned
  <2>1. Init => core.state = "disarmed"
    BY DEF Init, CoreInit
  <2> QED
    BY <2>1 DEF LiveIsOwned, Live
<1>2. TypeOK /\ LiveIsOwned /\ [Next]_vars => LiveIsOwned'
  BY OwnerStep DEF LiveIsOwned, Live
<1> QED
  BY <1>1, <1>2, TypeCorrect, PTL DEF Spec

\* Only a disarm packet or the end of the process takes a core out of a fault.
LEMMA FaultStep ==
    ASSUME TypeOK, [Next]_vars, core.state = "fault", core'.state # "fault"
    PROVE  \/ \E ci \in Clients, s \in PacketShapes, sequence \in 0 .. MaxSequence :
                 ServeDisarm(ci, s, sequence)
           \/ pc' = "exited"
<1>0. /\ now \in Nat /\ core \in CoreType /\ healthy \in BOOLEAN
      /\ clients \in [Clients -> Client]
  BY DEF TypeOK
<1>a. \A e \in CoreType : Fault(e) \in CoreType /\ Fault(e).state = "fault"
  BY HaltType DEF Fault, SafetyState
<1>1. ASSUME NEW t \in now + 1 .. MaxTime, BeginTick(t) PROVE FALSE
  <2>1. PICK disturbed \in BOOLEAN, io_error \in BOOLEAN :
            core' = Tick(LoopFaults(core, t - now, io_error, disturbed), t, healthy')
    BY <1>1 DEF BeginTick
  <2> DEFINE c == LoopFaults(core, t - now, io_error, disturbed)
  <2>2. c \in CoreType /\ t \in Nat /\ healthy' \in BOOLEAN
    BY <1>0, <1>1, LoopAssumption, LoopFaultsType DEF BeginTick, ImuHealthy
  <2>3. c.state = "fault"
    BY <1>0, <1>a DEF LoopFaults
  <2>4. core' = c
    BY <2>1, <2>2, <2>3, TickOfStopped
  <2> QED
    BY <2>3, <2>4
<1>2. ASSUME NEW ci \in Clients, ServePacket(ci)
      PROVE  \E s \in PacketShapes, sequence \in 0 .. MaxSequence : ServeDisarm(ci, s, sequence)
  <2>1. PICK s \in PacketShapes, sequence \in {clients[ci].sequence, clients[ci].sequence + 1} :
            /\ sequence <= MaxSequence
            /\ \/ RejectPacket(ci, s, sequence) \/ ServeStatus(ci, s, sequence)
               \/ SkipDrive(ci, s, sequence) \/ ServeDrive(ci, s, sequence)
               \/ ServeDisarm(ci, s, sequence) \/ ServeEstop(ci, s, sequence)
    BY <1>2 DEF ServePacket
  <2>2. sequence \in 0 .. MaxSequence
    BY <1>0, <2>1, LoopAssumption DEF Client
  <2>3. ServeDisarm(ci, s, sequence)
    BY <1>0, <1>a, <2>1, ReceiveOfStopped
       DEF RejectPacket, ServeStatus, SkipDrive, ServeDrive, ServeEstop
  <2> QED
    BY <2>2, <2>3
<1>3. ASSUME NEW ci \in Clients, CloseClient(ci) PROVE FALSE
  BY <1>0, <1>a, <1>3 DEF CloseClient
<1>4. CASE Apply
  BY <1>0, <1>4, TickOfStopped DEF Apply
<1>5. CASE Shutdown \/ Crash
  BY <1>5 DEF Shutdown, Crash, Exit
<1>6. CASE AcceptClients \/ EndTurn \/ Restart \/ UNCHANGED vars
  BY <1>6 DEF AcceptClients, EndTurn, Restart, vars
<1> QED
  BY <1>1, <1>2, <1>3, <1>4, <1>5, <1>6 DEF Next

\* What one producer stopped or holds, another cannot take back.
THEOREM FaultsAndOwnersHold == Spec => FaultAndOwnerHold
<1>1. TypeOK /\ LiveIsOwned /\ [Next]_vars =>
        [/\ core.state = "fault" /\ core'.state # "fault" =>
             \/ \E ci \in Clients, s \in PacketShapes, sequence \in 0 .. MaxSequence :
                    ServeDisarm(ci, s, sequence)
             \/ pc' = "exited"
         /\ core'.state \in Live => owner' \in Clients /\ clients'[owner'].open
         /\ core.state \in Live /\ core'.state \in Live => owner' = owner]_vars
  BY FaultStep, OwnerStep
<1> QED
  BY <1>1, TypeCorrect, OwnerHolds, PTL DEF Spec, FaultAndOwnerHold

-----------------------------------------------------------------------------
(* The arithmetic of a pulse. *)

LEMMA MultiplesOfNaturals ==
    \A x, y \in Nat : x * y \in Nat
  BY Z3
LEMMA MultiplesOfPositives ==
    \A x, y \in Nat \ {0} : x * y \in Nat \ {0}
  BY Z3
LEMMA ZeroTimes == \A x \in Int : 0 * x = 0 /\ x * 0 = 0
  BY Z3
LEMMA SignOfProduct ==
    \A x, y \in Int : /\ x > 0 /\ y > 0 => x * y > 0
                      /\ x < 0 /\ y < 0 => x * y > 0
                      /\ x > 0 /\ y < 0 => x * y < 0
                      /\ x < 0 /\ y > 0 => x * y < 0
  BY Z3
LEMMA QuotientOfNaturals ==
    \A x \in Nat, y \in Nat \ {0} : x \div y \in Nat
  BY Z3
LEMMA PositiveQuotient ==
    \A x, y \in Nat \ {0} : x >= y => x \div y \in Nat \ {0}
  BY Z3

LEMMA PowersArePositive ==
    ASSUME NEW x \in Nat \ {0}, NEW g \in 1..6
    PROVE  Powers(x)[g] \in Nat \ {0}
<1>1. x * x \in Nat \ {0} BY MultiplesOfPositives
<1>2. x * x * x \in Nat \ {0} BY <1>1, MultiplesOfPositives
<1>3. x * x * x * x \in Nat \ {0} BY <1>2, MultiplesOfPositives
<1>4. x * x * x * x * x \in Nat \ {0} BY <1>3, MultiplesOfPositives
<1>5. g = 1 \/ g = 2 \/ g = 3 \/ g = 4 \/ g = 5 \/ g = 6 OBVIOUS
<1> QED BY <1>1, <1>2, <1>3, <1>4, <1>5 DEF Powers

LEMMA GammaSide ==
    ASSUME NEW v \in Int, NEW g \in 1..5
    PROVE  /\ Gamma(v, g) \in Int
           /\ v > 0 => Gamma(v, g) > 0
           /\ v < 0 => Gamma(v, g) < 0
           /\ v = 0 => Gamma(v, g) = 0
<1>1. CASE g = 1 \/ v = 0 BY <1>1 DEF Gamma
<1>2. CASE ~(g = 1 \/ v = 0)
  <2> DEFINE unit == Powers(Unit)[g]
             power == Powers(Size(v))[g + 1]
             m == (power + unit - 1) \div unit
  <2>1. Size(v) \in Nat \ {0} BY <1>2 DEF Size, Larger
  <2>2. g + 1 \in 1..6 /\ g \in 1..6 OBVIOUS
  <2>3. unit \in Nat \ {0} BY <2>2, PowersArePositive, PulseAssumption
  <2>4. power \in Nat \ {0} BY <2>1, <2>2, PowersArePositive
  <2>5. Gamma(v, g) = Sign(v) * m BY <1>2, Zenon DEF Gamma
  <2> HIDE DEF unit, power
  <2>6. power + unit - 1 \in Nat \ {0} /\ power + unit - 1 >= unit BY <2>3, <2>4
  <2>7. m \in Nat \ {0} BY <2>3, <2>6, PositiveQuotient
  <2> HIDE DEF m
  <2> QED BY <1>2, <2>5, <2>7 DEF Sign
<1> QED BY <1>1, <1>2

LEMMA DeadzoneSide ==
    ASSUME NEW v \in Int, NEW threshold \in Int
    PROVE  /\ Deadzone(v, threshold) \in Int
           /\ v >= 0 => Deadzone(v, threshold) >= 0
           /\ v <= 0 => Deadzone(v, threshold) <= 0
           /\ threshold <= 0 => Deadzone(v, threshold) = v
<1>1. CASE threshold <= 0 \/ Size(v) < threshold \/ threshold >= Unit
  BY <1>1, PulseAssumption DEF Deadzone, Size, Larger
<1>2. CASE ~(threshold <= 0 \/ Size(v) < threshold \/ threshold >= Unit)
  <2> DEFINE m == ((Size(v) - threshold) * Unit) \div (Unit - threshold)
  <2>1. Size(v) - threshold \in Nat /\ Unit - threshold \in Nat \ {0} /\ Unit \in Nat
    BY <1>2, PulseAssumption DEF Size, Larger
  <2>2. (Size(v) - threshold) * Unit \in Nat BY <2>1, MultiplesOfNaturals
  <2>3. m \in Nat BY <2>1, <2>2, QuotientOfNaturals
  <2>4. Deadzone(v, threshold) = Sign(v) * m BY <1>2, Zenon DEF Deadzone
  <2> HIDE DEF m
  <2> QED BY <1>2, <2>3, <2>4 DEF Sign
<1> QED BY <1>1, <1>2

\* Which side of the centre the mapped pulse of a command lies on.
LEMMA BaseSide ==
    ASSUME NEW cfg \in ChannelType, ValidChannel(cfg), Calibrated(cfg), NEW v \in Int
    PROVE  /\ BasePulse(cfg, v) \in Int
           /\ v * cfg.direction > 0 => BasePulse(cfg, v) >= OpenEdge(cfg)
           /\ v * cfg.direction < 0 => BasePulse(cfg, v) <= CloseEdge(cfg)
           /\ v * cfg.direction = 0 => BasePulse(cfg, v) = cfg.center
<1> DEFINE up == cfg.pulse_max - OpenEdge(cfg)
           down == CloseEdge(cfg) - cfg.pulse_min
<1>1. /\ OpenEdge(cfg) \in Int /\ CloseEdge(cfg) \in Int
      /\ up \in Nat /\ down \in Nat
      /\ cfg.center \in Int /\ cfg.direction \in Int
  BY DEF ChannelType, Calibrated, OpenEdge, CloseEdge
<1>2. Size(v) \in Nat /\ Unit \in Nat \ {0} BY PulseAssumption DEF Size, Larger
<1>3. v * cfg.direction \in Int BY <1>1
<1>4. BasePulse(cfg, v) =
        CASE v * cfg.direction = 0 -> cfg.center
          [] v * cfg.direction > 0 -> OpenEdge(cfg) + (Size(v) * up) \div Unit
          [] OTHER -> CloseEdge(cfg) - (Size(v) * down) \div Unit
  BY DEF BasePulse
<1> HIDE DEF up, down
<1>5. (Size(v) * up) \div Unit \in Nat /\ (Size(v) * down) \div Unit \in Nat
  BY <1>1, <1>2, MultiplesOfNaturals, QuotientOfNaturals
<1> DEFINE a == (Size(v) * up) \div Unit
           b == (Size(v) * down) \div Unit
           side == v * cfg.direction
<1> HIDE DEF a, b, side
<1>6. a \in Nat /\ b \in Nat /\ side \in Int BY <1>3, <1>5 DEF a, b, side
<1>7. BasePulse(cfg, v) = CASE side = 0 -> cfg.center
                            [] side > 0 -> OpenEdge(cfg) + a
                            [] OTHER -> CloseEdge(cfg) - b
  BY <1>4 DEF a, b, side
<1> QED BY <1>1, <1>6, <1>7 DEF side

\* A pulse that is not inside the dead band: the centre, or beyond an edge.
Settled(cfg, p) ==
    p \in Int /\ (p = cfg.center \/ p >= OpenEdge(cfg) \/ p <= CloseEdge(cfg))

\* A ramp that skips the dead band never stays inside it, and never leaves the side that its
\* target is on.
LEMMA RampSide ==
    ASSUME NEW cfg \in ChannelType, ValidChannel(cfg), Calibrated(cfg),
           cfg.ramp_enable, cfg.ramp_skip_deadband,
           NEW last, NEW target, Settled(cfg, last), Settled(cfg, target), NEW dt \in Nat
    PROVE  /\ Settled(cfg, Ramp(cfg, last, dt, target))
           /\ target > cfg.center => Ramp(cfg, last, dt, target) >= OpenEdge(cfg)
           /\ target < cfg.center => Ramp(cfg, last, dt, target) <= CloseEdge(cfg)
<1> DEFINE from == SlewFrom(cfg, last, target)
           step == cfg.ramp_limit * Smaller(dt, RampDtMax)
           moved == from + Clip(target - from, -step, step)
           open == OpenEdge(cfg)
           close == CloseEdge(cfg)
           centre == cfg.center
           high == cfg.pulse_max
           low == cfg.pulse_min
           centred == target = centre /\ close < moved /\ moved < open
           new == Clip(IF centred THEN centre ELSE moved, low, high)
<1>1. /\ open \in Int /\ close \in Int /\ centre \in Int /\ high \in Int /\ low \in Int
      /\ close < centre /\ centre < open /\ open <= high /\ low <= close
  BY DEF ChannelType, ValidChannel, Calibrated, OpenEdge, CloseEdge
<1>2. /\ last \in Int /\ (last = centre \/ last >= open \/ last <= close)
      /\ target \in Int /\ (target = centre \/ target >= open \/ target <= close)
  BY DEF Settled
<1>3. step \in Nat
  <2>1. cfg.ramp_limit \in Nat BY DEF ChannelType, ValidChannel
  <2>2. Smaller(dt, RampDtMax) \in Nat BY PulseAssumption DEF Smaller
  <2> QED BY <2>1, <2>2, MultiplesOfNaturals
<1>4. from = CASE last <= centre /\ target > centre -> open
               [] last >= centre /\ target < centre -> close
               [] OTHER -> last
  BY DEF SlewFrom
<1>5. \/ Ramp(cfg, last, dt, target) = target
      \/ Ramp(cfg, last, dt, target) = from
      \/ Ramp(cfg, last, dt, target) = new
  BY DEF Ramp
<1> HIDE DEF open, close, centre, high, low, step, from
<1>6. /\ from \in Int /\ (from = centre \/ from >= open \/ from <= close)
      /\ target > centre => from >= open
      /\ target < centre => from <= close
  BY <1>1, <1>2, <1>4
<1>7. /\ moved \in Int
      /\ from <= target => from <= moved /\ moved <= target
      /\ target <= from => target <= moved /\ moved <= from
  BY <1>2, <1>3, <1>6 DEF Clip, Larger, Smaller
<1> HIDE DEF moved
<1>8. /\ new \in Int /\ (new = centre \/ new >= open \/ new <= close)
      /\ target > centre => new >= open
      /\ target < centre => new <= close
  BY <1>1, <1>2, <1>6, <1>7 DEF Clip, Larger, Smaller
<1> HIDE DEF new
<1> DEFINE result == Ramp(cfg, last, dt, target)
<1>9. result = target \/ result = from \/ result = new BY <1>5
<1> HIDE DEF result
<1>10. /\ result \in Int /\ (result = centre \/ result >= open \/ result <= close)
       /\ target > centre => result >= open
       /\ target < centre => result <= close
  BY <1>1, <1>2, <1>6, <1>8, <1>9
<1> QED BY <1>10 DEF Settled, result, centre, open, close

LEMMA ShareOfNatural ==
    \A a \in Nat, b \in Nat \ {0} : \A s \in 0..b : (a * s) \div b \in 0..a
<1> SUFFICES ASSUME NEW a \in Nat, NEW b \in Nat \ {0}, NEW s \in 0..b
             PROVE  (a * s) \div b \in 0..a
  OBVIOUS
<1>1. a * s \in Nat /\ a * s <= a * b
  BY Z3
<1>2. (a * s) \div b \in Nat BY <1>1, QuotientOfNaturals
<1>3. b * ((a * s) \div b) <= a * s BY <1>1, Z3
<1>4. b * ((a * s) \div b) <= b * a BY <1>1, <1>2, <1>3, Z3
<1>5. (a * s) \div b <= a BY <1>2, <1>4, Z3
<1> QED BY <1>2, <1>5

LEMMA AmplitudeBounds ==
    ASSUME NEW cfg \in ChannelType, ValidChannel(cfg), cfg.dither_enable, NEW p \in Int
    PROVE  DitherAmplitude(cfg, p) \in 0..cfg.dither_amp_us
<1>1. cfg.dither_amp_us \in Nat BY DEF ChannelType, ValidChannel
<1>2. CASE ~cfg.dither_taper BY <1>1, <1>2 DEF DitherAmplitude
<1>3. CASE cfg.dither_taper
  <2> DEFINE beyond == IF p > cfg.center THEN p - OpenEdge(cfg) ELSE CloseEdge(cfg) - p
             share == Clip(beyond, 0, cfg.dither_taper_us)
  <2>1. beyond \in Int BY DEF ChannelType, OpenEdge, CloseEdge
  <2>2. cfg.dither_taper_us \in Nat \ {0} BY <1>3 DEF ChannelType, ValidChannel
  <2>3. DitherAmplitude(cfg, p) = (cfg.dither_amp_us * share) \div cfg.dither_taper_us
    BY <1>3 DEF DitherAmplitude
  <2> HIDE DEF beyond
  <2>4. share \in 0..cfg.dither_taper_us BY <2>1, <2>2 DEF Clip, Larger, Smaller
  <2> HIDE DEF share
  <2> QED BY <1>1, <2>2, <2>3, <2>4, ShareOfNatural
<1> QED BY <1>2, <1>3 DEF ChannelType

\* The dither never swings a pulse over the centre.
LEMMA DitherSide ==
    ASSUME NEW cfg \in ChannelType, ValidChannel(cfg), Calibrated(cfg), NEW base \in Int,
           NEW p \in Dithered(cfg, base)
    PROVE  /\ p \in Int
           /\ base >= OpenEdge(cfg) => p >= cfg.center
           /\ base <= CloseEdge(cfg) => p <= cfg.center
           /\ base = cfg.center => p = cfg.center
<1> DEFINE open == OpenEdge(cfg)
           close == CloseEdge(cfg)
           centre == cfg.center
           high == cfg.pulse_max
           low == cfg.pulse_min
           most == cfg.dither_amp_us
           first == DitherAmplitude(cfg, base)
           room == ClampForDither(cfg, base, first)
           amp == DitherAmplitude(cfg, room)
<1>1. /\ open \in Int /\ close \in Int /\ centre \in Int /\ high \in Int /\ low \in Int
      /\ most \in Nat
      /\ low <= centre /\ centre <= high
      /\ close <= centre /\ centre <= open /\ open <= high /\ low <= close
  BY DEF ChannelType, ValidChannel, Calibrated, OpenEdge, CloseEdge
<1>2. CASE ~(cfg.dither_enable /\ cfg.dither_amp_us # 0 /\ base # cfg.center)
  <2>1. p = Clip(base, low, high) BY <1>2 DEF Dithered
  <2> HIDE DEF open, close, centre, high, low
  <2>2. /\ p \in Int
        /\ base >= open => p >= centre
        /\ base <= close => p <= centre
        /\ base = centre => p = centre
    BY <1>1, <2>1 DEF Clip, Larger, Smaller
  <2> QED BY <2>2 DEF open, close, centre
<1>3. CASE cfg.dither_enable /\ cfg.dither_amp_us # 0 /\ base # cfg.center
  <2>1. /\ centre + most <= open /\ close <= centre - most
        /\ centre + 2 * most <= high /\ low + 2 * most <= centre
    BY <1>3 DEF ChannelType, Calibrated, OpenEdge, CloseEdge
  <2>2. first \in 0..most BY <1>3, AmplitudeBounds
  <2>3. PICK q \in {room - amp, room + amp} : p = Clip(q, low, high)
    BY <1>3 DEF Dithered
  <2>4. room = IF low + Larger(0, first) > high - Larger(0, first)
               THEN (low + high) \div 2
               ELSE Clip(base, low + Larger(0, first), high - Larger(0, first))
    BY DEF ClampForDither
  <2> HIDE DEF open, close, centre, high, low, most, first
  <2>5. /\ room \in Int
        /\ base >= open => room >= centre + most
        /\ base <= close => room <= centre - most
    <3> HIDE DEF room
    <3>1. room = Clip(base, low + first, high - first)
      BY <1>1, <2>1, <2>2, <2>4 DEF Larger
    <3> QED BY <1>1, <2>1, <2>2, <3>1 DEF Clip, Larger, Smaller
  <2>6. amp \in 0..most
    BY <1>3, <2>5, AmplitudeBounds DEF most
  <2> HIDE DEF room, amp
  <2>7. /\ p \in Int
        /\ base >= open => p >= centre
        /\ base <= close => p <= centre
    BY <1>1, <2>1, <2>3, <2>5, <2>6 DEF Clip, Larger, Smaller
  <2> QED BY <1>3, <2>7 DEF open, close, centre
<1> QED BY <1>2, <1>3 DEF ChannelType

\* A command's sign and the side of its pulse, through the dead zone, the shaping, the map,
\* the ramp and the dither: what UpdateNamed decides for one valve.
Shaped(cfg, v) == Gamma(Deadzone(v, cfg.deadzone), cfg.gamma)
LEMMA ShapedSide ==
    ASSUME NEW cfg \in ChannelType, ValidChannel(cfg), NEW v \in Int
    PROVE  /\ Shaped(cfg, v) \in Int
           /\ v >= 0 => Shaped(cfg, v) >= 0
           /\ v <= 0 => Shaped(cfg, v) <= 0
           /\ (cfg.deadzone <= 0 /\ v # 0) => Shaped(cfg, v) # 0
<1>1. cfg.deadzone \in Int /\ cfg.gamma \in 1..5 BY DEF ChannelType, ValidChannel
<1> DEFINE d == Deadzone(v, cfg.deadzone)
<1>2. d \in Int /\ (v >= 0 => d >= 0)
  BY <1>1, DeadzoneSide
<1>3. (v <= 0 => d <= 0) /\ (cfg.deadzone <= 0 => d = v) BY <1>1, DeadzoneSide
<1> HIDE DEF d
<1> DEFINE g == Gamma(d, cfg.gamma)
<1>4. /\ g \in Int
      /\ d > 0 => g > 0
      /\ d < 0 => g < 0
      /\ d = 0 => g = 0
  BY <1>1, <1>2, GammaSide
<1> HIDE DEF g
<1>5. Shaped(cfg, v) = g BY Zenon DEF Shaped, d, g
<1> QED BY <1>2, <1>3, <1>4, <1>5

LEMMA SlewStaysInteger ==
    ASSUME NEW cfg \in ChannelType, ValidChannel(cfg), NEW last \in Int, NEW target \in Int,
           NEW dt \in Nat
    PROVE  Ramp(cfg, last, dt, target) \in Int
<1> DEFINE from == SlewFrom(cfg, last, target)
           step == cfg.ramp_limit * Smaller(dt, RampDtMax)
           moved == from + Clip(target - from, -step, step)
<1>1. /\ cfg.center \in Int /\ cfg.pulse_min \in Int /\ cfg.pulse_max \in Int
      /\ OpenEdge(cfg) \in Int /\ CloseEdge(cfg) \in Int /\ cfg.ramp_limit \in Int
  BY DEF ChannelType, OpenEdge, CloseEdge
<1>2. from \in Int BY <1>1 DEF SlewFrom
<1>3. step \in Int BY <1>1, PulseAssumption DEF Smaller
<1> HIDE DEF from, step
<1>4. moved \in Int BY <1>2, <1>3 DEF Clip, Larger, Smaller
<1>5. \/ Ramp(cfg, last, dt, target) = target
      \/ Ramp(cfg, last, dt, target) = from
      \/ Ramp(cfg, last, dt, target) = Clip(cfg.center, cfg.pulse_min, cfg.pulse_max)
      \/ Ramp(cfg, last, dt, target) = Clip(moved, cfg.pulse_min, cfg.pulse_max)
  BY DEF Ramp, from, step
<1> HIDE DEF moved
<1> QED BY <1>1, <1>2, <1>4, <1>5 DEF Clip, Larger, Smaller

LEMMA UnditheredSide ==
    ASSUME NEW cfg \in ChannelType, ValidChannel(cfg), Calibrated(cfg), NEW v \in Int,
           NEW last \in Int, NEW dt \in Nat
    PROVE  LET u == Undithered(cfg, v, last, dt)
               certain == /\ ~cfg.ramp_enable \/ cfg.ramp_skip_deadband
                          /\ cfg.ramp_enable => Settled(cfg, last)
           IN /\ u \in Int
              /\ certain => /\ Settled(cfg, u)
                            /\ v * cfg.direction > 0 => u = cfg.center \/ u >= OpenEdge(cfg)
                            /\ v * cfg.direction < 0 => u = cfg.center \/ u <= CloseEdge(cfg)
<1> DEFINE m == Shaped(cfg, v)
           base == BasePulse(cfg, m)
           u == Undithered(cfg, v, last, dt)
<1>1. cfg.direction \in {-1, 1} /\ cfg.center \in Int /\ OpenEdge(cfg) \in Int /\ CloseEdge(cfg) \in Int
  BY DEF ValidChannel, ChannelType, OpenEdge, CloseEdge
<1>2. /\ m \in Int
      /\ v >= 0 => m >= 0
      /\ v <= 0 => m <= 0
      /\ (cfg.deadzone <= 0 /\ v # 0) => m # 0
  BY ShapedSide
<1>3. u = IF cfg.ramp_enable THEN Ramp(cfg, last, dt, base) ELSE base
  BY DEF Undithered, Shaped
<1> HIDE DEF m
<1>4. /\ base \in Int
      /\ m * cfg.direction > 0 => base >= OpenEdge(cfg)
      /\ m * cfg.direction < 0 => base <= CloseEdge(cfg)
      /\ m * cfg.direction = 0 => base = cfg.center
  BY <1>2, BaseSide
<1>5. /\ v * cfg.direction > 0 => m * cfg.direction >= 0
      /\ v * cfg.direction < 0 => m * cfg.direction <= 0
      /\ (cfg.deadzone <= 0 /\ v # 0) => m * cfg.direction # 0
      /\ m * cfg.direction \in Int
  BY <1>1, <1>2
<1>6. v * cfg.direction > 0 \/ v * cfg.direction < 0 => v # 0 BY <1>1
<1> HIDE DEF base, u
<1>7. Settled(cfg, base) BY <1>4, <1>5 DEF Settled
<1>8. CASE ~cfg.ramp_enable
  <2>1. u = base BY <1>3, <1>8
  <2> QED BY <1>1, <1>4, <1>5, <1>7, <2>1 DEF u
<1>9. CASE cfg.ramp_enable
  <2>1. u = Ramp(cfg, last, dt, base) BY <1>3, <1>9
  <2>2. u \in Int BY <1>4, <2>1, SlewStaysInteger
  <2>3. ASSUME cfg.ramp_skip_deadband, Settled(cfg, last)
        PROVE  /\ Settled(cfg, u)
               /\ v * cfg.direction > 0 => u = cfg.center \/ u >= OpenEdge(cfg)
               /\ v * cfg.direction < 0 => u = cfg.center \/ u <= CloseEdge(cfg)
    <3>1. /\ Settled(cfg, u)
          /\ base > cfg.center => u >= OpenEdge(cfg)
          /\ base < cfg.center => u <= CloseEdge(cfg)
      BY <1>7, <1>9, <2>1, <2>3, RampSide
    <3>2. /\ cfg.deadzone <= 0
          /\ OpenEdge(cfg) > cfg.center /\ CloseEdge(cfg) < cfg.center
      BY <1>9 DEF Calibrated, ChannelType, OpenEdge, CloseEdge
    <3> QED BY <1>1, <1>4, <1>5, <1>6, <3>1, <3>2
  <2> QED BY <1>9, <2>2, <2>3 DEF u
<1> QED BY <1>8, <1>9

\* The pulse of a command never lies on the other side of the centre.
Against(cfg, v, p) == Sign(v * cfg.direction) * Sign(p - cfg.center) = -1
LEMMA NotAgainst ==
    ASSUME NEW cfg \in ChannelType, ValidChannel(cfg), Calibrated(cfg), NEW v \in Int,
           NEW last \in Int, NEW dt \in Nat,
           ~cfg.ramp_enable \/ cfg.ramp_skip_deadband,
           cfg.ramp_enable => Settled(cfg, last),
           NEW p \in Dithered(cfg, Undithered(cfg, v, last, dt))
    PROVE  ~Against(cfg, v, p)
<1> DEFINE u == Undithered(cfg, v, last, dt)
           side == v * cfg.direction
<1>1. /\ u \in Int
      /\ side > 0 => u = cfg.center \/ u >= OpenEdge(cfg)
      /\ side < 0 => u = cfg.center \/ u <= CloseEdge(cfg)
  BY UnditheredSide
<1>2. p \in Dithered(cfg, u) OBVIOUS
<1> HIDE DEF u
<1>3. /\ p \in Int
      /\ u >= OpenEdge(cfg) => p >= cfg.center
      /\ u <= CloseEdge(cfg) => p <= cfg.center
      /\ u = cfg.center => p = cfg.center
  BY <1>1, <1>2, DitherSide
<1>4. side \in Int /\ cfg.center \in Int BY DEF ChannelType
<1>5. Against(cfg, v, p) <=> Sign(side) * Sign(p - cfg.center) = -1 BY DEF Against
<1> HIDE DEF side
<1> QED BY <1>1, <1>3, <1>4, <1>5 DEF Sign

-----------------------------------------------------------------------------
(* The invariant. *)

\* The configuration in force is an accepted file's, but for the pump's gain.
Deployed(c) ==
    \E file \in Files :
        /\ Accepted(file)
        /\ c.channels = file.config.channels
        /\ PumpWires(c) = PumpWires(file.config)
        /\ c.frequency = file.config.frequency
Fields == {"at", "job", "updates", "was"}
ControllerTypes ==
    /\ Deployed(config)
    /\ DOMAIN config = {"channels", "pumps", "frequency"} /\ config.pumps \subseteq PumpType
    /\ DOMAIN writer = {"low", "high", "frequency", "counts"}
    /\ writer.frequency = config.frequency
    /\ DOMAIN writer.counts = Wires
    /\ \A w \in Valves(config) : w \in writer.low..writer.high
    /\ DOMAIN chip = Wires /\ DOMAIN pulse = Wires
    /\ DOMAIN thread = Threads
    /\ \A t \in Threads : DOMAIN thread[t] = Fields

\* A thread between its decision and its write, and one in a critical section that its reset
\* is a part of.
Pending(t) == thread[t].at \in {"staged", "writing"}
Within(t) == Nested(thread[t].job) /\ thread[t].at \in {"staged", "writing", "parsing"}
Calm == \A w \in Valves(config) : pulse[w] = Centres(config)[w]

\* Who holds which lock; no write of a valve is left over when a configuration is swapped.
LockInv ==
    /\ \A t \in Threads : thread[t].at = "staged" => lock = t
    /\ \A t \in Threads : thread[t].at = "staged" =>
          thread[t].job \in {"update", "direct", "reset", "reload", "swapped", "cleanup", "stale"}
    /\ \A t \in Threads : thread[t].at = "writing" => io = t
    /\ \A t \in Threads : Within(t) => lock = t
    /\ \A t \in Threads : thread[t].at = "unlocked" => thread[t].job = "pump"
    /\ \A t \in Threads : thread[t].at = "parsing" => thread[t].job = "reload"
    /\ \A t \in Threads : thread[t].at = "stopping" => thread[t].job \in {"reload", "cleanup"}
    /\ \A t \in Threads : thread[t].job = "pump" /\ thread[t].at \in {"unlocked", "writing"} =>
          \E file \in Files : Accepted(file)
                              /\ DOMAIN thread[t].updates \subseteq PumpWires(file.config)
    /\ \A t, s \in Threads :
          /\ thread[t].at = "parsing" \/ (thread[t].at = "staged" /\ thread[t].job = "swapped")
          /\ thread[s].at = "writing"
          => thread[s].job = "pump"

\* The last decision on a valve is with the thread that holds _lock, or else with the one that
\* holds _io_lock, or else with the writer; and what the writer has is on the chip.
DecidedInv ==
    /\ \A t \in Threads : thread[t].at = "staged" =>
          \A w \in Valves(config) \cap DOMAIN thread[t].updates :
              thread[t].updates[w] = CountOf(pulse[w])
    /\ \A t \in Threads : thread[t].at = "writing" =>
          \A w \in Valves(config) \cap DOMAIN thread[t].updates :
              \/ thread[t].updates[w] = CountOf(pulse[w])
              \/ \E s \in Threads : thread[s].at = "staged" /\ w \in DOMAIN thread[s].updates
    /\ \A w \in Valves(config) :
          \/ writer.counts[w] = CountOf(pulse[w])
          \/ \E s \in Threads : Pending(s) /\ w \in DOMAIN thread[s].updates
    /\ (~failed /\ \A t \in Threads : ~(Pending(t) /\ thread[t].job = "swapped")) =>
          \A w \in Valves(config) : chip[w] = Registers(writer.counts[w])

\* Nothing moves in a critical section that began with a reset, and a file is read with the
\* centres on the chip.
CentreInv ==
    /\ \A t \in Threads : Within(t) => Calm
    /\ \A t \in Threads : Within(t) /\ Pending(t) => Valves(config) \subseteq DOMAIN thread[t].updates
    /\ \A t \in Threads : thread[t].at = "parsing" =>
          \A w \in Valves(config) :
              /\ writer.counts[w] = CountOf(Centres(config)[w])
              /\ chip[w] = Registers(writer.counts[w])

MonitorSteps == {"asleep", "rating", "checking", "stale", "staged", "writing", "ended", "dead"}
\* The monitor's notice that it has reset the outputs: while it runs, they are centred, or a
\* command has come that it will see before the command is stale.
MonitorInv ==
    /\ stale \in Nat
    /\ sent \/ thread[Monitor].at \in {"stale", "staged", "writing"} => StaleTimeout > 0
    /\ thread[Monitor].at \in MonitorSteps
    /\ thread[Monitor].at \in {"staged", "writing"} => thread[Monitor].job = "stale"
    /\ thread[Monitor].at \in {"stale", "staged", "writing", "dead"} => ~sent
    /\ running => thread[Monitor].at # "ended"
    /\ \A t \in Callers : Pending(t) => thread[t].job # "stale"
    /\ sent /\ running =>
          \/ Calm
          \/ stale = 0
          \/ stale = 1 /\ (due \/ thread[Monitor].at \in {"rating", "checking"})

PwmInv == ControllerTypes /\ LockInv /\ DecidedInv /\ CentreInv /\ MonitorInv

-----------------------------------------------------------------------------
(* Configurations and writers. *)

LEMMA LeastOutput ==
    ASSUME NEW S \in SUBSET Nat, NEW x \in S
    PROVE  Min(S) \in S /\ \A y \in S : Min(S) <= y
<1>1. PICK z \in S : \A y \in S : ~ (<<y, z>> \in OpToRel(<, Nat))
  BY NatLessThanWellFounded, WFMin
<1>2. \A y \in S : ~ (y < z)
  BY <1>1 DEF OpToRel
<1>3. \A y \in S : z <= y
  BY <1>2
<1> QED BY <1>3 DEF Min
LEMMA GreatestOutput ==
    ASSUME NEW S \in SUBSET Outputs, NEW x \in S
    PROVE  Max(S) \in S /\ \A y \in S : y <= Max(S)
<1> DEFINE T == {15 - y : y \in S}
<1>1. T \in SUBSET Nat /\ 15 - x \in T BY DEF Outputs
<1>2. PICK z \in T : \A y \in T : z <= y BY <1>1, LeastOutput
<1>3. PICK g \in S : z = 15 - g BY <1>2
<1>4. \A y \in S : y <= g
  <2> SUFFICES ASSUME NEW y \in S PROVE y <= g
    OBVIOUS
  <2>1. z <= 15 - y BY <1>2
  <2> QED BY <1>3, <2>1 DEF Outputs
<1>5. \A y \in S : g >= y BY <1>4 DEF Outputs
<1>6. Max(S) \in S /\ \A y \in S : Max(S) >= y BY <1>5 DEF Max
<1> QED BY <1>6 DEF Outputs

LEMMA DeployedFacts ==
    ASSUME NEW c, Deployed(c)
    PROVE  /\ \A n \in DOMAIN c.channels :
                 /\ c.channels[n] \in ChannelType /\ ValidChannel(c.channels[n])
                 /\ c.channels[n].output_channel \in Valves(c)
                 /\ On(c, c.channels[n].output_channel) = c.channels[n]
           /\ \A w \in Valves(c) :
                 /\ On(c, w) \in ChannelsOf(c) /\ On(c, w).output_channel = w
                 /\ On(c, w) \in ChannelType /\ ValidChannel(On(c, w))
                 /\ w \in Wires /\ w \notin PumpWires(c)
           /\ Valves(c) \cup PumpWires(c) # {}
<1>1. PICK file \in Files : /\ Accepted(file)
                            /\ c.channels = file.config.channels
                            /\ PumpWires(c) = PumpWires(file.config)
                            /\ c.frequency = file.config.frequency
  BY DEF Deployed
<1>2. Validated(file.config) /\ Typed(file.config) BY <1>1, FileAssumption DEF Accepted
<1>3. ASSUME NEW n \in DOMAIN c.channels
      PROVE  /\ c.channels[n] \in ChannelType /\ ValidChannel(c.channels[n])
             /\ c.channels[n].output_channel \in Valves(c)
             /\ On(c, c.channels[n].output_channel) = c.channels[n]
  <2>1. c.channels[n] \in ChannelType /\ ValidChannel(c.channels[n])
    BY <1>1, <1>2, <1>3 DEF Typed, Validated
  <2>2. \A m \in DOMAIN c.channels :
          c.channels[m].output_channel = c.channels[n].output_channel => m = n
    BY <1>1, <1>2, <1>3 DEF Validated
  <2>3. NameOf(c, c.channels[n].output_channel) = n
    BY <1>3, <2>2 DEF NameOf
  <2> QED BY <1>3, <2>1, <2>3 DEF On, Valves
<1>4. ASSUME NEW w \in Valves(c)
      PROVE  /\ On(c, w) \in ChannelsOf(c) /\ On(c, w).output_channel = w
             /\ On(c, w) \in ChannelType /\ ValidChannel(On(c, w))
             /\ w \in Wires /\ w \notin PumpWires(c)
  <2>1. PICK n \in DOMAIN c.channels : c.channels[n].output_channel = w BY <1>4 DEF Valves
  <2>2. On(c, w) = c.channels[n] BY <1>3, <2>1
  <2>3. c.channels[n] \in ChannelsOf(file.config) BY <1>1, <2>1 DEF ChannelsOf
  <2>4. w \in WiresOf(file.config) BY <2>1, <2>3 DEF WiresOf
  <2>5. w \notin PumpWires(c)
    BY <1>1, <1>2, <2>1 DEF PumpWires, Validated
  <2>6. w \in Wires BY <1>1, <2>4 DEF Wires
  <2> QED BY <1>3, <2>1, <2>2, <2>5, <2>6 DEF ChannelsOf
<1>5. Valves(c) \cup PumpWires(c) # {}
  BY <1>1, <1>2 DEF Validated, Valves, PumpWires
<1> QED BY <1>3, <1>4, <1>5

LEMMA FreshWriterCovers ==
    ASSUME NEW file \in Files, Accepted(file), NEW old, Deployed(old)
    PROVE  LET c == file.config new == FreshWriter(c, old.pumps)
           IN /\ DOMAIN new = {"low", "high", "frequency", "counts"}
              /\ new.frequency = c.frequency
              /\ DOMAIN new.counts = Wires
              /\ \A w \in Valves(c) : w \in new.low..new.high
<1> DEFINE c == file.config
           kept == IF c.pumps = {} THEN old.pumps ELSE {}
           S == WiresOf(c) \cup {cfg.output_channel : cfg \in kept}
<1>1. Validated(c) /\ Typed(c) BY FileAssumption DEF Accepted
<1>2. S \in SUBSET Outputs
  <2>1. WiresOf(c) \in SUBSET Outputs
    BY <1>1 DEF Validated, ValidChannel, ValidPump, WiresOf, ChannelsOf
  <2>2. PICK other \in Files : Accepted(other) /\ PumpWires(old) = PumpWires(other.config)
    BY DEF Deployed
  <2>3. PumpWires(other.config) \in SUBSET Outputs
    BY <2>2 DEF Accepted, Validated, ValidPump, PumpWires
  <2>4. {cfg.output_channel : cfg \in kept} \subseteq PumpWires(old) BY DEF PumpWires
  <2> HIDE DEF kept
  <2> QED BY <2>1, <2>2, <2>3, <2>4
<1>3. \A w \in Valves(c) : w \in S
  BY DEF Valves, WiresOf, ChannelsOf
<1>4. S \in SUBSET Nat BY <1>2 DEF Outputs
<1> HIDE DEF S
<1>5. ASSUME NEW w \in Valves(c) PROVE w \in Min(S)..Max(S)
  <2>1. w \in S BY <1>3, <1>5
  <2>2. Min(S) \in S /\ Min(S) <= w BY <1>4, <2>1, LeastOutput
  <2>3. Max(S) \in S /\ w <= Max(S) BY <1>2, <2>1, GreatestOutput
  <2> QED BY <1>4, <2>1, <2>2, <2>3
<1> QED BY <1>5 DEF FreshWriter, S

\* A change that leaves the valves, the writer and both locks alone, in which no thread enters
\* or leaves a critical section.
Steady(t) ==
    /\ t \in Threads
    /\ Deployed(config') /\ config'.channels = config.channels
    /\ config'.frequency = config.frequency
    /\ DOMAIN config' = {"channels", "pumps", "frequency"} /\ config'.pumps \subseteq PumpType
    /\ UNCHANGED <<writer, chip, failed, lock, io>>
    /\ DOMAIN pulse' = Wires
    /\ \A w \in Valves(config) : pulse'[w] = pulse[w]
    /\ DOMAIN thread' = Threads /\ DOMAIN thread'[t] = Fields
    /\ \A s \in Threads \ {t} : thread'[s] = thread[s]
    /\ \/ thread'[t] = thread[t]
       \/ /\ thread[t].at \notin {"staged", "writing", "parsing"}
          /\ thread'[t].at \notin {"staged", "writing", "parsing"}
          /\ thread'[t].at = "stopping" => thread'[t].job \in {"reload", "cleanup"}
          /\ thread'[t].at = "unlocked" =>
                /\ thread'[t].job = "pump"
                /\ \E file \in Files : Accepted(file)
                           /\ DOMAIN thread'[t].updates \subseteq PumpWires(file.config)

LEMMA SameValves ==
    ASSUME config'.channels = config.channels
    PROVE  /\ Valves(config') = Valves(config) /\ Centres(config') = Centres(config)
           /\ ChannelsOf(config') = ChannelsOf(config)
           /\ \A w : On(config', w) = On(config, w) /\ NameOf(config', w) = NameOf(config, w)
BY DEF Valves, Centres, ChannelsOf, On, NameOf

LEMMA SteadyStep ==
    ASSUME ControllerTypes, LockInv, DecidedInv, CentreInv, NEW t, Steady(t)
    PROVE  /\ ControllerTypes' /\ LockInv' /\ DecidedInv' /\ CentreInv'
           /\ Calm' <=> Calm
<1>1. /\ Valves(config') = Valves(config) /\ Centres(config') = Centres(config)
      /\ t \in Threads /\ config'.frequency = config.frequency
  BY SameValves DEF Steady
<1>2. /\ writer' = writer /\ chip' = chip /\ failed' = failed /\ lock' = lock /\ io' = io
      /\ \A w \in Valves(config) : pulse'[w] = pulse[w]
  BY DEF Steady
<1>3. \A s \in Threads : Pending(s)' <=> Pending(s)
  BY DEF Steady, Pending
<1>4. \A s \in Threads : Pending(s) \/ thread[s].at = "parsing" => thread'[s] = thread[s]
  BY DEF Steady, Pending
<1>5. \A s \in Threads : thread'[s].at \in {"staged", "writing", "parsing"} => thread'[s] = thread[s]
  BY DEF Steady
<1>6. ControllerTypes'
  BY <1>1, <1>2 DEF ControllerTypes, Steady
<1>7. LockInv'
  <2>1. ASSUME NEW s \in Threads
        PROVE  /\ thread'[s].at = "unlocked" => thread'[s].job = "pump"
               /\ thread'[s].at = "stopping" => thread'[s].job \in {"reload", "cleanup"}
               /\ thread'[s].job = "pump" /\ thread'[s].at \in {"unlocked", "writing"} =>
                    \E file \in Files : Accepted(file)
                            /\ DOMAIN thread'[s].updates \subseteq PumpWires(file.config)
    <3>1. CASE thread'[s] = thread[s] BY <2>1, <3>1 DEF LockInv
    <3>2. CASE s = t /\ thread'[s] # thread[s] BY <2>1, <3>2 DEF Steady
    <3>3. s = t \/ thread'[s] = thread[s] BY <2>1 DEF Steady
    <3> QED BY <3>1, <3>2, <3>3
  <2>2. \A s \in Threads : Within(s)' => Within(s) BY <1>5 DEF Within
  <2>3. ASSUME NEW s \in Threads, NEW r \in Threads,
               thread'[s].at = "parsing" \/ (thread'[s].at = "staged" /\ thread'[s].job = "swapped"),
               thread'[r].at = "writing"
        PROVE  thread'[r].job = "pump"
    BY <1>5, <2>3 DEF LockInv
  <2>4. ASSUME NEW s \in Threads
        PROVE  /\ thread'[s].at = "staged" => lock' = s
               /\ thread'[s].at = "staged" =>
                     thread'[s].job \in {"update", "direct", "reset", "reload", "swapped", "cleanup", "stale"}
               /\ thread'[s].at = "writing" => io' = s
               /\ Within(s)' => lock' = s
               /\ thread'[s].at = "parsing" => thread'[s].job = "reload"
    BY <1>2, <1>5, <2>2, <2>4 DEF LockInv
  <2> QED BY <2>1, <2>3, <2>4 DEF LockInv
<1>8. \A w \in Valves(config) : CountOf(pulse[w])' = CountOf(pulse[w])
  BY <1>2 DEF CountOf
<1>9. DecidedInv'
  <2>1. ASSUME NEW s \in Threads, thread'[s].at = "staged",
               NEW w \in Valves(config) \cap DOMAIN thread'[s].updates
        PROVE  thread'[s].updates[w] = CountOf(pulse[w])'
    BY <1>5, <1>8, <2>1 DEF DecidedInv
  <2>2. ASSUME NEW s \in Threads, thread'[s].at = "writing",
               NEW w \in Valves(config) \cap DOMAIN thread'[s].updates
        PROVE  \/ thread'[s].updates[w] = CountOf(pulse[w])'
               \/ \E r \in Threads : thread'[r].at = "staged" /\ w \in DOMAIN thread'[r].updates
    <3>1. thread'[s] = thread[s] BY <1>5, <2>2
    <3>2. CASE \E r \in Threads : thread[r].at = "staged" /\ w \in DOMAIN thread[r].updates
      BY <1>4, <3>2 DEF Pending
    <3> QED BY <1>8, <2>2, <3>1, <3>2 DEF DecidedInv
  <2>3. ASSUME NEW w \in Valves(config)
        PROVE  \/ writer'.counts[w] = CountOf(pulse[w])'
               \/ \E r \in Threads : Pending(r)' /\ w \in DOMAIN thread'[r].updates
    <3>1. CASE \E r \in Threads : Pending(r) /\ w \in DOMAIN thread[r].updates
      BY <1>3, <1>4, <3>1
    <3> QED BY <1>2, <1>8, <2>3, <3>1 DEF DecidedInv
  <2>4. (~failed' /\ \A s \in Threads : ~(Pending(s)' /\ thread'[s].job = "swapped")) =>
          \A w \in Valves(config) : chip'[w] = Registers(writer'.counts[w])
    <3> SUFFICES ASSUME ~failed', \A s \in Threads : ~(Pending(s)' /\ thread'[s].job = "swapped"),
                        NEW w \in Valves(config)
                 PROVE  chip'[w] = Registers(writer'.counts[w])
      OBVIOUS
    <3>1. \A s \in Threads : ~(Pending(s) /\ thread[s].job = "swapped")
      BY <1>3, <1>4
    <3> QED BY <1>2, <3>1 DEF DecidedInv
  <2> QED BY <1>1, <2>1, <2>2, <2>3, <2>4 DEF DecidedInv
<1>10. Calm' <=> Calm BY <1>1, <1>2 DEF Calm
<1>11. CentreInv'
  <2>1. ASSUME NEW s \in Threads, Within(s)' PROVE Calm' BY <1>5, <1>10, <2>1 DEF CentreInv, Within
  <2>2. ASSUME NEW s \in Threads, Within(s)', Pending(s)'
        PROVE  Valves(config) \subseteq DOMAIN thread'[s].updates
    BY <1>3, <1>4, <2>2 DEF CentreInv, Within
  <2>3. ASSUME NEW s \in Threads, thread'[s].at = "parsing", NEW w \in Valves(config)
        PROVE  /\ writer'.counts[w] = CountOf(Centres(config)[w])'
               /\ chip'[w] = Registers(writer'.counts[w])
    <3>1. CountOf(Centres(config)[w])' = CountOf(Centres(config)[w]) BY <1>1, <1>2 DEF CountOf
    <3> QED BY <1>2, <1>5, <2>3, <3>1 DEF CentreInv
  <2> QED BY <1>1, <2>1, <2>2, <2>3 DEF CentreInv
<1> QED BY <1>6, <1>7, <1>9, <1>10, <1>11

\* A decision under _lock on some of the valves, which the thread is to write.
Stages(t, job) ==
    /\ t \in Threads
    /\ job \in {"update", "direct", "reset", "reload", "cleanup", "stale"}
    /\ lock = Free /\ lock' = t
    /\ UNCHANGED <<config, writer, chip, failed, io>>
    /\ DOMAIN pulse' = Wires
    /\ \A w \in Valves(config) :
          IF w \in DOMAIN thread'[t].updates THEN thread'[t].updates[w] = CountOf(pulse'[w])
          ELSE pulse'[w] = pulse[w]
    /\ DOMAIN thread' = Threads /\ DOMAIN thread'[t] = Fields
    /\ \A s \in Threads \ {t} : thread'[s] = thread[s]
    /\ thread[t].at \notin {"staged", "writing", "parsing"}
    /\ thread'[t].at = "staged" /\ thread'[t].job = job
    /\ Nested(job) => \A w \in Valves(config) :
                         w \in DOMAIN thread'[t].updates /\ pulse'[w] = Centres(config)[w]

LEMMA FreeIsNobody ==
    ASSUME LockInv, lock = Free, NEW t \in Threads
    PROVE  thread[t].at \notin {"staged", "parsing"} /\ ~Within(t)
<1>1. t # Free BY CallersAssumption DEF Free, Threads, Monitor
<1> QED BY <1>1 DEF LockInv, Within, Nested

LEMMA StagesStep ==
    ASSUME ControllerTypes, LockInv, DecidedInv, CentreInv, NEW t, NEW job, Stages(t, job)
    PROVE  /\ ControllerTypes' /\ LockInv' /\ DecidedInv' /\ CentreInv'
           /\ Nested(job) => Calm'
<1> DEFINE mine == thread'[t].updates
<1>1. /\ config' = config /\ writer' = writer /\ chip' = chip /\ failed' = failed /\ io' = io
      /\ lock = Free /\ lock' = t /\ t \in Threads
      /\ thread'[t].at = "staged" /\ thread'[t].job = job
      /\ \A s \in Threads \ {t} : thread'[s] = thread[s]
      /\ job \in {"update", "direct", "reset", "reload", "cleanup", "stale"}
  BY DEF Stages
<1>2. \A s \in Threads : thread[s].at \notin {"staged", "parsing"} /\ ~Within(s)
  BY <1>1, FreeIsNobody
<1>3. \A w \in Valves(config) :
         IF w \in DOMAIN mine THEN mine[w] = CountOf(pulse'[w]) ELSE pulse'[w] = pulse[w]
  BY DEF Stages
<1>4. \A w \in Valves(config) : CountOf(pulse[w])' = CountOf(pulse'[w])
  BY <1>1 DEF CountOf
<1>5. thread[t].at # "writing" BY DEF Stages
<1>6. ControllerTypes'
  BY <1>1 DEF ControllerTypes, Stages
<1>7. LockInv'
  <2>1. ASSUME NEW s \in Threads \ {t}
        PROVE  /\ thread'[s] = thread[s]
               /\ thread'[s].at \notin {"staged", "parsing"}
               /\ ~Within(s)'
    BY <1>1, <1>2, <2>1 DEF Within
  <2>2. ASSUME NEW s \in Threads
        PROVE  /\ thread'[s].at = "staged" => lock' = s
               /\ thread'[s].at = "staged" =>
                     thread'[s].job \in {"update", "direct", "reset", "reload", "swapped", "cleanup", "stale"}
               /\ thread'[s].at = "writing" => io' = s
               /\ Within(s)' => lock' = s
               /\ thread'[s].at = "unlocked" => thread'[s].job = "pump"
               /\ thread'[s].at = "parsing" => thread'[s].job = "reload"
               /\ thread'[s].at = "stopping" => thread'[s].job \in {"reload", "cleanup"}
               /\ thread'[s].job = "pump" /\ thread'[s].at \in {"unlocked", "writing"} =>
                    \E file \in Files : Accepted(file)
                            /\ DOMAIN thread'[s].updates \subseteq PumpWires(file.config)
    <3>1. CASE s = t BY <1>1, <3>1
    <3>2. CASE s # t BY <1>1, <2>1, <3>2 DEF LockInv
    <3> QED BY <3>1, <3>2
  <2>3. \A s \in Threads :
          ~(thread'[s].at = "parsing" \/ (thread'[s].at = "staged" /\ thread'[s].job = "swapped"))
    BY <1>1, <2>1
  <2> QED BY <2>2, <2>3 DEF LockInv
<1>8. DecidedInv'
  <2>1. ASSUME NEW s \in Threads, thread'[s].at = "staged",
               NEW w \in Valves(config) \cap DOMAIN thread'[s].updates
        PROVE  thread'[s].updates[w] = CountOf(pulse[w])'
    BY <1>1, <1>2, <1>3, <1>4, <2>1
  <2>2. ASSUME NEW s \in Threads, thread'[s].at = "writing",
               NEW w \in Valves(config) \cap DOMAIN thread'[s].updates
        PROVE  \/ thread'[s].updates[w] = CountOf(pulse[w])'
               \/ \E r \in Threads : thread'[r].at = "staged" /\ w \in DOMAIN thread'[r].updates
    <3>1. CASE w \in DOMAIN mine BY <1>1, <3>1
    <3>2. CASE w \notin DOMAIN mine
      <4>1. thread'[s] = thread[s] /\ pulse'[w] = pulse[w] BY <1>1, <1>3, <2>2, <3>2
      <4>2. thread[s].updates[w] = CountOf(pulse[w]) BY <1>2, <2>2, <4>1 DEF DecidedInv
      <4> QED BY <1>4, <2>2, <4>1, <4>2
    <3> QED BY <3>1, <3>2
  <2>3. ASSUME NEW w \in Valves(config)
        PROVE  \/ writer'.counts[w] = CountOf(pulse[w])'
               \/ \E r \in Threads : Pending(r)' /\ w \in DOMAIN thread'[r].updates
    <3>1. CASE w \in DOMAIN mine BY <1>1, <3>1 DEF Pending
    <3>2. CASE w \notin DOMAIN mine
      <4>1. pulse'[w] = pulse[w] BY <1>3, <2>3, <3>2
      <4>2. CASE \E r \in Threads : Pending(r) /\ w \in DOMAIN thread[r].updates
        <5>1. PICK r \in Threads : Pending(r) /\ w \in DOMAIN thread[r].updates BY <4>2
        <5>2. r # t BY <1>2, <1>5, <5>1 DEF Pending
        <5> QED BY <1>1, <5>1, <5>2 DEF Pending
      <4>3. CASE writer.counts[w] = CountOf(pulse[w]) BY <1>1, <1>4, <2>3, <4>1, <4>3
      <4> QED BY <2>3, <4>2, <4>3 DEF DecidedInv
    <3> QED BY <3>1, <3>2
  <2>4. (~failed' /\ \A s \in Threads : ~(Pending(s)' /\ thread'[s].job = "swapped")) =>
          \A w \in Valves(config) : chip'[w] = Registers(writer'.counts[w])
    <3> SUFFICES ASSUME ~failed', \A s \in Threads : ~(Pending(s)' /\ thread'[s].job = "swapped"),
                        NEW w \in Valves(config)
                 PROVE  chip'[w] = Registers(writer'.counts[w])
      OBVIOUS
    <3>1. \A s \in Threads : ~(Pending(s) /\ thread[s].job = "swapped")
      BY <1>1, <1>2, <1>5 DEF Pending
    <3> QED BY <1>1, <3>1 DEF DecidedInv
  <2> QED BY <1>1, <2>1, <2>2, <2>3, <2>4 DEF DecidedInv
<1>9. Nested(job) => Calm' BY <1>1 DEF Calm, Stages
<1>10. CentreInv'
  <2>1. \A s \in Threads : Within(s)' => s = t /\ Nested(job)
    BY <1>1, <1>2 DEF Within
  <2>2. \A s \in Threads : thread'[s].at # "parsing" BY <1>1, <1>2
  <2>3. Nested(job) => Valves(config) \subseteq DOMAIN mine BY DEF Stages
  <2> QED BY <1>1, <1>9, <2>1, <2>2, <2>3 DEF CentreInv
<1> QED BY <1>6, <1>7, <1>8, <1>9, <1>10

LEMMA DoingThread ==
    ASSUME ControllerTypes, NEW t \in Threads, NEW at, NEW job, NEW updates,
           thread' = Doing(t, at, job, updates)
    PROVE  /\ DOMAIN thread' = Threads /\ DOMAIN thread'[t] = Fields
           /\ \A s \in Threads \ {t} : thread'[s] = thread[s]
           /\ thread'[t].at = at /\ thread'[t].job = job /\ thread'[t].updates = updates
           /\ thread'[t].was = thread[t].was
BY DEF ControllerTypes, Doing, Fields

\* What a reset decides for the valves of c, and what the other threads see of it.
Recentred(c, frequency, t, job) ==
    /\ DOMAIN pulse' = Wires
    /\ \A w \in Valves(c) : /\ pulse'[w] = Centres(c)[w]
                            /\ w \in DOMAIN thread'[t].updates
                            /\ thread'[t].updates[w] = Count(pulse'[w], frequency)
    /\ DOMAIN thread' = Threads /\ DOMAIN thread'[t] = Fields
    /\ \A s \in Threads \ {t} : thread'[s] = thread[s]
    /\ thread'[t].at = "staged" /\ thread'[t].job = job
    /\ thread'[t].was = thread[t].was

LEMMA ResetDecides ==
    ASSUME ControllerTypes, NEW c, Deployed(c), NEW frequency, NEW with_pump \in BOOLEAN,
           NEW t \in Threads, NEW job, Reset(c, frequency, with_pump, t, job)
    PROVE  Recentred(c, frequency, t, job)
<1> DEFINE floor == IF with_pump THEN PumpFloor(c) ELSE <<>>
           pulses == Over(Over(pulse, Centres(c)), floor)
           written == DOMAIN Centres(c) \cup (IF with_pump THEN PumpWires(c) ELSE {})
           counts == [w \in written |-> Count(pulses[w], frequency)]
<1>1. pulse' = pulses /\ thread' = Doing(t, "staged", job, counts)
  BY DEF Reset
<1>2. /\ DOMAIN thread' = Threads /\ DOMAIN thread'[t] = Fields
      /\ \A s \in Threads \ {t} : thread'[s] = thread[s]
      /\ thread'[t].at = "staged" /\ thread'[t].job = job /\ thread'[t].updates = counts
      /\ thread'[t].was = thread[t].was
  <2> HIDE DEF counts
  <2> QED BY <1>1, DoingThread
<1>3. \A w \in DOMAIN floor : w \in PumpWires(c)
  BY DEF PumpFloor
<1> HIDE DEF floor
<1>4. DOMAIN pulse = Wires BY DEF ControllerTypes
<1>5. DOMAIN pulses = Wires BY <1>4 DEF Over
<1>6. ASSUME NEW w \in Valves(c)
      PROVE  /\ pulses[w] = Centres(c)[w] /\ w \in DOMAIN counts
             /\ counts[w] = Count(pulses[w], frequency)
  <2>1. w \in Wires /\ w \notin PumpWires(c) BY <1>6, DeployedFacts
  <2>2. DOMAIN Centres(c) = Valves(c) BY DEF Centres
  <2>3. pulses[w] = Centres(c)[w] BY <1>3, <1>4, <1>6, <2>1, <2>2 DEF Over
  <2> QED BY <1>6, <2>2, <2>3
<1> HIDE DEF pulses, counts
<1> QED BY <1>1, <1>2, <1>5, <1>6 DEF Recentred

\* The configuration is swapped, with the file's centres decided in the same critical section.
LEMMA SwapStep ==
    ASSUME PumpStays, ControllerTypes, LockInv, DecidedInv, CentreInv,
           NEW t \in Threads, thread[t].at = "parsing", NEW file \in Files, Accepted(file),
           config' = file.config, writer' = FreshWriter(file.config, config.pumps),
           Reset(file.config, file.config.frequency, TRUE, t, "swapped"),
           UNCHANGED <<chip, lock, io>>
    PROVE  ControllerTypes' /\ LockInv' /\ DecidedInv' /\ CentreInv' /\ Calm'
<1>1. Typed(file.config) /\ Deployed(file.config)
  BY FileAssumption DEF Accepted, Deployed
<1>2. /\ DOMAIN pulse' = Wires
      /\ \A w \in Valves(config') :
            /\ pulse'[w] = Centres(config')[w]
            /\ w \in DOMAIN thread'[t].updates
            /\ thread'[t].updates[w] = Count(pulse'[w], file.config.frequency)
      /\ DOMAIN thread' = Threads /\ DOMAIN thread'[t] = Fields
      /\ \A s \in Threads \ {t} : thread'[s] = thread[s]
      /\ thread'[t].at = "staged" /\ thread'[t].job = "swapped"
  <2>1. TRUE \in BOOLEAN OBVIOUS
  <2>2. Recentred(file.config, file.config.frequency, t, "swapped")
    BY <1>1, <2>1, ResetDecides, Zenon
  <2> QED BY <2>2 DEF Recentred
<1>3. /\ DOMAIN writer' = {"low", "high", "frequency", "counts"}
      /\ writer'.frequency = config'.frequency
      /\ DOMAIN writer'.counts = Wires
      /\ \A w \in Valves(config') : w \in writer'.low..writer'.high
  BY FreshWriterCovers DEF ControllerTypes
<1>4. \A w \in Valves(config') : CountOf(pulse[w])' = thread'[t].updates[w]
  BY <1>2, <1>3 DEF CountOf
<1>5. thread[t].job = "reload" /\ lock = t
  BY DEF LockInv, Within, Nested
<1>6. \A s \in Threads \ {t} : /\ thread[s].at # "staged" /\ ~Within(s)
                               /\ thread[s].at = "writing" => thread[s].job = "pump"
                               /\ thread[s].at # "parsing"
  BY <1>5 DEF LockInv, Within, Nested
<1>7. ControllerTypes'
  BY <1>1, <1>2, <1>3 DEF ControllerTypes, Typed
<1>8. LockInv'
  <2>1. ASSUME NEW s \in Threads
        PROVE  /\ thread'[s].at = "staged" => lock' = s
               /\ thread'[s].at = "staged" =>
                     thread'[s].job \in {"update", "direct", "reset", "reload", "swapped", "cleanup", "stale"}
               /\ thread'[s].at = "writing" => io' = s /\ thread'[s].job = "pump"
               /\ Within(s)' => lock' = s
               /\ thread'[s].at = "unlocked" => thread'[s].job = "pump"
               /\ thread'[s].at = "parsing" => thread'[s].job = "reload"
               /\ thread'[s].at = "stopping" => thread'[s].job \in {"reload", "cleanup"}
               /\ thread'[s].job = "pump" /\ thread'[s].at \in {"unlocked", "writing"} =>
                    \E f \in Files : Accepted(f)
                            /\ DOMAIN thread'[s].updates \subseteq PumpWires(f.config)
    <3>1. CASE s = t BY <1>2, <1>5, <3>1
    <3>2. CASE s # t
      <4>1. thread'[s] = thread[s] BY <1>2, <3>2
      <4>2. ~Within(s)' BY <1>6, <3>2, <4>1 DEF Within
      <4> QED BY <1>6, <3>2, <4>1, <4>2 DEF LockInv
    <3> QED BY <3>1, <3>2
  <2> QED BY <2>1 DEF LockInv
<1>9. ASSUME NEW s \in Threads, s # t, thread'[s].at = "writing"
      PROVE  Valves(config') \cap DOMAIN thread'[s].updates = {}
  <2>1. thread'[s] = thread[s] /\ thread[s].job = "pump" BY <1>2, <1>6, <1>9
  <2>2. PICK f \in Files : Accepted(f) /\ DOMAIN thread[s].updates \subseteq PumpWires(f.config)
    BY <1>9, <2>1 DEF LockInv
  <2>3. PumpWires(f.config) \cap Valves(file.config) = {}
    BY <2>2 DEF PumpStays
  <2> QED BY <2>1, <2>2, <2>3
<1>10. DecidedInv'
  <2>1. ASSUME NEW s \in Threads, thread'[s].at = "staged",
               NEW w \in Valves(config') \cap DOMAIN thread'[s].updates
        PROVE  thread'[s].updates[w] = CountOf(pulse[w])'
    BY <1>2, <1>4, <1>6, <2>1
  <2>2. ASSUME NEW s \in Threads, thread'[s].at = "writing",
               NEW w \in Valves(config') \cap DOMAIN thread'[s].updates
        PROVE  FALSE
    BY <1>2, <1>9, <2>2
  <2>3. ASSUME NEW w \in Valves(config')
        PROVE  \E r \in Threads : Pending(r)' /\ w \in DOMAIN thread'[r].updates
    BY <1>2, <2>3 DEF Pending
  <2>4. Pending(t)' /\ thread'[t].job = "swapped" BY <1>2 DEF Pending
  <2> QED BY <2>1, <2>2, <2>3, <2>4 DEF DecidedInv
<1>11. Calm' BY <1>2 DEF Calm
<1>12. CentreInv'
  <2>1. \A s \in Threads : Within(s)' => s = t BY <1>2, <1>6 DEF Within
  <2>2. \A s \in Threads : thread'[s].at # "parsing" BY <1>2, <1>6
  <2>3. Valves(config') \subseteq DOMAIN thread'[t].updates BY <1>2
  <2> QED BY <1>11, <2>1, <2>2, <2>3 DEF CentreInv
<1> QED BY <1>7, <1>8, <1>10, <1>11, <1>12

LEMMA PumpLeavesValves ==
    ASSUME PumpStays, ControllerTypes, LockInv, NEW t \in Threads,
           thread[t].job = "pump", thread[t].at \in {"unlocked", "writing"}
    PROVE  Valves(config) \cap DOMAIN thread[t].updates = {}
<1>1. PICK f \in Files : Accepted(f) /\ DOMAIN thread[t].updates \subseteq PumpWires(f.config)
  BY DEF LockInv
<1>2. PICK file \in Files : Accepted(file) /\ config.channels = file.config.channels
  BY DEF ControllerTypes, Deployed
<1>3. Valves(config) = Valves(file.config) BY <1>2 DEF Valves
<1>4. PumpWires(f.config) \cap Valves(file.config) = {}
  BY <1>1, <1>2 DEF PumpStays
<1> QED BY <1>1, <1>3, <1>4

LEMMA TakeStep ==
    ASSUME PumpStays, ControllerTypes, LockInv, DecidedInv, CentreInv, NEW t \in Threads, TakeIo(t)
    PROVE  /\ ControllerTypes' /\ LockInv' /\ DecidedInv' /\ CentreInv'
           /\ Calm' <=> Calm
<1>1. /\ thread[t].at \in {"staged", "unlocked"} /\ io = Free /\ io' = t
      /\ lock' = IF thread[t].at = "staged" /\ ~Nested(thread[t].job) THEN Free ELSE lock
      /\ config' = config /\ writer' = writer /\ chip' = chip /\ pulse' = pulse /\ failed' = failed
  BY DEF TakeIo, outputs, believed, history
<1>2. /\ DOMAIN thread' = Threads /\ \A s \in Threads : DOMAIN thread'[s] = Fields
      /\ \A s \in Threads \ {t} : thread'[s] = thread[s]
      /\ thread'[t].at = "writing" /\ thread'[t].job = thread[t].job
      /\ thread'[t].updates = thread[t].updates
  BY DEF TakeIo, ControllerTypes, Fields
<1>3. \A s \in Threads : thread[s].at # "writing"
  BY <1>1, CallersAssumption DEF LockInv, Free, Threads, Monitor
<1>4. thread[t].at = "staged" => \A s \in Threads \ {t} :
          thread[s].at \notin {"staged", "parsing"} /\ ~Within(s)
  BY DEF LockInv, Within, Nested
<1>5. thread[t].at = "staged" => lock = t /\ thread[t].job # "pump" BY DEF LockInv
<1>6. thread[t].at = "unlocked" => thread[t].job = "pump" /\ ~Nested(thread[t].job)
  BY DEF LockInv, Nested
<1>7. ControllerTypes' BY <1>1, <1>2 DEF ControllerTypes
<1>8. \A s \in Threads : Within(s)' => Within(s)
  BY <1>1, <1>2, <1>6 DEF Within
<1>9. \A s \in Threads : Pending(s) => Pending(s)'
  BY <1>2 DEF Pending
<1>10. LockInv'
  <2>1. ASSUME NEW s \in Threads
        PROVE  /\ thread'[s].at = "staged" => lock' = s
               /\ thread'[s].at = "staged" =>
                     thread'[s].job \in {"update", "direct", "reset", "reload", "swapped", "cleanup", "stale"}
               /\ thread'[s].at = "writing" => io' = s
               /\ Within(s)' => lock' = s
               /\ thread'[s].at = "unlocked" => thread'[s].job = "pump"
               /\ thread'[s].at = "parsing" => thread'[s].job = "reload"
               /\ thread'[s].at = "stopping" => thread'[s].job \in {"reload", "cleanup"}
               /\ thread'[s].job = "pump" /\ thread'[s].at \in {"unlocked", "writing"} =>
                    \E f \in Files : Accepted(f)
                            /\ DOMAIN thread'[s].updates \subseteq PumpWires(f.config)
    <3>1. CASE s = t
      <4>1. Within(t)' => lock' = t
        BY <1>1, <1>2, <1>5, <1>6 DEF Within
      <4>2. thread[t].job = "pump" => thread[t].at = "unlocked" BY <1>1, <1>5
      <4>3. thread[t].job = "pump" => \E f \in Files : Accepted(f)
                            /\ DOMAIN thread[t].updates \subseteq PumpWires(f.config)
        BY <4>2 DEF LockInv
      <4> QED BY <1>1, <1>2, <3>1, <4>1, <4>3
    <3>2. CASE s # t
      <4>1. thread'[s] = thread[s] BY <1>2, <3>2
      <4>2. (thread[s].at = "staged" \/ Within(s)) => lock' = lock
        BY <1>1, <1>4, <3>2
      <4>3. Within(s)' => lock' = s BY <1>8, <4>2 DEF LockInv
      <4>4. thread[s].at = "staged" => lock' = s BY <4>2 DEF LockInv
      <4> QED BY <1>3, <4>1, <4>3, <4>4 DEF LockInv
    <3> QED BY <3>1, <3>2
  <2>2. ASSUME NEW s \in Threads, NEW r \in Threads,
               thread'[s].at = "parsing" \/ (thread'[s].at = "staged" /\ thread'[s].job = "swapped"),
               thread'[r].at = "writing"
        PROVE  thread'[r].job = "pump"
    <3>1. r = t BY <1>2, <1>3, <2>2
    <3>2. s # t /\ thread'[s] = thread[s] BY <1>2, <2>2
    <3>3. thread[t].at = "unlocked" BY <1>1, <1>4, <2>2, <3>2
    <3> QED BY <1>2, <1>6, <3>1, <3>3
  <2> QED BY <2>1, <2>2 DEF LockInv
<1>11. \A w : CountOf(pulse[w])' = CountOf(pulse[w]) BY <1>1 DEF CountOf
<1>12. DecidedInv'
  <2>1. ASSUME NEW s \in Threads, thread'[s].at = "staged",
               NEW w \in Valves(config) \cap DOMAIN thread'[s].updates
        PROVE  thread'[s].updates[w] = CountOf(pulse[w])'
    BY <1>2, <1>11, <2>1 DEF DecidedInv
  <2>2. ASSUME NEW s \in Threads, thread'[s].at = "writing",
               NEW w \in Valves(config) \cap DOMAIN thread'[s].updates
        PROVE  thread'[s].updates[w] = CountOf(pulse[w])'
    <3>1. s = t BY <1>2, <1>3, <2>2
    <3>2. CASE thread[t].at = "staged" BY <1>2, <1>11, <2>2, <3>1, <3>2 DEF DecidedInv
    <3>3. CASE thread[t].at = "unlocked"
      <4>1. Valves(config) \cap DOMAIN thread[t].updates = {}
        BY <1>6, <3>3, PumpLeavesValves
      <4> QED BY <1>2, <2>2, <3>1, <4>1
    <3> QED BY <1>1, <3>2, <3>3
  <2>3. ASSUME NEW w \in Valves(config)
        PROVE  \/ writer'.counts[w] = CountOf(pulse[w])'
               \/ \E r \in Threads : Pending(r)' /\ w \in DOMAIN thread'[r].updates
    <3>1. CASE \E r \in Threads : Pending(r) /\ w \in DOMAIN thread[r].updates
      <4>1. PICK r \in Threads : Pending(r) /\ w \in DOMAIN thread[r].updates BY <3>1
      <4>2. thread'[r].updates = thread[r].updates BY <1>2
      <4> QED BY <1>9, <4>1, <4>2
    <3> QED BY <1>1, <1>11, <2>3, <3>1 DEF DecidedInv
  <2>4. (~failed' /\ \A s \in Threads : ~(Pending(s)' /\ thread'[s].job = "swapped")) =>
          \A w \in Valves(config) : chip'[w] = Registers(writer'.counts[w])
    <3> SUFFICES ASSUME ~failed', \A s \in Threads : ~(Pending(s)' /\ thread'[s].job = "swapped"),
                        NEW w \in Valves(config)
                 PROVE  chip'[w] = Registers(writer'.counts[w])
      OBVIOUS
    <3>1. \A s \in Threads : thread'[s].job = thread[s].job BY <1>2
    <3>2. \A s \in Threads : ~(Pending(s) /\ thread[s].job = "swapped")
      BY <1>9, <3>1
    <3> QED BY <1>1, <3>2 DEF DecidedInv
  <2> QED BY <1>1, <2>1, <2>2, <2>3, <2>4 DEF DecidedInv
<1>13. Calm' <=> Calm BY <1>1 DEF Calm
<1>14. CentreInv'
  <2>1. ASSUME NEW s \in Threads, Within(s)', Pending(s)'
        PROVE  Valves(config) \subseteq DOMAIN thread'[s].updates
    <3>1. Within(s) /\ thread'[s].updates = thread[s].updates BY <1>2, <1>8, <2>1
    <3>2. Pending(s)
      BY <1>1, <1>2, <1>6, <2>1, <3>1 DEF Pending, Within
    <3> QED BY <3>1, <3>2 DEF CentreInv
  <2>2. ASSUME NEW s \in Threads, thread'[s].at = "parsing", NEW w \in Valves(config)
        PROVE  /\ writer'.counts[w] = CountOf(Centres(config)[w])'
               /\ chip'[w] = Registers(writer'.counts[w])
    <3>1. thread[s].at = "parsing" BY <1>2, <2>2
    <3>2. CountOf(Centres(config)[w])' = CountOf(Centres(config)[w]) BY <1>1 DEF CountOf
    <3> QED BY <1>1, <2>2, <3>1, <3>2 DEF CentreInv
  <2>3. \A s \in Threads : Within(s)' => Calm' BY <1>8, <1>13 DEF CentreInv
  <2> QED BY <1>1, <2>1, <2>2, <2>3 DEF CentreInv
<1> QED BY <1>7, <1>10, <1>12, <1>13, <1>14

\* A write, whole or broken off, and what the thread and the monitor do after it.
Leaves(t) ==
    /\ t \in Threads /\ thread[t].at = "writing"
    /\ UNCHANGED <<config, pulse>>
    /\ io' = Free /\ (lock' = lock \/ (Within(t) /\ lock' = Free))
    /\ DOMAIN thread' = Threads /\ \A s \in Threads : DOMAIN thread'[s] = Fields
    /\ \A s \in Threads \ {t} :
          thread'[s] = thread[s] \/ (s = Monitor /\ thread'[s].at = "asleep" /\ Within(t))
    /\ \/ thread'[t].at \in {"idle", "asleep", "ended", "dead", "exited"}
       \/ /\ thread[t].job = "reload" /\ lock' = lock
          /\ thread'[t].at = "parsing" /\ thread'[t].job = "reload"
Writes(t) ==
    LET updates == thread[t].updates
    IN /\ DOMAIN writer' = DOMAIN writer /\ DOMAIN writer'.counts = Wires
       /\ writer'.frequency = writer.frequency
       /\ writer'.low = writer.low /\ writer'.high = writer.high
       /\ DOMAIN chip' = Wires
       /\ \A w \in Valves(config) :
             writer'.counts[w] = IF w \in DOMAIN updates THEN updates[w] ELSE writer.counts[w]
       /\ \A w \in Valves(config) :
             chip'[w] = Registers(writer'.counts[w]) \/ chip'[w] = chip[w]
       /\ ~failed' => \/ \A w \in Valves(config) : chip'[w] = Registers(writer'.counts[w])
                      \/ DOMAIN updates = {} /\ chip' = chip /\ failed' = failed
       /\ thread'[t].at = "parsing" => ~failed' \/ DOMAIN updates = {}

LEMMA LeavesStep ==
    ASSUME PumpStays, ControllerTypes, LockInv, DecidedInv, CentreInv, NEW t, Leaves(t), Writes(t)
    PROVE  /\ ControllerTypes' /\ LockInv' /\ DecidedInv' /\ CentreInv'
           /\ Calm' <=> Calm
<1> DEFINE mine == thread[t].updates
<1>1. /\ t \in Threads /\ thread[t].at = "writing" /\ io = t
      /\ config' = config /\ pulse' = pulse /\ io' = Free
      /\ lock' = lock \/ (Within(t) /\ lock' = Free)
      /\ writer'.frequency = writer.frequency
      /\ \/ thread'[t].at \in {"idle", "asleep", "ended", "dead", "exited"}
         \/ /\ thread[t].job = "reload" /\ lock' = lock
            /\ thread'[t].at = "parsing" /\ thread'[t].job = "reload"
  BY DEF Leaves, Writes, LockInv
<1>2. Within(t) => lock = t /\ \A s \in Threads \ {t} :
         thread[s].at \notin {"staged", "parsing"} /\ ~Within(s)
  BY <1>1 DEF LockInv, Within, Nested
<1>3. \A s \in Threads \ {t} : thread[s].at # "writing"
  BY <1>1 DEF LockInv
<1>4. \A s \in Threads \ {t} :
         thread'[s] = thread[s] \/ (thread'[s].at = "asleep" /\ Within(t))
  BY DEF Leaves
<1>5. \A s \in Threads \ {t} : thread[s].at = "staged" => thread'[s] = thread[s]
  BY <1>2, <1>4
<1>6. \A s \in Threads \ {t} :
         thread'[s].at \in {"staged", "writing", "parsing", "unlocked", "stopping"} =>
             thread'[s] = thread[s]
  BY <1>4
<1>7. ControllerTypes'
  BY <1>1 DEF ControllerTypes, Leaves, Writes
<1>8. LockInv'
  <2>1. ASSUME NEW s \in Threads
        PROVE  /\ thread'[s].at = "staged" => lock' = s
               /\ thread'[s].at = "staged" =>
                     thread'[s].job \in {"update", "direct", "reset", "reload", "swapped", "cleanup", "stale"}
               /\ thread'[s].at # "writing"
               /\ Within(s)' => lock' = s
               /\ thread'[s].at = "unlocked" => thread'[s].job = "pump"
               /\ thread'[s].at = "parsing" => thread'[s].job = "reload"
               /\ thread'[s].at = "stopping" => thread'[s].job \in {"reload", "cleanup"}
               /\ thread'[s].job = "pump" /\ thread'[s].at \in {"unlocked", "writing"} =>
                    \E f \in Files : Accepted(f)
                            /\ DOMAIN thread'[s].updates \subseteq PumpWires(f.config)
    <3>1. CASE s = t
      <4>1. CASE thread'[t].at = "parsing"
        <5>1. thread[t].job = "reload" /\ thread'[t].job = "reload" /\ lock' = lock
          BY <1>1, <4>1
        <5>2. lock = t BY <1>1, <5>1 DEF LockInv, Within, Nested
        <5> QED BY <3>1, <4>1, <5>1, <5>2
      <4>2. CASE thread'[t].at \in {"idle", "asleep", "ended", "dead", "exited"}
        BY <3>1, <4>2 DEF Within
      <4> QED BY <1>1, <4>1, <4>2
    <3>2. CASE s # t /\ thread'[s] # thread[s]
      <4>1. thread'[s].at = "asleep" BY <1>4, <3>2
      <4> QED BY <4>1 DEF Within
    <3>3. CASE s # t /\ thread'[s] = thread[s]
      <4>1. Within(s)' => Within(s) BY <3>3 DEF Within
      <4>2. (thread[s].at = "staged" \/ Within(s)) => lock' = lock BY <1>1, <1>2, <3>3
      <4> QED BY <1>3, <3>3, <4>1, <4>2 DEF LockInv
    <3> QED BY <3>1, <3>2, <3>3
  <2> QED BY <2>1 DEF LockInv
<1>9. \A w : CountOf(pulse[w])' = CountOf(pulse[w]) BY <1>1 DEF CountOf
<1>10. \A w \in Valves(config) :
         writer'.counts[w] = IF w \in DOMAIN mine THEN mine[w] ELSE writer.counts[w]
  BY DEF Writes
<1>11. \A s \in Threads : thread'[s].at # "writing"
  BY <1>1, <1>3, <1>6
<1>12. \A s \in Threads : thread'[s].at = "staged" => s # t /\ thread'[s] = thread[s]
  BY <1>1, <1>6
<1>13. DecidedInv'
  <2>1. ASSUME NEW s \in Threads, thread'[s].at = "staged",
               NEW w \in Valves(config) \cap DOMAIN thread'[s].updates
        PROVE  thread'[s].updates[w] = CountOf(pulse[w])'
    BY <1>9, <1>12, <2>1 DEF DecidedInv
  <2>2. ASSUME NEW w \in Valves(config)
        PROVE  \/ writer'.counts[w] = CountOf(pulse[w])'
               \/ \E r \in Threads : Pending(r)' /\ w \in DOMAIN thread'[r].updates
    <3>1. CASE \E r \in Threads : thread[r].at = "staged" /\ w \in DOMAIN thread[r].updates
      <4>1. PICK r \in Threads : thread[r].at = "staged" /\ w \in DOMAIN thread[r].updates
        BY <3>1
      <4>2. thread'[r] = thread[r] BY <1>1, <1>5, <4>1
      <4>3. Pending(r)' BY <4>1, <4>2 DEF Pending
      <4> QED BY <4>1, <4>2, <4>3
    <3>2. CASE ~\E r \in Threads : thread[r].at = "staged" /\ w \in DOMAIN thread[r].updates
      <4>1. CASE w \in DOMAIN mine
        <5>1. mine[w] = CountOf(pulse[w]) BY <1>1, <2>2, <3>2, <4>1 DEF DecidedInv
        <5> QED BY <1>9, <1>10, <2>2, <4>1, <5>1
      <4>2. CASE w \notin DOMAIN mine
        <5>1. ~\E r \in Threads : Pending(r) /\ w \in DOMAIN thread[r].updates
          BY <1>3, <3>2, <4>2 DEF Pending
        <5>2. writer.counts[w] = CountOf(pulse[w]) BY <2>2, <5>1 DEF DecidedInv
        <5> QED BY <1>9, <1>10, <2>2, <4>2, <5>2
      <4> QED BY <4>1, <4>2
    <3> QED BY <3>1, <3>2
  <2>3. (~failed' /\ \A s \in Threads : ~(Pending(s)' /\ thread'[s].job = "swapped")) =>
          \A w \in Valves(config) : chip'[w] = Registers(writer'.counts[w])
    <3> SUFFICES ASSUME ~failed', \A s \in Threads : ~(Pending(s)' /\ thread'[s].job = "swapped"),
                        NEW w \in Valves(config), DOMAIN mine = {} /\ chip' = chip /\ failed' = failed
                 PROVE  chip'[w] = Registers(writer'.counts[w])
      BY DEF Writes
    <3>1. \A s \in Threads \ {t} : ~(Pending(s) /\ thread[s].job = "swapped")
      BY <1>3, <1>5 DEF Pending
    <3>2. thread[t].job # "swapped"
      <4> SUFFICES ASSUME thread[t].job = "swapped" PROVE FALSE
        OBVIOUS
      <4>1. Within(t) /\ Pending(t) BY <1>1 DEF Within, Pending, Nested
      <4>2. w \in DOMAIN mine BY <1>1, <4>1 DEF CentreInv
      <4> QED BY <4>2
    <3>3. chip[w] = Registers(writer.counts[w]) BY <3>1, <3>2 DEF DecidedInv
    <3> QED BY <1>10, <3>3
  <2> QED BY <1>1, <1>11, <2>1, <2>2, <2>3 DEF DecidedInv
<1>14. Calm' <=> Calm BY <1>1 DEF Calm
<1>15. CentreInv'
  <2>1. ASSUME NEW s \in Threads, Within(s)'
        PROVE  Calm'
    <3>1. CASE s = t
      <4>1. Within(t) BY <1>1, <2>1, <3>1 DEF Within, Nested
      <4> QED BY <1>1, <1>14, <4>1 DEF CentreInv
    <3>2. CASE s # t
      <4>1. thread'[s] = thread[s] BY <1>6, <2>1, <3>2 DEF Within
      <4>2. Within(s) BY <2>1, <4>1 DEF Within
      <4> QED BY <1>14, <4>2 DEF CentreInv
    <3> QED BY <3>1, <3>2
  <2>2. ASSUME NEW s \in Threads, Within(s)', Pending(s)'
        PROVE  Valves(config) \subseteq DOMAIN thread'[s].updates
    <3>1. thread'[s] = thread[s] BY <1>11, <1>12, <2>2 DEF Pending
    <3>2. Within(s) /\ Pending(s) BY <2>2, <3>1 DEF Within, Pending
    <3> QED BY <3>1, <3>2 DEF CentreInv
  <2>3. ASSUME NEW s \in Threads, thread'[s].at = "parsing", NEW w \in Valves(config)
        PROVE  /\ writer'.counts[w] = CountOf(Centres(config)[w])'
               /\ chip'[w] = Registers(writer'.counts[w])
    <3>1. CountOf(Centres(config)[w])' = CountOf(Centres(config)[w]) BY <1>1 DEF CountOf
    <3>2. CASE s = t
      <4>1. thread[t].job = "reload" BY <1>1, <2>3, <3>2
      <4>2. Within(t) /\ Pending(t) BY <1>1, <4>1 DEF Within, Pending, Nested
      <4>3. w \in DOMAIN mine BY <1>1, <2>3, <4>2 DEF CentreInv
      <4>4. ~failed' BY <2>3, <3>2, <4>3 DEF Writes
      <4>5. chip'[w] = Registers(writer'.counts[w]) BY <2>3, <4>3, <4>4 DEF Writes
      <4>6. ~\E r \in Threads : thread[r].at = "staged" /\ w \in DOMAIN thread[r].updates
        BY <1>1, <1>2, <4>2
      <4>7. mine[w] = CountOf(pulse[w]) BY <1>1, <2>3, <4>3, <4>6 DEF DecidedInv
      <4>8. pulse[w] = Centres(config)[w] BY <1>1, <2>3, <4>2 DEF CentreInv, Calm
      <4> QED BY <1>10, <2>3, <3>1, <4>3, <4>5, <4>7, <4>8
    <3>3. CASE s # t
      <4>1. thread[s].at = "parsing" BY <1>6, <2>3, <3>3
      <4>2. thread[t].job = "pump" BY <1>1, <4>1 DEF LockInv
      <4>3. w \notin DOMAIN mine BY <1>1, <2>3, <4>2, PumpLeavesValves
      <4>4. writer'.counts[w] = writer.counts[w] BY <1>10, <2>3, <4>3
      <4>5. writer.counts[w] = CountOf(Centres(config)[w]) /\ chip[w] = Registers(writer.counts[w])
        BY <2>3, <4>1 DEF CentreInv
      <4>6. chip'[w] = Registers(writer'.counts[w]) \/ chip'[w] = chip[w] BY <2>3 DEF Writes
      <4> QED BY <3>1, <4>4, <4>5, <4>6
    <3> QED BY <3>2, <3>3
  <2> QED BY <1>1, <2>1, <2>2, <2>3 DEF CentreInv
<1> QED BY <1>7, <1>8, <1>13, <1>14, <1>15

\* The configuration is given up.
LEMMA GivesUpStep ==
    ASSUME ControllerTypes, LockInv, DecidedInv, CentreInv, MonitorInv, NEW t \in Threads,
           thread[t].at = "parsing", GivesUp(t), failed' = failed
    PROVE  /\ ControllerTypes' /\ LockInv' /\ DecidedInv' /\ CentreInv'
           /\ Calm' <=> Calm
<1>1. /\ config' = config /\ writer' = writer /\ chip' = chip /\ pulse' = pulse /\ io' = io
  BY DEF GivesUp, believed
<1>2. lock = t /\ \A s \in Threads \ {t} :
         thread[s].at \notin {"staged", "parsing"} /\ ~Within(s)
  BY DEF LockInv, Within, Nested
<1>3. t # Monitor
  BY DEF MonitorInv, MonitorSteps
<1>4. /\ DOMAIN thread' = Threads /\ \A s \in Threads : DOMAIN thread'[s] = Fields
      /\ thread'[t] = Idle
      /\ \A s \in Threads \ {t} :
            thread'[s] = thread[s] \/ (s = Monitor /\ thread'[s].at = "asleep")
  BY <1>3 DEF GivesUp, Restarted, ControllerTypes, Fields, Idle, Threads
<1>5. \A s \in Threads \ {t} : thread[s].at = "writing" => thread[s].job = "pump" /\ s # Monitor
  BY DEF LockInv, MonitorInv
<1>6. \A s \in Threads : Pending(s) => s # t /\ thread[s].at = "writing" /\ thread'[s] = thread[s]
  BY <1>2, <1>4, <1>5 DEF Pending
<1>7. \A s \in Threads :
         thread'[s].at \in {"staged", "writing", "parsing", "unlocked", "stopping"} =>
             s # t /\ thread'[s] = thread[s]
  BY <1>4 DEF Idle
<1>8. \A s \in Threads : thread'[s].at \notin {"staged", "parsing"} /\ ~Within(s)'
  BY <1>2, <1>7 DEF Within
<1>9. ControllerTypes'
  BY <1>1, <1>4 DEF ControllerTypes
<1>10. LockInv'
  BY <1>1, <1>7, <1>8 DEF LockInv
<1>11. \A w : CountOf(pulse[w])' = CountOf(pulse[w]) BY <1>1 DEF CountOf
<1>12. DecidedInv'
  <2>1. ASSUME NEW s \in Threads, thread'[s].at = "writing",
               NEW w \in Valves(config) \cap DOMAIN thread'[s].updates
        PROVE  thread'[s].updates[w] = CountOf(pulse[w])'
    <3>1. thread'[s] = thread[s] /\ thread[s].at = "writing" BY <1>7, <2>1
    <3>2. ~\E r \in Threads : thread[r].at = "staged" BY <1>2
    <3> QED BY <1>11, <2>1, <3>1, <3>2 DEF DecidedInv
  <2>2. ASSUME NEW w \in Valves(config)
        PROVE  \/ writer'.counts[w] = CountOf(pulse[w])'
               \/ \E r \in Threads : Pending(r)' /\ w \in DOMAIN thread'[r].updates
    <3>1. CASE \E r \in Threads : Pending(r) /\ w \in DOMAIN thread[r].updates
      BY <1>6, <3>1 DEF Pending
    <3> QED BY <1>1, <1>11, <2>2, <3>1 DEF DecidedInv
  <2>3. (~failed' /\ \A s \in Threads : ~(Pending(s)' /\ thread'[s].job = "swapped")) =>
          \A w \in Valves(config) : chip'[w] = Registers(writer'.counts[w])
    <3>1. \A s \in Threads : ~(Pending(s) /\ thread[s].job = "swapped")
      BY <1>5, <1>6
    <3> QED BY <1>1, <3>1 DEF DecidedInv
  <2> QED BY <1>1, <1>8, <2>1, <2>2, <2>3 DEF DecidedInv
<1>13. Calm' <=> Calm BY <1>1 DEF Calm
<1>14. CentreInv' BY <1>8 DEF CentreInv
<1> QED BY <1>9, <1>10, <1>12, <1>13, <1>14

-----------------------------------------------------------------------------
(* The actions. *)

LEMMA CallersAreThreads == \A t \in Callers : t \in Threads /\ t # Monitor
  BY CallersAssumption DEF Threads, Monitor

\* Steps that the monitor has no part in.
LEMMA MonitorUnmoved ==
    ASSUME MonitorInv, UNCHANGED monitor, thread'[Monitor] = thread[Monitor],
           stale' = 0 \/ (stale' = stale /\ (Calm => Calm')),
           \A s \in Callers : Pending(s)' => thread'[s].job # "stale"
    PROVE  MonitorInv'
BY DEF MonitorInv, monitor

\* What a call of commands or of pulses decides.
Decides(t, job, out) ==
    /\ DOMAIN pulse' = Wires
    /\ \A w \in Valves(config) :
          IF w \in DOMAIN out
          THEN /\ pulse'[w] = out[w] /\ w \in DOMAIN thread'[t].updates
               /\ thread'[t].updates[w] = CountOf(pulse'[w])
          ELSE pulse'[w] = pulse[w] /\ w \notin DOMAIN thread'[t].updates
    /\ DOMAIN thread' = Threads /\ DOMAIN thread'[t] = Fields
    /\ \A s \in Threads \ {t} : thread'[s] = thread[s]
    /\ thread'[t].at = "staged" /\ thread'[t].job = job
LEMMA PumpDecides ==
    ASSUME ControllerTypes, NEW t \in Threads, NEW job, NEW activity, NEW out,
           DOMAIN out \subseteq Valves(config),
           WithPump(activity, Over(pulse, out), out, t, job)
    PROVE  Decides(t, job, out)
<1> DEFINE settings == [pump EXCEPT !.activity_sum = activity,
                                    !.activity_count = Cardinality(AffectsPump)]
           own == [w \in PumpWires(config) |->
                     PumpPulse(CHOOSE cfg \in config.pumps : TRUE, settings)]
           counts == [w \in DOMAIN out \cup DOMAIN own |->
                        CountOf(IF w \in DOMAIN own THEN own[w] ELSE out[w])]
<1>1. pulse' = Over(Over(pulse, out), own) /\ thread' = Doing(t, "staged", job, counts)
  BY DEF WithPump
<1>2. /\ DOMAIN thread' = Threads /\ DOMAIN thread'[t] = Fields
      /\ \A s \in Threads \ {t} : thread'[s] = thread[s]
      /\ thread'[t].at = "staged" /\ thread'[t].job = job /\ thread'[t].updates = counts
  <2> HIDE DEF counts
  <2> QED BY <1>1, DoingThread
<1>3. DOMAIN own = PumpWires(config) OBVIOUS
<1> HIDE DEF own
<1>4. DOMAIN pulse' = Wires BY <1>1 DEF Over, ControllerTypes
<1>5. ASSUME NEW w \in Valves(config)
      PROVE  IF w \in DOMAIN out
             THEN pulse'[w] = out[w] /\ w \in DOMAIN counts /\ counts[w] = CountOf(pulse'[w])
             ELSE pulse'[w] = pulse[w] /\ w \notin DOMAIN counts
  <2>1. w \in DOMAIN pulse /\ w \notin DOMAIN own
    BY <1>3, <1>5, DeployedFacts DEF ControllerTypes
  <2>2. pulse'[w] = IF w \in DOMAIN out THEN out[w] ELSE pulse[w]
    BY <1>1, <2>1 DEF Over
  <2> QED BY <1>3, <2>1, <2>2
<1> HIDE DEF counts
<1> QED BY <1>2, <1>4, <1>5 DEF Decides

LEMMA DecidesStages ==
    ASSUME NEW t \in Threads, NEW job \in {"update", "direct"}, NEW out, Decides(t, job, out),
           lock = Free, lock' = t, UNCHANGED <<config, writer, chip, failed, io>>,
           thread[t].at = "idle"
    PROVE  Stages(t, job)
BY DEF Stages, Decides, Nested

LEMMA ResetStages ==
    ASSUME ControllerTypes, NEW with_pump \in BOOLEAN, NEW t \in Threads,
           NEW job \in {"reset", "reload", "cleanup", "stale"},
           Reset(config, writer.frequency, with_pump, t, job),
           lock = Free, lock' = t, UNCHANGED <<config, writer, chip, failed, io>>,
           thread[t].at \notin {"staged", "writing", "parsing"}
    PROVE  Stages(t, job) /\ Calm'
<1>1. Deployed(config) BY DEF ControllerTypes
<1>2. Recentred(config, writer.frequency, t, job) BY <1>1, ResetDecides, Zenon
<1> QED BY <1>2 DEF Recentred, Stages, Calm, CountOf

LEMMA RefusedSteady ==
    ASSUME ControllerTypes, NEW t \in Threads, Refused(t)
    PROVE  Steady(t) /\ stale' = 0 /\ UNCHANGED <<monitor, thread, values, pulse, ramp>>
BY DEF Refused, Counted, Steady, ControllerTypes, outputs, believed, history

LEMMA DrivenAreValves == Driven \subseteq Valves(config)
BY DEF Driven

LEMMA UpdateNamedKeeps ==
    ASSUME PwmInv, NEW t \in Callers, NEW cmd, UpdateNamed(t, cmd)
    PROVE  PwmInv'
<1>1. t \in Threads /\ t # Monitor BY CallersAreThreads
<1>2. thread[t].at = "idle" /\ lock = Free BY DEF UpdateNamed, May
<1>3. CASE Refused(t)
  <2>1. Steady(t) /\ stale' = 0 /\ UNCHANGED <<monitor, thread>>
    BY <1>1, <1>3, RefusedSteady DEF PwmInv
  <2>2. ControllerTypes' /\ LockInv' /\ DecidedInv' /\ CentreInv'
    BY <2>1, SteadyStep DEF PwmInv
  <2>3. MonitorInv' BY <2>1, MonitorUnmoved DEF PwmInv, MonitorInv, Pending
  <2> QED BY <2>2, <2>3 DEF PwmInv
<1>4. CASE ~Refused(t)
  <2>1. PICK activity, out : /\ DOMAIN out = Driven
                             /\ WithPump(activity, Over(pulse, out), out, t, "update")
    BY <1>4 DEF UpdateNamed
  <2>2. /\ lock' = t /\ stale' = 0 /\ UNCHANGED <<config, writer, chip, failed, io, monitor>>
    BY <1>4 DEF UpdateNamed, Counted, outputs, history
  <2>3. Decides(t, "update", out)
    BY <1>1, <2>1, DrivenAreValves, PumpDecides, Zenon DEF PwmInv
  <2>4. Stages(t, "update") BY <1>1, <1>2, <2>2, <2>3, DecidesStages
  <2>5. ControllerTypes' /\ LockInv' /\ DecidedInv' /\ CentreInv'
    BY <2>4, StagesStep DEF PwmInv
  <2>6. /\ thread'[Monitor] = thread[Monitor] /\ thread'[t].job = "update"
        /\ \A s \in Callers \ {t} : thread'[s] = thread[s]
    BY <1>1, <2>3, CallersAreThreads DEF Decides, Threads
  <2>7. MonitorInv' BY <2>2, <2>6, MonitorUnmoved DEF PwmInv, MonitorInv, Pending
  <2> QED BY <2>5, <2>7 DEF PwmInv
<1> QED BY <1>3, <1>4

LEMMA UpdateNamedUsKeeps ==
    ASSUME PwmInv, NEW t \in Callers, NEW cmd, UpdateNamedUs(t, cmd)
    PROVE  PwmInv'
<1>1. t \in Threads /\ t # Monitor BY CallersAreThreads
<1>2. thread[t].at = "idle" /\ lock = Free BY DEF UpdateNamedUs, May
<1>3. CASE Refused(t)
  <2>1. Steady(t) /\ stale' = 0 /\ UNCHANGED <<monitor, thread>>
    BY <1>1, <1>3, RefusedSteady DEF PwmInv
  <2>2. ControllerTypes' /\ LockInv' /\ DecidedInv' /\ CentreInv'
    BY <2>1, SteadyStep DEF PwmInv
  <2>3. MonitorInv' BY <2>1, MonitorUnmoved DEF PwmInv, MonitorInv, Pending
  <2> QED BY <2>2, <2>3 DEF PwmInv
<1>4. CASE ~Refused(t)
  <2>1. PICK activity, out : /\ DOMAIN out \subseteq Driven
                             /\ WithPump(activity, Over(pulse, out), out, t, "direct")
    <3> DEFINE asked == {w \in Driven : NameOf(config, w) \in DOMAIN cmd}
               selected == [w \in IF UnsetToZero THEN Driven ELSE asked |->
                              IF w \in asked
                              THEN Clip(cmd[NameOf(config, w)], On(config, w).pulse_min,
                                                                On(config, w).pulse_max)
                              ELSE On(config, w).center]
    <3>1. WithPump(Opened(Over(pulse, selected)), Over(pulse, selected), selected, t, "direct")
      BY <1>4 DEF UpdateNamedUs
    <3>2. DOMAIN selected \subseteq Driven OBVIOUS
    <3> HIDE DEF selected
    <3> QED BY <3>1, <3>2
  <2>2. /\ lock' = t /\ stale' = 0 /\ UNCHANGED <<config, writer, chip, failed, io, monitor>>
    BY <1>4 DEF UpdateNamedUs, Counted, outputs, history
  <2>3. DOMAIN out \subseteq Valves(config) BY <2>1, DrivenAreValves
  <2>4. Decides(t, "direct", out)
    BY <1>1, <2>1, <2>3, PumpDecides, Zenon DEF PwmInv
  <2>5. Stages(t, "direct") BY <1>1, <1>2, <2>2, <2>4, DecidesStages
  <2>6. ControllerTypes' /\ LockInv' /\ DecidedInv' /\ CentreInv'
    BY <2>5, StagesStep DEF PwmInv
  <2>7. /\ thread'[Monitor] = thread[Monitor] /\ thread'[t].job = "direct"
        /\ \A s \in Callers \ {t} : thread'[s] = thread[s]
    BY <1>1, <2>4, CallersAreThreads DEF Decides, Threads
  <2>8. MonitorInv' BY <2>2, <2>7, MonitorUnmoved DEF PwmInv, MonitorInv, Pending
  <2> QED BY <2>6, <2>8 DEF PwmInv
<1> QED BY <1>3, <1>4

LEMMA CallResetKeeps ==
    ASSUME PwmInv, NEW t \in Callers, CallReset(t)
    PROVE  PwmInv'
<1>1. t \in Threads /\ t # Monitor BY CallersAreThreads
<1>2. /\ thread[t].at = "idle" /\ lock = Free /\ lock' = t
      /\ UNCHANGED <<config, writer, chip, failed, io, monitor, stale>>
      /\ Reset(config, writer.frequency, TRUE, t, "reset")
  BY DEF CallReset, May, outputs, history
<1>3. Stages(t, "reset") /\ Calm'
  <2>1. TRUE \in BOOLEAN /\ "reset" \in {"reset", "reload", "cleanup", "stale"} OBVIOUS
  <2>2. thread[t].at \notin {"staged", "writing", "parsing"} BY <1>2
  <2> QED BY <1>1, <1>2, <2>1, <2>2, ResetStages, Zenon DEF PwmInv
<1>4. ControllerTypes' /\ LockInv' /\ DecidedInv' /\ CentreInv'
  BY <1>3, StagesStep DEF PwmInv
<1>5. MonitorInv'
  <2>1. /\ thread'[Monitor] = thread[Monitor] /\ thread'[t].job = "reset"
        /\ \A s \in Callers \ {t} : thread'[s] = thread[s]
    BY <1>1, <1>3, CallersAreThreads DEF Stages, Threads
  <2> QED BY <1>2, <1>3, <2>1, MonitorUnmoved DEF PwmInv, MonitorInv, Pending
<1> QED BY <1>4, <1>5 DEF PwmInv

LEMMA SetPumpKeeps ==
    ASSUME PwmInv, NEW t \in Callers, SetPump(t)
    PROVE  PwmInv'
<1>1. t \in Threads /\ t # Monitor BY CallersAreThreads
<1>2. /\ thread[t].at = "idle"
      /\ UNCHANGED <<config, writer, chip, failed, io, lock, monitor, stale, pulse>>
      /\ thread' = thread \/ thread' = Doing(t, "pump", "pump", <<>>)
  BY DEF SetPump, MayTune, May, outputs, history, gate
<1>3. /\ DOMAIN thread' = Threads /\ DOMAIN thread'[t] = Fields
      /\ \A s \in Threads \ {t} : thread'[s] = thread[s]
      /\ thread'[t] = thread[t] \/ thread'[t].at = "pump"
  BY <1>1, <1>2, DoingThread DEF PwmInv, ControllerTypes
<1>4. Steady(t) BY <1>1, <1>2, <1>3 DEF Steady, PwmInv, ControllerTypes
<1>5. ControllerTypes' /\ LockInv' /\ DecidedInv' /\ CentreInv' /\ (Calm' <=> Calm)
  BY <1>4, SteadyStep DEF PwmInv
<1>6. MonitorInv'
  <2>1. thread'[Monitor] = thread[Monitor] BY <1>1, <1>3 DEF Threads
  <2>2. \A s \in Callers : Pending(s)' => thread'[s] = thread[s]
    BY <1>3, CallersAreThreads DEF Pending
  <2> QED BY <1>2, <1>5, <2>1, <2>2, MonitorUnmoved DEF PwmInv, MonitorInv, Pending
<1> QED BY <1>5, <1>6 DEF PwmInv

LEMMA SetGainKeeps ==
    ASSUME PwmInv, NEW t \in Callers, SetGain(t)
    PROVE  PwmInv'
<1>1. t \in Threads /\ t # Monitor BY CallersAreThreads
<1>2. PICK gain \in Gains :
         config' = [config EXCEPT !.pumps =
                      {[cfg EXCEPT !.activity_gain_us =
                           Clip(gain, 0, cfg.pulse_max - cfg.pulse_min)] : cfg \in @}]
  BY DEF SetGain
<1>3. UNCHANGED <<writer, chip, failed, io, lock, monitor, stale, pulse, thread>>
  BY DEF SetGain, outputs, history, gate, believed
<1> DEFINE Tuned(cfg) == [cfg EXCEPT !.activity_gain_us =
                             Clip(gain, 0, cfg.pulse_max - cfg.pulse_min)]
<1>4. /\ config'.channels = config.channels /\ config'.frequency = config.frequency
      /\ DOMAIN config' = {"channels", "pumps", "frequency"}
      /\ config'.pumps = {Tuned(cfg) : cfg \in config.pumps}
  BY <1>2 DEF PwmInv, ControllerTypes
<1>5. ASSUME NEW cfg \in config.pumps
      PROVE  Tuned(cfg) \in PumpType /\ Tuned(cfg).output_channel = cfg.output_channel
  <2>1. cfg \in PumpType BY DEF PwmInv, ControllerTypes
  <2>2. Clip(gain, 0, cfg.pulse_max - cfg.pulse_min) \in Int
    BY <2>1, CommandAssumption DEF Clip, Larger, Smaller, PumpType
  <2> HIDE DEF Clip
  <2> QED BY <2>1, <2>2 DEF PumpType
<1> HIDE DEF Tuned
<1>6. config'.pumps \subseteq PumpType BY ONLY <1>4, <1>5
<1>7. PumpWires(config') = PumpWires(config) BY ONLY <1>4, <1>5 DEF PumpWires
<1>8. Deployed(config') BY <1>4, <1>7 DEF Deployed, PwmInv, ControllerTypes
<1>9. Steady(t) BY <1>1, <1>3, <1>4, <1>6, <1>8 DEF Steady, PwmInv, ControllerTypes
<1>10. ControllerTypes' /\ LockInv' /\ DecidedInv' /\ CentreInv' /\ (Calm' <=> Calm)
  BY <1>9, SteadyStep DEF PwmInv
<1>11. MonitorInv' BY <1>3, <1>10, MonitorUnmoved DEF PwmInv, MonitorInv, Pending
<1> QED BY <1>10, <1>11 DEF PwmInv

LEMMA DisableChannelsKeeps ==
    ASSUME PwmInv, NEW t \in Callers, DisableChannels(t)
    PROVE  PwmInv'
<1>1. t \in Threads BY CallersAreThreads
<1>2. UNCHANGED <<config, writer, chip, failed, io, lock, monitor, stale, pulse, thread>>
  BY DEF DisableChannels, outputs, history, gate, believed
<1>3. Steady(t) BY <1>1, <1>2 DEF Steady, PwmInv, ControllerTypes
<1>4. ControllerTypes' /\ LockInv' /\ DecidedInv' /\ CentreInv' /\ (Calm' <=> Calm)
  BY <1>3, SteadyStep DEF PwmInv
<1>5. MonitorInv' BY <1>2, <1>4, MonitorUnmoved DEF PwmInv, MonitorInv, Pending
<1> QED BY <1>4, <1>5 DEF PwmInv

LEMMA ComputePumpKeeps ==
    ASSUME PwmInv, NEW t \in Threads, ComputePump(t)
    PROVE  PwmInv'
<1> DEFINE own == [w \in PumpWires(config) |->
                     PumpPulse(CHOOSE cfg \in config.pumps : TRUE, pump)]
           counts == [w \in DOMAIN own |-> CountOf(own[w])]
<1>1. thread[t].at = "pump" /\ t # Monitor
  BY DEF ComputePump, PwmInv, MonitorInv, MonitorSteps
<1>2. /\ UNCHANGED <<config, writer, chip, failed, io, lock, monitor, stale>>
      /\ pulse' = Over(pulse, own)
      /\ thread' = [thread EXCEPT ![t] = Idle] \/ thread' = Doing(t, "unlocked", "pump", counts)
  BY DEF ComputePump, outputs, history, gate
<1>3. DOMAIN own = PumpWires(config) OBVIOUS
<1> HIDE DEF own
<1>4. /\ DOMAIN pulse' = Wires
      /\ \A w \in Valves(config) : pulse'[w] = pulse[w]
  BY <1>2, <1>3, DeployedFacts DEF Over, PwmInv, ControllerTypes
<1>5. DOMAIN counts = PumpWires(config) BY <1>3
<1> HIDE DEF counts
<1>6. /\ DOMAIN thread' = Threads /\ DOMAIN thread'[t] = Fields
      /\ \A s \in Threads \ {t} : thread'[s] = thread[s]
      /\ \/ thread'[t].at = "idle"
         \/ /\ thread'[t].at = "unlocked" /\ thread'[t].job = "pump"
            /\ DOMAIN thread'[t].updates = PumpWires(config)
  BY <1>2, <1>5, DoingThread DEF PwmInv, ControllerTypes, Idle, Fields
<1>7. \E file \in Files : Accepted(file) /\ PumpWires(config) \subseteq PumpWires(file.config)
  BY DEF PwmInv, ControllerTypes, Deployed
<1>8. Steady(t) BY <1>1, <1>2, <1>4, <1>6, <1>7 DEF Steady, PwmInv, ControllerTypes
<1>9. ControllerTypes' /\ LockInv' /\ DecidedInv' /\ CentreInv' /\ (Calm' <=> Calm)
  BY <1>8, SteadyStep DEF PwmInv
<1>10. MonitorInv'
  <2>1. thread'[Monitor] = thread[Monitor] BY <1>1, <1>6 DEF Threads
  <2>2. \A s \in Callers : Pending(s)' => thread'[s] = thread[s]
    BY <1>6, CallersAreThreads DEF Pending
  <2> QED BY <1>2, <1>9, <2>1, <2>2, MonitorUnmoved DEF PwmInv, MonitorInv, Pending
<1> QED BY <1>9, <1>10 DEF PwmInv

LEMMA TakeIoKeeps ==
    ASSUME PumpStays, PwmInv, NEW t \in Threads, TakeIo(t)
    PROVE  PwmInv'
<1>1. ControllerTypes' /\ LockInv' /\ DecidedInv' /\ CentreInv' /\ (Calm' <=> Calm)
  BY TakeStep DEF PwmInv
<1>2. /\ thread[t].at \in {"staged", "unlocked"}
      /\ thread'[t].at = "writing" /\ thread'[t].job = thread[t].job
      /\ \A s \in Threads \ {t} : thread'[s] = thread[s]
      /\ UNCHANGED <<monitor, stale>>
  BY DEF TakeIo, PwmInv, ControllerTypes, Fields, gate
<1>3. thread[t].at = "unlocked" => thread[t].job = "pump" /\ t # Monitor
  BY DEF PwmInv, LockInv, MonitorInv, MonitorSteps
<1>4. \A s \in Callers : Pending(s)' => thread'[s].job # "stale"
  BY <1>2, <1>3, CallersAreThreads DEF PwmInv, MonitorInv, Pending
<1>5. CASE t # Monitor
  <2>1. thread'[Monitor] = thread[Monitor] BY <1>2, <1>5 DEF Threads
  <2> QED BY <1>1, <1>2, <1>4, <2>1, MonitorUnmoved DEF PwmInv
<1>6. CASE t = Monitor
  <2>1. thread[Monitor].at = "staged" BY <1>2, <1>3, <1>6
  <2> QED BY <1>1, <1>2, <1>4, <1>6, <2>1 DEF PwmInv, MonitorInv, MonitorSteps, monitor
<1> QED BY <1>1, <1>5, <1>6 DEF PwmInv

\* The monitor is started again.
LEMMA MonitorRestarted ==
    ASSUME ControllerTypes, MonitorInv, NEW t \in Callers, NEW was,
           thread' = Restarted(t, was), StartMonitoring(was), stale' = stale, Calm => Calm'
    PROVE  MonitorInv'
<1>1. t \in Threads /\ t # Monitor /\ Monitor \in Threads
  BY CallersAreThreads DEF Threads
<1>2. /\ thread'[t] = Idle
      /\ \A s \in Threads \ {t, Monitor} : thread'[s] = thread[s]
      /\ was => thread'[Monitor].at = "asleep"
      /\ ~was => thread'[Monitor] = thread[Monitor]
  BY <1>1 DEF Restarted, ControllerTypes, Fields
<1>3. \A s \in Callers : Pending(s)' => thread'[s].job # "stale"
  BY <1>2, CallersAreThreads DEF MonitorInv, Pending, Idle
<1>4. CASE was
  <2>1. running' = TRUE /\ sent' = FALSE BY <1>4 DEF StartMonitoring
  <2> QED BY <1>2, <1>3, <1>4, <2>1 DEF MonitorInv, MonitorSteps
<1>5. CASE ~was
  <2>1. UNCHANGED monitor BY <1>5 DEF StartMonitoring
  <2> QED BY <1>2, <1>3, <1>5, <2>1, MonitorUnmoved
<1> QED BY <1>4, <1>5

\* Whose write it is.
LEMMA WritesOf ==
    ASSUME PwmInv, NEW t \in Threads, thread[t].at = "writing"
    PROVE  IF thread[t].job = "stale" THEN t = Monitor ELSE t # Monitor /\ t \in Callers
BY DEF PwmInv, MonitorInv, Pending, Threads

LEMMA WriteWrites ==
    ASSUME ControllerTypes, NEW t \in Threads, Flushed(t)
    PROVE  Writes(t)
<1> DEFINE counts == Over(writer.counts, thread[t].updates)
<1>1. CASE DOMAIN thread[t].updates = {}
  <2>1. UNCHANGED <<writer, chip, failed>> BY <1>1 DEF Flushed
  <2> QED BY <1>1, <2>1 DEF Writes, ControllerTypes
<1>2. CASE DOMAIN thread[t].updates # {}
  <2>1. writer' = [writer EXCEPT !.counts = counts] /\ chip' = Sent(counts, writer.high)
        /\ failed' = FALSE
    BY <1>2 DEF Flushed
  <2>2. /\ DOMAIN counts = Wires
        /\ \A w \in Wires : counts[w] = IF w \in DOMAIN thread[t].updates
                                       THEN thread[t].updates[w] ELSE writer.counts[w]
    BY DEF Over, ControllerTypes
  <2> HIDE DEF counts
  <2>3. /\ DOMAIN writer' = DOMAIN writer /\ writer'.counts = counts
        /\ writer'.frequency = writer.frequency
        /\ writer'.low = writer.low /\ writer'.high = writer.high
    BY <2>1 DEF ControllerTypes
  <2>4. \A w \in Valves(config) : w \in Wires /\ w \in writer.low..writer.high
    BY DeployedFacts DEF ControllerTypes
  <2>5. DOMAIN chip' = Wires /\ \A w \in Valves(config) : chip'[w] = Registers(counts[w])
    BY <2>1, <2>4 DEF Sent
  <2> QED BY <2>1, <2>2, <2>3, <2>4, <2>5 DEF Writes
<1> QED BY <1>1, <1>2

LEMMA WriteKeeps ==
    ASSUME PumpStays, PwmInv, NEW t \in Threads, Write(t)
    PROVE  PwmInv'
<1> DEFINE job == thread[t].job
<1>1. /\ thread[t].at = "writing" /\ UNCHANGED <<config, pulse, stale>> /\ io' = Free
      /\ lock' = IF job \in {"swapped", "cleanup", "stale"} THEN Free ELSE lock
  BY DEF Write, believed, gate
<1>2. Writes(t) BY WriteWrites DEF Write, PwmInv
<1>3. IF job = "stale" THEN t = Monitor ELSE t # Monitor /\ t \in Callers
  BY <1>1, WritesOf
<1>4. Nested(job) => Within(t) BY <1>1 DEF Within
<1>5. CASE job = "stale"
  <2>1. /\ due' = FALSE /\ sent' = TRUE /\ running' = running
        /\ thread' = [thread EXCEPT ![Monitor] =
                         [Idle EXCEPT !.at = IF running THEN "asleep" ELSE "ended"]]
    BY <1>5 DEF Write, EndPass
  <2>2. /\ DOMAIN thread' = Threads /\ \A s \in Threads : DOMAIN thread'[s] = Fields
        /\ \A s \in Threads \ {Monitor} : thread'[s] = thread[s]
        /\ thread'[Monitor].at = IF running THEN "asleep" ELSE "ended"
    BY <2>1 DEF PwmInv, ControllerTypes, Fields, Idle, Threads
  <2>3. Leaves(t) BY <1>1, <1>3, <1>4, <1>5, <2>2 DEF Leaves, Nested
  <2>4. ControllerTypes' /\ LockInv' /\ DecidedInv' /\ CentreInv' /\ (Calm' <=> Calm)
    BY <1>2, <2>3, LeavesStep DEF PwmInv
  <2>5. Calm' BY <1>4, <1>5, <2>4 DEF PwmInv, CentreInv, Nested
  <2>6. \A s \in Callers : Pending(s)' => thread'[s].job # "stale"
    BY <2>2, CallersAreThreads DEF PwmInv, MonitorInv, Pending
  <2>7. StaleTimeout > 0 BY <1>1, <1>3, <1>5 DEF PwmInv, MonitorInv
  <2>8. MonitorInv' BY <1>1, <2>1, <2>2, <2>5, <2>6, <2>7 DEF PwmInv, MonitorInv, MonitorSteps
  <2> QED BY <2>4, <2>8 DEF PwmInv
<1>6. CASE job = "swapped"
  <2>1. thread' = Restarted(t, thread[t].was) /\ StartMonitoring(thread[t].was)
    BY <1>6 DEF Write
  <2>2. t \in Callers /\ t # Monitor BY <1>3, <1>6
  <2>3. /\ DOMAIN thread' = Threads /\ \A s \in Threads : DOMAIN thread'[s] = Fields
        /\ thread'[t] = Idle
        /\ \A s \in Threads \ {t} :
              thread'[s] = thread[s] \/ (s = Monitor /\ thread'[s].at = "asleep")
    BY <2>1, <2>2 DEF Restarted, PwmInv, ControllerTypes, Fields, Idle, Threads
  <2>4. Leaves(t) BY <1>1, <1>4, <1>6, <2>3 DEF Leaves, Nested, Idle
  <2>5. ControllerTypes' /\ LockInv' /\ DecidedInv' /\ CentreInv' /\ (Calm' <=> Calm)
    BY <1>2, <2>4, LeavesStep DEF PwmInv
  <2>6. MonitorInv' BY <1>1, <2>1, <2>2, <2>5, MonitorRestarted DEF PwmInv
  <2> QED BY <2>5, <2>6 DEF PwmInv
<1>7. CASE job \notin {"stale", "swapped"}
  <2>1. UNCHANGED monitor
    BY <1>7 DEF Write
  <2>2. \/ job = "reload" /\ thread' = [thread EXCEPT ![t] = [@ EXCEPT !.at = "parsing"]]
        \/ job = "cleanup" /\ thread' = [thread EXCEPT ![t] = [@ EXCEPT !.at = "exited"]]
        \/ job \notin {"reload", "cleanup"} /\ thread' = [thread EXCEPT ![t] = Idle]
    BY <1>7 DEF Write
  <2>3. /\ DOMAIN thread' = Threads /\ \A s \in Threads : DOMAIN thread'[s] = Fields
        /\ \A s \in Threads \ {t} : thread'[s] = thread[s]
        /\ \/ thread'[t].at \in {"idle", "exited"}
           \/ job = "reload" /\ thread'[t].at = "parsing" /\ thread'[t].job = "reload"
    BY <2>2 DEF PwmInv, ControllerTypes, Fields, Idle
  <2>4. Leaves(t) BY <1>1, <1>4, <1>7, <2>3 DEF Leaves, Nested
  <2>5. ControllerTypes' /\ LockInv' /\ DecidedInv' /\ CentreInv' /\ (Calm' <=> Calm)
    BY <1>2, <2>4, LeavesStep DEF PwmInv
  <2>6. thread'[Monitor] = thread[Monitor] BY <1>3, <1>7, <2>3 DEF Threads
  <2>7. \A s \in Callers : Pending(s)' => thread'[s].job # "stale"
    BY <2>3, CallersAreThreads DEF PwmInv, MonitorInv, Pending
  <2>8. MonitorInv' BY <1>1, <2>1, <2>5, <2>6, <2>7, MonitorUnmoved DEF PwmInv
  <2> QED BY <2>5, <2>8 DEF PwmInv
<1> QED BY <1>5, <1>6, <1>7

LEMMA FailureWrites ==
    ASSUME ControllerTypes, NEW t \in Threads, failed' = TRUE, thread'[t].at # "parsing",
           writer' = [writer EXCEPT !.counts = Over(writer.counts, thread[t].updates)],
           NEW last, chip' = Sent(Over(writer.counts, thread[t].updates), last)
    PROVE  Writes(t)
<1> DEFINE counts == Over(writer.counts, thread[t].updates)
<1>1. /\ DOMAIN counts = Wires
      /\ \A w \in Wires : counts[w] = IF w \in DOMAIN thread[t].updates
                                     THEN thread[t].updates[w] ELSE writer.counts[w]
  BY DEF Over, ControllerTypes
<1>2. writer' = [writer EXCEPT !.counts = counts] /\ chip' = Sent(counts, last) OBVIOUS
<1> HIDE DEF counts
<1>3. /\ DOMAIN writer' = DOMAIN writer /\ writer'.counts = counts
      /\ writer'.frequency = writer.frequency
      /\ writer'.low = writer.low /\ writer'.high = writer.high
  BY <1>2 DEF ControllerTypes
<1>4. \A w \in Valves(config) : w \in Wires
  BY DeployedFacts DEF ControllerTypes
<1>5. /\ DOMAIN chip' = Wires
      /\ \A w \in Valves(config) : chip'[w] = Registers(counts[w]) \/ chip'[w] = chip[w]
  BY <1>2, <1>4 DEF Sent
<1> QED BY <1>1, <1>3, <1>4, <1>5 DEF Writes

LEMMA WriteFailsKeeps ==
    ASSUME PumpStays, PwmInv, NEW t \in Threads, WriteFails(t)
    PROVE  PwmInv'
<1> DEFINE job == thread[t].job
<1>1. /\ thread[t].at = "writing" /\ UNCHANGED <<config, pulse, stale>> /\ io' = Free
      /\ lock' = IF Nested(job) THEN Free ELSE lock
      /\ failed' = TRUE
      /\ writer' = [writer EXCEPT !.counts = Over(writer.counts, thread[t].updates)]
  BY DEF WriteFails, believed, gate
<1>2. PICK last : chip' = Sent(Over(writer.counts, thread[t].updates), last)
  BY DEF WriteFails
<1>3. IF job = "stale" THEN t = Monitor ELSE t # Monitor /\ t \in Callers
  BY <1>1, WritesOf
<1>4. Nested(job) => Within(t) BY <1>1 DEF Within
<1>5. CASE job \in {"reload", "swapped"}
  <2>1. thread' = Restarted(t, thread[t].was) /\ StartMonitoring(thread[t].was)
    BY <1>5 DEF WriteFails
  <2>2. t \in Callers /\ t # Monitor BY <1>3, <1>5
  <2>3. /\ DOMAIN thread' = Threads /\ \A s \in Threads : DOMAIN thread'[s] = Fields
        /\ thread'[t] = Idle
        /\ \A s \in Threads \ {t} :
              thread'[s] = thread[s] \/ (s = Monitor /\ thread'[s].at = "asleep")
    BY <2>1, <2>2 DEF Restarted, PwmInv, ControllerTypes, Fields, Idle, Threads
  <2>4. Leaves(t) BY <1>1, <1>4, <1>5, <2>3 DEF Leaves, Nested, Idle
  <2>5. Writes(t) BY <1>1, <1>2, <2>3, FailureWrites DEF PwmInv, Idle
  <2>6. ControllerTypes' /\ LockInv' /\ DecidedInv' /\ CentreInv' /\ (Calm' <=> Calm)
    BY <2>4, <2>5, LeavesStep DEF PwmInv
  <2>7. MonitorInv' BY <1>1, <2>1, <2>2, <2>6, MonitorRestarted DEF PwmInv
  <2> QED BY <2>6, <2>7 DEF PwmInv
<1>6. CASE job \notin {"reload", "swapped"}
  <2>1. UNCHANGED monitor
    BY <1>6 DEF WriteFails
  <2>2. \/ job = "stale" /\ thread' = [thread EXCEPT ![t] = [Idle EXCEPT !.at = "dead"]]
        \/ job = "cleanup" /\ thread' = [thread EXCEPT ![t] = [@ EXCEPT !.at = "exited"]]
        \/ job \notin {"stale", "cleanup"} /\ thread' = [thread EXCEPT ![t] = Idle]
    BY <1>6 DEF WriteFails
  <2>3. /\ DOMAIN thread' = Threads /\ \A s \in Threads : DOMAIN thread'[s] = Fields
        /\ \A s \in Threads \ {t} : thread'[s] = thread[s]
        /\ thread'[t].at \in {"idle", "exited", "dead"}
        /\ job = "stale" => thread'[t].at = "dead"
    BY <2>2 DEF PwmInv, ControllerTypes, Fields, Idle
  <2>4. Leaves(t) BY <1>1, <1>4, <2>3 DEF Leaves
  <2>5. Writes(t) BY <1>1, <1>2, <2>3, FailureWrites DEF PwmInv
  <2>6. ControllerTypes' /\ LockInv' /\ DecidedInv' /\ CentreInv' /\ (Calm' <=> Calm)
    BY <2>4, <2>5, LeavesStep DEF PwmInv
  <2>7. \A s \in Callers : Pending(s)' => thread'[s].job # "stale"
    BY <2>3, CallersAreThreads DEF PwmInv, MonitorInv, Pending
  <2>8. MonitorInv'
    <3>1. CASE job = "stale"
      <4>1. thread'[Monitor].at = "dead" /\ ~sent BY <1>1, <1>3, <2>3, <3>1 DEF PwmInv, MonitorInv
      <4> QED BY <1>1, <2>1, <2>7, <4>1 DEF PwmInv, MonitorInv, MonitorSteps, monitor
    <3>2. CASE job # "stale"
      <4>1. thread'[Monitor] = thread[Monitor] BY <1>3, <2>3, <3>2 DEF Threads
      <4> QED BY <1>1, <2>1, <2>6, <2>7, <4>1, MonitorUnmoved DEF PwmInv
    <3> QED BY <3>1, <3>2
  <2> QED BY <2>6, <2>8 DEF PwmInv
<1> QED BY <1>5, <1>6

LEMMA StopKeeps ==
    ASSUME PwmInv, NEW t \in Callers, NEW job \in {"reload", "cleanup"},
           thread[t].at = "idle", StopMonitoring(t, job),
           UNCHANGED <<config, writer, chip, failed, lock, io, pulse, stale>>
    PROVE  PwmInv'
<1>1. t \in Threads /\ t # Monitor BY CallersAreThreads
<1>2. /\ running' = FALSE /\ UNCHANGED <<sent, verdict, due>>
      /\ thread' = [thread EXCEPT ![t] = [@ EXCEPT !.at = "stopping", !.job = job,
                                                   !.was = running]]
  BY DEF StopMonitoring
<1>3. /\ DOMAIN thread' = Threads /\ DOMAIN thread'[t] = Fields
      /\ \A s \in Threads \ {t} : thread'[s] = thread[s]
      /\ thread'[t].at = "stopping" /\ thread'[t].job = job
  BY <1>1, <1>2 DEF PwmInv, ControllerTypes, Fields
<1>4. Steady(t) BY <1>1, <1>3 DEF Steady, PwmInv, ControllerTypes
<1>5. ControllerTypes' /\ LockInv' /\ DecidedInv' /\ CentreInv'
  BY <1>4, SteadyStep DEF PwmInv
<1>6. MonitorInv'
  <2>1. thread'[Monitor] = thread[Monitor] BY <1>1, <1>3 DEF Threads
  <2>2. \A s \in Callers : Pending(s)' => thread'[s] = thread[s]
    BY <1>3, CallersAreThreads DEF Pending
  <2> QED BY <1>2, <2>1, <2>2 DEF PwmInv, MonitorInv, Pending
<1> QED BY <1>5, <1>6 DEF PwmInv

LEMMA NeutraliseKeeps ==
    ASSUME PwmInv, NEW t \in Threads, Neutralise(t)
    PROVE  PwmInv'
<1> DEFINE job == thread[t].job
<1>1. /\ thread[t].at = "stopping" /\ lock = Free /\ lock' = t
      /\ UNCHANGED <<config, writer, chip, failed, io, monitor, stale>>
      /\ Reset(config, writer.frequency, TRUE, t, job)
  BY DEF Neutralise, outputs, history
<1>2. t # Monitor /\ job \in {"reload", "cleanup"}
  BY <1>1 DEF PwmInv, LockInv, MonitorInv, MonitorSteps
<1>3. Stages(t, job) /\ Calm'
  <2>1. TRUE \in BOOLEAN /\ job \in {"reset", "reload", "cleanup", "stale"} BY <1>2
  <2>2. thread[t].at \notin {"staged", "writing", "parsing"} BY <1>1
  <2> QED BY <1>1, <2>1, <2>2, ResetStages, Zenon DEF PwmInv
<1>4. ControllerTypes' /\ LockInv' /\ DecidedInv' /\ CentreInv'
  BY <1>3, StagesStep DEF PwmInv
<1>5. MonitorInv'
  <2>1. /\ thread'[Monitor] = thread[Monitor] /\ thread'[t].job = job
        /\ \A s \in Callers \ {t} : thread'[s] = thread[s]
    BY <1>2, <1>3, CallersAreThreads DEF Stages, Threads
  <2> QED BY <1>1, <1>2, <1>3, <2>1, MonitorUnmoved DEF PwmInv, MonitorInv, Pending
<1> QED BY <1>4, <1>5 DEF PwmInv

LEMMA ReadConfigKeeps ==
    ASSUME PumpStays, PwmInv, NEW t \in Threads, NEW file \in Files, ReadConfig(t, file)
    PROVE  PwmInv'
<1>1. thread[t].at = "parsing" BY DEF ReadConfig
<1>2. t # Monitor /\ t \in Callers
  BY <1>1 DEF PwmInv, MonitorInv, MonitorSteps, Threads
<1>4. CASE GivesUp(t) /\ failed' = failed
  <2>1. ControllerTypes' /\ LockInv' /\ DecidedInv' /\ CentreInv' /\ (Calm' <=> Calm)
    BY <1>1, <1>4, GivesUpStep DEF PwmInv
  <2>2. MonitorInv' BY <1>2, <1>4, <2>1, MonitorRestarted DEF GivesUp, gate, PwmInv
  <2> QED BY <2>1, <2>2 DEF PwmInv
<1>5. CASE /\ Accepted(file) /\ config' = file.config /\ writer' = FreshWriter(file.config, config.pumps)
           /\ Reset(file.config, file.config.frequency, TRUE, t, "swapped")
           /\ UNCHANGED <<chip, stale, lock, io, monitor>>
  <2>1. ControllerTypes' /\ LockInv' /\ DecidedInv' /\ CentreInv' /\ Calm'
    BY <1>1, <1>5, SwapStep, Zenon DEF PwmInv
  <2>2. thread' = Doing(t, "staged", "swapped", thread'[t].updates)
    <3> DEFINE counts == [w \in DOMAIN Centres(file.config) \cup PumpWires(file.config) |->
                           Count(Over(Over(pulse, Centres(file.config)),
                                      PumpFloor(file.config))[w], file.config.frequency)]
    <3>1. thread' = Doing(t, "staged", "swapped", counts) BY <1>5 DEF Reset
    <3> HIDE DEF counts
    <3> QED BY <3>1, DoingThread DEF PwmInv
  <2>3. /\ thread'[Monitor] = thread[Monitor] /\ thread'[t].job = "swapped"
        /\ \A s \in Callers \ {t} : thread'[s] = thread[s]
    BY <1>2, <2>2, DoingThread, CallersAreThreads DEF PwmInv, Threads
  <2>4. MonitorInv' BY <1>5, <2>1, <2>3, MonitorUnmoved DEF PwmInv, MonitorInv, Pending
  <2> QED BY <2>1, <2>4 DEF PwmInv
<1>6. GivesUp(t) => failed' = failed BY DEF GivesUp, history
<1> QED BY <1>4, <1>5, <1>6 DEF ReadConfig

LEMMA WakeKeeps ==
    ASSUME PwmInv, Wake
    PROVE  PwmInv'
<1>1. /\ UNCHANGED <<config, writer, chip, failed, lock, io, pulse, stale, running, sent, due>>
      /\ thread[Monitor].at = "asleep" /\ due
      /\ \E m \in {"rating", "checking"} : thread' = [thread EXCEPT ![Monitor].at = m]
  BY DEF Wake, At, Goes, outputs, believed, history
<1>2. /\ DOMAIN thread' = Threads /\ DOMAIN thread'[Monitor] = Fields
      /\ \A s \in Threads \ {Monitor} : thread'[s] = thread[s]
      /\ thread'[Monitor].at \in {"rating", "checking"}
  BY <1>1 DEF PwmInv, ControllerTypes, Fields, Threads
<1>3. Steady(Monitor) BY <1>1, <1>2 DEF Steady, PwmInv, ControllerTypes, Threads
<1>4. ControllerTypes' /\ LockInv' /\ DecidedInv' /\ CentreInv' /\ (Calm' <=> Calm)
  BY <1>3, SteadyStep DEF PwmInv
<1>5. \A s \in Callers : Pending(s)' => thread'[s].job # "stale"
  BY <1>2, CallersAreThreads DEF PwmInv, MonitorInv, Pending
<1>6. MonitorInv' BY <1>1, <1>2, <1>4, <1>5 DEF PwmInv, MonitorInv, MonitorSteps
<1> QED BY <1>4, <1>6 DEF PwmInv

LEMMA RateKeeps ==
    ASSUME PwmInv, Rate
    PROVE  PwmInv'
<1>1. /\ UNCHANGED <<config, writer, chip, failed, lock, io, pulse, stale, running, sent, due>>
      /\ thread[Monitor].at = "rating"
      /\ thread' = [thread EXCEPT ![Monitor].at = "checking"]
  BY DEF Rate, At, Goes, outputs, believed, history
<1>2. /\ DOMAIN thread' = Threads /\ DOMAIN thread'[Monitor] = Fields
      /\ \A s \in Threads \ {Monitor} : thread'[s] = thread[s]
      /\ thread'[Monitor].at = "checking"
  BY <1>1 DEF PwmInv, ControllerTypes, Fields, Threads
<1>3. Steady(Monitor) BY <1>1, <1>2 DEF Steady, PwmInv, ControllerTypes, Threads
<1>4. ControllerTypes' /\ LockInv' /\ DecidedInv' /\ CentreInv' /\ (Calm' <=> Calm)
  BY <1>3, SteadyStep DEF PwmInv
<1>5. \A s \in Callers : Pending(s)' => thread'[s].job # "stale"
  BY <1>2, CallersAreThreads DEF PwmInv, MonitorInv, Pending
<1>6. MonitorInv' BY <1>1, <1>2, <1>4, <1>5 DEF PwmInv, MonitorInv, MonitorSteps
<1> QED BY <1>4, <1>6 DEF PwmInv

LEMMA CheckStaleKeeps ==
    ASSUME PwmInv, CheckStale
    PROVE  PwmInv'
<1>1. /\ UNCHANGED <<config, writer, chip, failed, lock, io, pulse, stale, running>>
      /\ thread[Monitor].at = "checking"
  BY DEF CheckStale, At, outputs, believed, history, gate
<1>2. \/ /\ IsStale /\ ~sent /\ ~sent'
         /\ thread' = [thread EXCEPT ![Monitor].at = "stale"]
      \/ /\ sent' = (sent /\ (StaleTimeout = 0 \/ IsStale))
         /\ thread' = [thread EXCEPT ![Monitor] =
                          [Idle EXCEPT !.at = IF running THEN "asleep" ELSE "ended"]]
  BY DEF CheckStale, Goes, EndPass
<1>3. /\ DOMAIN thread' = Threads /\ DOMAIN thread'[Monitor] = Fields
      /\ \A s \in Threads \ {Monitor} : thread'[s] = thread[s]
      /\ thread'[Monitor].at \in {"stale", "asleep", "ended"}
      /\ thread'[Monitor].at = "stale" => IsStale /\ ~sent'
      /\ thread'[Monitor].at = "ended" => ~running
      /\ sent' => sent /\ (StaleTimeout = 0 \/ IsStale)
  <2>1. CASE /\ IsStale /\ ~sent /\ ~sent'
             /\ thread' = [thread EXCEPT ![Monitor].at = "stale"]
    BY <2>1 DEF PwmInv, ControllerTypes, Fields, Threads
  <2>2. CASE /\ sent' = (sent /\ (StaleTimeout = 0 \/ IsStale))
             /\ thread' = [thread EXCEPT ![Monitor] =
                              [Idle EXCEPT !.at = IF running THEN "asleep" ELSE "ended"]]
    <3>1. sent' => sent /\ (StaleTimeout = 0 \/ IsStale) BY <2>2
    <3>2. thread'[Monitor] = [Idle EXCEPT !.at = IF running THEN "asleep" ELSE "ended"]
      BY <2>2 DEF PwmInv, ControllerTypes, Threads
    <3>3. /\ DOMAIN thread'[Monitor] = Fields
          /\ thread'[Monitor].at = IF running THEN "asleep" ELSE "ended"
      BY <3>2 DEF Idle, Fields
    <3>4. DOMAIN thread' = Threads /\ \A s \in Threads \ {Monitor} : thread'[s] = thread[s]
      BY <2>2 DEF PwmInv, ControllerTypes
    <3> QED BY <3>1, <3>3, <3>4
  <2> QED BY <1>2, <2>1, <2>2
<1>4. Steady(Monitor) BY <1>1, <1>3 DEF Steady, PwmInv, ControllerTypes, Threads
<1>5. ControllerTypes' /\ LockInv' /\ DecidedInv' /\ CentreInv' /\ (Calm' <=> Calm)
  BY <1>4, SteadyStep DEF PwmInv
<1>6. \A s \in Callers : Pending(s)' => thread'[s].job # "stale"
  BY <1>3, CallersAreThreads DEF PwmInv, MonitorInv, Pending
<1>7. sent' => StaleTimeout > 0 /\ stale > 1 /\ sent
  <2>1. StaleTimeout \in Nat /\ stale \in Nat BY MonitorAssumption DEF PwmInv, MonitorInv
  <2>2. sent' => StaleTimeout > 0 /\ sent BY <1>3 DEF PwmInv, MonitorInv
  <2> QED BY <1>3, <2>1, <2>2 DEF IsStale
<1>8. sent' /\ running' => Calm'
  <2>1. sent' => stale # 0 /\ stale # 1 BY <1>7 DEF PwmInv, MonitorInv
  <2> QED BY <1>1, <1>5, <1>7, <2>1 DEF PwmInv, MonitorInv
<1>9. MonitorInv'
  BY <1>1, <1>3, <1>6, <1>7, <1>8 DEF PwmInv, MonitorInv, MonitorSteps, IsStale
<1> QED BY <1>5, <1>9 DEF PwmInv

LEMMA StaleResetKeeps ==
    ASSUME PwmInv, StaleReset
    PROVE  PwmInv'
<1>1. /\ thread[Monitor].at = "stale" /\ lock = Free /\ lock' = Monitor
      /\ UNCHANGED <<config, writer, chip, failed, io, monitor, stale>>
      /\ Reset(config, writer.frequency, FALSE, Monitor, "stale")
  BY DEF StaleReset, At, outputs, history
<1>2. Monitor \in Threads BY DEF Threads
<1>3. Stages(Monitor, "stale") /\ Calm'
  <2>1. FALSE \in BOOLEAN /\ "stale" \in {"reset", "reload", "cleanup", "stale"} OBVIOUS
  <2>2. thread[Monitor].at \notin {"staged", "writing", "parsing"} BY <1>1
  <2> QED BY <1>1, <1>2, <2>1, <2>2, ResetStages, Zenon DEF PwmInv
<1>4. ControllerTypes' /\ LockInv' /\ DecidedInv' /\ CentreInv'
  BY <1>3, StagesStep DEF PwmInv
<1>5. MonitorInv'
  <2>1. /\ thread'[Monitor].at = "staged" /\ thread'[Monitor].job = "stale"
        /\ \A s \in Callers : thread'[s] = thread[s]
    BY <1>3, CallersAreThreads DEF Stages
  <2> QED BY <1>1, <1>3, <2>1 DEF PwmInv, MonitorInv, MonitorSteps, Pending, monitor
<1> QED BY <1>4, <1>5 DEF PwmInv

LEMMA PeriodPassesKeeps ==
    ASSUME PwmInv, PeriodPasses
    PROVE  PwmInv'
<1>1. /\ UNCHANGED <<config, writer, chip, failed, lock, io, pulse, thread, running, sent>>
      /\ thread[Monitor].at \in {"asleep", "ended", "dead"} /\ ~due
      /\ due' = (thread[Monitor].at = "asleep")
      /\ stale' = Smaller(stale + 1, StaleTimeout + 1)
  BY DEF PeriodPasses, At, outputs, history
<1>2. Steady(Monitor) BY <1>1 DEF Steady, PwmInv, ControllerTypes, Threads
<1>3. ControllerTypes' /\ LockInv' /\ DecidedInv' /\ CentreInv' /\ (Calm' <=> Calm)
  BY <1>2, SteadyStep DEF PwmInv
<1>4. stale \in Nat /\ StaleTimeout \in Nat BY MonitorAssumption DEF PwmInv, MonitorInv
<1>5. stale' \in Nat /\ (stale = 0 => stale' = 1) BY <1>1, <1>4 DEF Smaller
<1>6. sent /\ running => Calm \/ stale = 0 BY <1>1 DEF PwmInv, MonitorInv
<1>7. sent /\ running => due' BY <1>1 DEF PwmInv, MonitorInv
<1>8. MonitorInv'
  BY <1>1, <1>3, <1>5, <1>6, <1>7 DEF PwmInv, MonitorInv, MonitorSteps, Pending
<1> QED BY <1>3, <1>8 DEF PwmInv

LEMMA StandingStillKeeps ==
    ASSUME PwmInv, UNCHANGED pwmVars
    PROVE  PwmInv'
<1>1. UNCHANGED <<config, writer, chip, failed, lock, io, pulse, thread, monitor, stale>>
  BY DEF pwmVars, outputs, believed, gate, history
<1>2. Steady(Monitor) BY <1>1 DEF Steady, PwmInv, ControllerTypes, Threads
<1>3. ControllerTypes' /\ LockInv' /\ DecidedInv' /\ CentreInv' /\ (Calm' <=> Calm)
  BY <1>2, SteadyStep DEF PwmInv
<1>4. MonitorInv' BY <1>1, <1>3, MonitorUnmoved DEF PwmInv, MonitorInv, Pending
<1> QED BY <1>3, <1>4 DEF PwmInv

LEMMA PwmInit_PwmInv == PwmInit => PwmInv
<1> SUFFICES ASSUME PwmInit PROVE PwmInv
  OBVIOUS
<1> DEFINE c == FirstFile.config
           pulses == [w \in Wires |-> IF w \in DOMAIN Centres(c) THEN Centres(c)[w]
                                      ELSE IF w \in PumpWires(c) THEN PumpFloor(c)[w] ELSE 0]
           counts == [w \in Wires |-> Count(pulses[w], c.frequency)]
<1>1. /\ config = c /\ writer = [FreshWriter(c, c.pumps) EXCEPT !.counts = counts]
      /\ chip = [w \in Wires |-> Registers(counts[w])] /\ pulse = pulses
      /\ lock = Free /\ io = Free /\ failed = FALSE
      /\ running = Watches /\ sent = FALSE /\ due = FALSE /\ stale = 0
  BY DEF PwmInit
<1>2. Accepted(FirstFile) /\ Typed(c) /\ FirstFile \in Files BY FileAssumption DEF Accepted
<1>3. Deployed(c) BY <1>2 DEF Deployed
<1>4. /\ DOMAIN writer = {"low", "high", "frequency", "counts"}
      /\ writer.frequency = c.frequency /\ writer.counts = counts
      /\ \A w \in Valves(c) : w \in writer.low..writer.high
  <2>1. LET new == FreshWriter(c, c.pumps)
        IN /\ DOMAIN new = {"low", "high", "frequency", "counts"}
           /\ new.frequency = c.frequency
           /\ \A w \in Valves(c) : w \in new.low..new.high
    BY <1>2, <1>3, FreshWriterCovers
  <2> HIDE DEF counts
  <2> QED BY <1>1, <2>1
<1>5. \A w \in Valves(c) : w \in Wires BY <1>3, DeployedFacts
<1>6. \A w \in Valves(c) :
         /\ pulse[w] = Centres(c)[w]
         /\ writer.counts[w] = CountOf(pulse[w])
         /\ chip[w] = Registers(writer.counts[w])
  BY <1>1, <1>4, <1>5 DEF Centres, CountOf
<1>7. DOMAIN writer.counts = Wires /\ DOMAIN chip = Wires /\ DOMAIN pulse = Wires
  BY <1>1, <1>4
<1>8. /\ DOMAIN thread = Threads /\ \A t \in Threads : DOMAIN thread[t] = Fields
      /\ \A t \in Threads : thread[t].at \in {"idle", "asleep", "ended"} /\ thread[t].job = "none"
      /\ thread[Monitor].at \in {"asleep", "ended"}
      /\ thread[Monitor].at = "ended" => ~Watches
  <2>1. thread = [t \in Threads |-> IF t = Monitor /\ Watches THEN [Idle EXCEPT !.at = "asleep"]
                                    ELSE IF t = Monitor THEN [Idle EXCEPT !.at = "ended"]
                                    ELSE Idle]
    BY DEF PwmInit
  <2> QED BY <2>1 DEF Idle, Fields, Threads
<1> HIDE DEF pulses, counts
<1>9. ControllerTypes BY <1>1, <1>2, <1>3, <1>4, <1>7, <1>8 DEF ControllerTypes, Typed
<1>10. LockInv BY <1>8 DEF LockInv, Within, Nested
<1>11. DecidedInv BY <1>1, <1>6, <1>8 DEF DecidedInv, Pending
<1>12. CentreInv BY <1>8 DEF CentreInv, Within, Nested
<1>13. MonitorInv
  <2>1. ~sent /\ (running => thread[Monitor].at # "ended")
    BY <1>1, <1>8
  <2>2. \A t \in Callers : ~Pending(t) BY <1>8, CallersAreThreads DEF Pending
  <2>3. stale \in Nat BY <1>1
  <2> QED BY <1>8, <2>1, <2>2, <2>3 DEF MonitorInv, MonitorSteps
<1> QED BY <1>9, <1>10, <1>11, <1>12, <1>13 DEF PwmInv

-----------------------------------------------------------------------------
(* Which way a valve is driven. *)

\* What a ramp remembers of a valve is never inside its dead band, and no valve is driven
\* against its command.
SideInv ==
    /\ values \in [Wires -> Int] /\ ramp \in [Wires -> [pulse : Int, age : Nat]]
    /\ \A w \in Valves(config) :
          LET cfg == On(config, w)
          IN /\ cfg.ramp_enable /\ cfg.ramp_skip_deadband => Settled(cfg, ramp[w].pulse)
             /\ (~cfg.toggleable /\ (cfg.ramp_skip_deadband \/ ~cfg.ramp_enable)) =>
                    ~Against(cfg, values[w], pulse[w])

LEMMA DeployedCalibrated ==
    ASSUME AllCalibrated, NEW c, Deployed(c), NEW w \in Valves(c)
    PROVE  Calibrated(On(c, w))
<1>1. PICK file \in Files : Accepted(file) /\ c.channels = file.config.channels
  BY DEF Deployed
<1>2. On(c, w) \in ChannelsOf(file.config) BY <1>1, DeployedFacts DEF ChannelsOf
<1> QED BY <1>1, <1>2 DEF AllCalibrated

LEMMA NoneAgainstZero ==
    ASSUME NEW cfg \in ChannelType, NEW p PROVE ~Against(cfg, 0, p)
<1>1. 0 * cfg.direction = 0 BY ZeroTimes DEF ChannelType
<1>2. Sign(0) = 0 BY DEF Sign
<1>3. Sign(p - cfg.center) \in Int BY DEF Sign
<1>4. 0 * Sign(p - cfg.center) = 0 BY <1>3, ZeroTimes
<1> QED BY <1>1, <1>2, <1>4 DEF Against

\* No valve is told anything.
LEMMA SideUntold ==
    ASSUME SideInv, config'.channels = config.channels, values' = values,
           ramp' \in [Wires -> [pulse : Int, age : Nat]],
           \A w \in Wires : ramp'[w].pulse = ramp[w].pulse,
           ControllerTypes, \A w \in Valves(config) : pulse'[w] = pulse[w]
    PROVE  SideInv'
<1>1. Valves(config') = Valves(config) /\ \A w : On(config', w) = On(config, w)
  BY SameValves
<1>2. \A w \in Valves(config) : w \in Wires BY DeployedFacts DEF ControllerTypes
<1> QED BY <1>1, <1>2 DEF SideInv

LEMMA SideReset ==
    ASSUME SideInv, NEW c, Deployed(c), config'.channels = c.channels,
           NEW frequency, NEW with_pump, NEW t, NEW job, Reset(c, frequency, with_pump, t, job)
    PROVE  SideInv'
<1>1. /\ values' = [w \in Wires |-> 0]
      /\ ramp' = Over(ramp, [w \in DOMAIN Centres(c) |-> [pulse |-> Centres(c)[w], age |-> 0]])
  BY DEF Reset
<1>2. Valves(config') = Valves(c) /\ \A w : On(config', w) = On(c, w)
  BY DEF Valves, On, NameOf
<1>3. ASSUME NEW w \in Valves(c)
      PROVE  w \in Wires /\ On(c, w) \in ChannelType /\ Centres(c)[w] = On(c, w).center
             /\ On(c, w).center \in Int
  BY <1>3, DeployedFacts DEF Centres, ChannelType
<1>4. DOMAIN Centres(c) = Valves(c) BY DEF Centres
<1>5. /\ ramp' \in [Wires -> [pulse : Int, age : Nat]]
      /\ \A w \in Valves(c) : ramp'[w].pulse = On(c, w).center
  BY <1>1, <1>3, <1>4 DEF Over, SideInv
<1>6. ASSUME NEW w \in Valves(c)
      PROVE  Settled(On(c, w), ramp'[w].pulse) /\ ~Against(On(c, w), values'[w], pulse'[w])
  <2>1. Settled(On(c, w), ramp'[w].pulse) BY <1>3, <1>5, <1>6 DEF Settled
  <2>2. values'[w] = 0 BY <1>1, <1>3, <1>6
  <2>3. ~Against(On(c, w), 0, pulse'[w]) BY <1>3, <1>6, NoneAgainstZero
  <2> QED BY <2>1, <2>2, <2>3
<1>7. values' \in [Wires -> Int] BY <1>1
<1> QED BY <1>2, <1>5, <1>6, <1>7 DEF SideInv

LEMMA ClipStaysInteger ==
    ASSUME NEW x \in Int, NEW low \in Int, NEW high \in Int PROVE Clip(x, low, high) \in Int
BY DEF Clip, Larger, Smaller

\* What update_named decides: the values it was asked for, and for every valve it drives a pulse
\* within the dither of the next step of the ramp.
LEMMA NamedDecides ==
    ASSUME PwmInv, SideInv, NEW t \in Callers, NEW cmd \in Commands,
           UpdateNamed(t, cmd), ~Refused(t)
    PROVE  \E new \in [Wires -> Int] : \E out :
              LET bases == [w \in Driven |->
                              Undithered(On(config, w), new[w], ramp[w].pulse, ramp[w].age)]
              IN /\ config' = config /\ values' = new
                 /\ ramp' = [w \in Wires |->
                               IF w \in Driven /\ On(config, w).ramp_enable
                               THEN [pulse |-> bases[w], age |-> 0] ELSE ramp[w]]
                 /\ DOMAIN out = Driven
                 /\ \A w \in Driven : out[w] \in Dithered(On(config, w), bases[w])
                 /\ Decides(t, "update", out)
<1> DEFINE new == [w \in Wires |->
                     IF w \in Valves(config) /\ NameOf(config, w) \in DOMAIN cmd
                     THEN Clip(cmd[NameOf(config, w)], -Unit, Unit)
                     ELSE IF UnsetToZero /\ w \in Valves(config) THEN 0 ELSE values[w]]
           bases == [w \in Driven |->
                       Undithered(On(config, w), new[w], ramp[w].pulse, ramp[w].age)]
           swings == [w \in Driven |-> Dithered(On(config, w), bases[w])]
<1>1. /\ config' = config /\ values' = new
      /\ ramp' = [w \in Wires |->
                    IF w \in Driven /\ On(config, w).ramp_enable
                    THEN [pulse |-> bases[w], age |-> 0] ELSE ramp[w]]
  BY DEF UpdateNamed
<1>2. new \in [Wires -> Int]
  <2> SUFFICES ASSUME NEW w \in Wires PROVE new[w] \in Int
    OBVIOUS
  <2>1. values[w] \in Int BY DEF SideInv
  <2>2. NameOf(config, w) \in DOMAIN cmd => cmd[NameOf(config, w)] \in Int
    BY CommandAssumption
  <2>3. Unit \in Int /\ -Unit \in Int BY PulseAssumption
  <2>4. NameOf(config, w) \in DOMAIN cmd => Clip(cmd[NameOf(config, w)], -Unit, Unit) \in Int
    BY <2>2, <2>3, ClipStaysInteger
  <2>5. CASE w \in Valves(config) /\ NameOf(config, w) \in DOMAIN cmd BY <2>4, <2>5
  <2>6. CASE ~(w \in Valves(config) /\ NameOf(config, w) \in DOMAIN cmd) BY <2>1, <2>6
  <2> QED BY <2>5, <2>6
<1>3. PICK out \in [Driven -> UNION {swings[w] : w \in Driven}] :
         /\ \A w \in Driven : out[w] \in swings[w]
         /\ WithPump(Asked(new), Over(pulse, out), out, t, "update")
  BY DEF UpdateNamed
<1>4. Decides(t, "update", out)
  <2>1. DOMAIN out \subseteq Valves(config) BY DrivenAreValves
  <2> HIDE DEF new, swings
  <2> QED BY <1>3, <2>1, CallersAreThreads, PumpDecides, Zenon DEF PwmInv
<1>5. DOMAIN out = Driven /\ \A w \in Driven : out[w] \in Dithered(On(config, w), bases[w])
  BY <1>3
<1> HIDE DEF new
<1> WITNESS new \in [Wires -> Int]
<1> WITNESS out
<1> QED BY <1>1, <1>4, <1>5

LEMMA SideUpdateNamed ==
    ASSUME AllCalibrated, PwmInv, SideInv, NEW t \in Callers, NEW cmd \in Commands,
           UpdateNamed(t, cmd), ~Refused(t)
    PROVE  SideInv'
<1>1. PICK new \in [Wires -> Int] : \E out :
         LET bases == [w \in Driven |->
                         Undithered(On(config, w), new[w], ramp[w].pulse, ramp[w].age)]
         IN /\ config' = config /\ values' = new
            /\ ramp' = [w \in Wires |->
                          IF w \in Driven /\ On(config, w).ramp_enable
                          THEN [pulse |-> bases[w], age |-> 0] ELSE ramp[w]]
            /\ DOMAIN out = Driven
            /\ \A w \in Driven : out[w] \in Dithered(On(config, w), bases[w])
            /\ Decides(t, "update", out)
  BY NamedDecides
<1> DEFINE bases == [w \in Driven |->
                       Undithered(On(config, w), new[w], ramp[w].pulse, ramp[w].age)]
<1>2. PICK out : /\ config' = config /\ values' = new
                 /\ ramp' = [w \in Wires |->
                               IF w \in Driven /\ On(config, w).ramp_enable
                               THEN [pulse |-> bases[w], age |-> 0] ELSE ramp[w]]
                 /\ DOMAIN out = Driven
                 /\ \A w \in Driven : out[w] \in Dithered(On(config, w), bases[w])
                 /\ Decides(t, "update", out)
  BY <1>1
<1>3. Deployed(config) BY DEF PwmInv, ControllerTypes
<1>4. \A w \in Valves(config) :
         /\ w \in Wires /\ On(config, w) \in ChannelType /\ ValidChannel(On(config, w))
         /\ Calibrated(On(config, w))
  BY <1>3, DeployedFacts, DeployedCalibrated
<1>5. \A w \in Wires : ramp[w].pulse \in Int /\ ramp[w].age \in Nat BY DEF SideInv
<1>6. ASSUME NEW w \in Driven
      PROVE  /\ bases[w] \in Int
             /\ (~On(config, w).ramp_enable \/ On(config, w).ramp_skip_deadband) =>
                    Settled(On(config, w), bases[w]) /\ ~Against(On(config, w), new[w], out[w])
  <2>1. w \in Valves(config) BY <1>6, DrivenAreValves
  <2>2. w \in Wires BY <1>4, <2>1
  <2> DEFINE cfg == On(config, w)
             last == ramp[w].pulse
             dt == ramp[w].age
             u == Undithered(cfg, new[w], last, dt)
  <2>3. /\ cfg \in ChannelType /\ ValidChannel(cfg) /\ Calibrated(cfg)
        /\ new[w] \in Int /\ last \in Int /\ dt \in Nat
    BY <1>4, <1>5, <2>1, <2>2
  <2>4. (cfg.ramp_enable /\ cfg.ramp_skip_deadband) => Settled(cfg, last)
    BY <2>1 DEF SideInv
  <2>5. bases[w] = u /\ out[w] \in Dithered(cfg, u) BY <1>2, <1>6
  <2> HIDE DEF cfg, last, dt, bases
  <2>6. /\ u \in Int
        /\ (~cfg.ramp_enable \/ cfg.ramp_skip_deadband) => Settled(cfg, u)
    BY <2>3, <2>4, UnditheredSide
  <2>7. (~cfg.ramp_enable \/ cfg.ramp_skip_deadband) => ~Against(cfg, new[w], out[w])
    BY <2>3, <2>4, <2>5, NotAgainst
  <2> QED BY <2>5, <2>6, <2>7 DEF cfg
<1> HIDE DEF bases
<1>7. ramp' \in [Wires -> [pulse : Int, age : Nat]]
  BY <1>2, <1>6 DEF SideInv
<1>8. ASSUME NEW w \in Valves(config)
      PROVE  LET cfg == On(config, w)
              IN /\ cfg.ramp_enable /\ cfg.ramp_skip_deadband => Settled(cfg, ramp'[w].pulse)
                 /\ (~cfg.toggleable /\ (cfg.ramp_skip_deadband \/ ~cfg.ramp_enable)) =>
                        ~Against(cfg, values'[w], pulse'[w])
  <2>1. w \in Wires BY <1>4, <1>8
  <2>2. CASE w \in Driven
    <3>1. pulse'[w] = out[w] BY <1>2, <1>8, <2>2 DEF Decides
    <3>2. On(config, w).ramp_enable => ramp'[w].pulse = bases[w] BY <1>2, <2>1, <2>2
    <3> QED BY <1>2, <1>6, <2>2, <3>1, <3>2
  <2>3. CASE w \notin Driven
    <3>1. On(config, w).toggleable BY <1>8, <2>3 DEF Driven
    <3>2. ramp'[w] = ramp[w] BY <1>2, <2>1, <2>3
    <3> QED BY <1>8, <3>1, <3>2 DEF SideInv
  <2> QED BY <2>2, <2>3
<1>9. values' \in [Wires -> Int] BY <1>2
<1> QED BY <1>2, <1>7, <1>8, <1>9 DEF SideInv

LEMMA SideUpdateNamedUs ==
    ASSUME PwmInv, SideInv, NEW t \in Callers, NEW cmd, UpdateNamedUs(t, cmd), ~Refused(t)
    PROVE  SideInv'
<1> DEFINE asked == {w \in Driven : NameOf(config, w) \in DOMAIN cmd}
           selected == [w \in IF UnsetToZero THEN Driven ELSE asked |->
                          IF w \in asked
                          THEN Clip(cmd[NameOf(config, w)], On(config, w).pulse_min,
                                                            On(config, w).pulse_max)
                          ELSE On(config, w).center]
<1>1. /\ config' = config /\ ramp' = ramp
      /\ values' = [w \in Wires |-> IF w \in DOMAIN selected THEN 0 ELSE values[w]]
      /\ WithPump(Opened(Over(pulse, selected)), Over(pulse, selected), selected, t, "direct")
  BY DEF UpdateNamedUs
<1>2. DOMAIN selected \subseteq Valves(config)
  <2>1. DOMAIN selected \subseteq Driven OBVIOUS
  <2> QED BY <2>1, DrivenAreValves
<1> HIDE DEF selected
<1>3. Decides(t, "direct", selected)
  BY <1>1, <1>2, CallersAreThreads, PumpDecides, Zenon DEF PwmInv
<1>4. Deployed(config) BY DEF PwmInv, ControllerTypes
<1>5. ASSUME NEW w \in Valves(config)
      PROVE  LET cfg == On(config, w)
             IN /\ cfg.ramp_enable /\ cfg.ramp_skip_deadband => Settled(cfg, ramp'[w].pulse)
                /\ (~cfg.toggleable /\ (cfg.ramp_skip_deadband \/ ~cfg.ramp_enable)) =>
                       ~Against(cfg, values'[w], pulse'[w])
  <2>1. w \in Wires /\ On(config, w) \in ChannelType BY <1>4, <1>5, DeployedFacts
  <2>2. CASE w \in DOMAIN selected
    <3>1. values'[w] = 0 BY <1>1, <2>1, <2>2
    <3>2. ~Against(On(config, w), 0, pulse'[w]) BY <2>1, NoneAgainstZero
    <3> QED BY <1>1, <1>5, <3>1, <3>2 DEF SideInv
  <2>3. CASE w \notin DOMAIN selected
    <3>1. values'[w] = values[w] BY <1>1, <2>1, <2>3
    <3>2. pulse'[w] = pulse[w] BY <1>3, <1>5, <2>3 DEF Decides
    <3> QED BY <1>1, <1>5, <3>1, <3>2 DEF SideInv
  <2> QED BY <2>2, <2>3
<1>6. values' \in [Wires -> Int] BY <1>1 DEF SideInv
<1> QED BY <1>1, <1>5, <1>6 DEF SideInv

LEMMA PwmInit_SideInv == PwmInit => SideInv
<1> SUFFICES ASSUME PwmInit PROVE SideInv
  OBVIOUS
<1> DEFINE c == FirstFile.config
           pulses == [w \in Wires |-> IF w \in DOMAIN Centres(c) THEN Centres(c)[w]
                                      ELSE IF w \in PumpWires(c) THEN PumpFloor(c)[w] ELSE 0]
<1>1. /\ config = c /\ values = [w \in Wires |-> 0] /\ pulse = pulses
      /\ ramp = [w \in Wires |-> [pulse |-> pulses[w], age |-> 0]]
  BY DEF PwmInit
<1>2. Accepted(FirstFile) /\ FirstFile \in Files /\ Typed(c) /\ Validated(c)
  BY FileAssumption DEF Accepted
<1>3. Deployed(c) BY <1>2 DEF Deployed
<1>4. ASSUME NEW w \in Valves(c)
      PROVE  /\ w \in Wires /\ On(c, w) \in ChannelType /\ pulses[w] = On(c, w).center
             /\ On(c, w).center \in Int
  BY <1>3, <1>4, DeployedFacts DEF Centres, ChannelType
<1>5. ASSUME NEW w \in Wires PROVE pulses[w] \in Int
  <2>1. CASE w \in Valves(c) BY <1>4, <2>1
  <2>2. CASE w \notin Valves(c) /\ w \in PumpWires(c)
    <3>1. c.pumps # {} BY <2>2 DEF PumpWires
    <3>2. (CHOOSE cfg \in c.pumps : TRUE) \in c.pumps BY <3>1
    <3>3. (CHOOSE cfg \in c.pumps : TRUE).pulse_min \in Int BY <1>2, <3>2 DEF Typed, PumpType
    <3>4. PumpFloor(c)[w] \in Int BY <2>2, <3>3 DEF PumpFloor
    <3> QED BY <1>5, <2>2, <3>4 DEF Centres
  <2>3. CASE w \notin Valves(c) /\ w \notin PumpWires(c) BY <1>5, <2>3 DEF Centres
  <2> QED BY <2>1, <2>2, <2>3
<1> HIDE DEF pulses
<1>6. ramp \in [Wires -> [pulse : Int, age : Nat]] BY <1>1, <1>5
<1>7. ASSUME NEW w \in Valves(c)
      PROVE  Settled(On(c, w), ramp[w].pulse) /\ ~Against(On(c, w), values[w], pulse[w])
  <2>1. ramp[w].pulse = On(c, w).center /\ values[w] = 0 BY <1>1, <1>4, <1>7
  <2>2. Settled(On(c, w), ramp[w].pulse) BY <1>4, <1>7, <2>1 DEF Settled
  <2>3. ~Against(On(c, w), 0, pulse[w]) BY <1>4, <1>7, NoneAgainstZero
  <2> QED BY <2>1, <2>2, <2>3
<1>8. values \in [Wires -> Int] BY <1>1
<1> QED BY <1>1, <1>6, <1>7, <1>8, SMTT(30) DEF SideInv

LEMMA SideKept ==
    ASSUME SideInv, ControllerTypes, config'.channels = config.channels,
           UNCHANGED <<values, ramp>>, \A w \in Valves(config) : pulse'[w] = pulse[w]
    PROVE  SideInv'
BY SideUntold DEF SideInv

LEMMA SideCall ==
    ASSUME AllCalibrated, PwmInv, SideInv, NEW t \in Callers, Call(t)
    PROVE  SideInv'
<1>1. CASE Refused(t)
  BY <1>1, SideKept DEF Refused, believed, PwmInv
<1>2. CASE ~Refused(t) /\ \E cmd \in Commands : UpdateNamed(t, cmd)
  BY <1>2, SideUpdateNamed
<1>3. CASE ~Refused(t) /\ \E cmd \in DirectCommands : UpdateNamedUs(t, cmd)
  BY <1>3, SideUpdateNamedUs
<1>4. CASE CallReset(t)
  <2>1. config' = config /\ Reset(config, writer.frequency, TRUE, t, "reset")
    BY <1>4 DEF CallReset
  <2>2. Deployed(config) BY DEF PwmInv, ControllerTypes
  <2> QED BY <2>1, <2>2, SideReset, Zenon
<1>5. CASE SetPump(t) BY <1>5, SideKept DEF SetPump, PwmInv
<1>6. CASE SetGain(t)
  <2>1. config'.channels = config.channels BY <1>6 DEF SetGain, PwmInv, ControllerTypes
  <2>2. UNCHANGED believed BY <1>6 DEF SetGain
  <2> QED BY <2>1, <2>2, SideKept DEF PwmInv, believed
<1>7. CASE DisableChannels(t) BY <1>7, SideKept DEF DisableChannels, PwmInv, believed
<1>8. CASE StartReload(t) BY <1>8, SideKept DEF StartReload, PwmInv, believed
<1> QED BY <1>1, <1>2, <1>3, <1>4, <1>5, <1>6, <1>7, <1>8 DEF Call

LEMMA SideProceed ==
    ASSUME PwmInv, SideInv, NEW t \in Threads, Proceed(t)
    PROVE  SideInv'
<1>1. CASE ComputePump(t)
  <2> DEFINE own == [w \in PumpWires(config) |->
                       PumpPulse(CHOOSE cfg \in config.pumps : TRUE, pump)]
  <2>1. pulse' = Over(pulse, own) /\ config' = config /\ UNCHANGED <<values, ramp>>
    BY <1>1 DEF ComputePump
  <2>2. DOMAIN own = PumpWires(config) OBVIOUS
  <2> HIDE DEF own
  <2>3. \A w \in Valves(config) : pulse'[w] = pulse[w]
    BY <2>1, <2>2, DeployedFacts DEF Over, PwmInv, ControllerTypes
  <2> QED BY <2>1, <2>3, SideKept DEF PwmInv
<1>2. CASE TakeIo(t) BY <1>2, SideKept DEF TakeIo, PwmInv, believed
<1>3. CASE Write(t)
  <2>1. config' = config /\ UNCHANGED believed BY <1>3 DEF Write
  <2> QED BY <2>1, SideKept DEF PwmInv, believed
<1>4. CASE WriteFails(t)
  <2>1. config' = config /\ UNCHANGED believed BY <1>4 DEF WriteFails
  <2> QED BY <2>1, SideKept DEF PwmInv, believed
<1>5. CASE Neutralise(t)
  <2>1. config' = config /\ Reset(config, writer.frequency, TRUE, t, thread[t].job)
    BY <1>5 DEF Neutralise
  <2>2. Deployed(config) BY DEF PwmInv, ControllerTypes
  <2> QED BY <2>1, <2>2, SideReset, Zenon
<1>6. ASSUME NEW file \in Files, ReadConfig(t, file) PROVE SideInv'
  <2>1. CASE GivesUp(t)
    <3>1. config' = config /\ UNCHANGED believed BY <2>1 DEF GivesUp
    <3> QED BY <3>1, SideKept DEF PwmInv, believed
  <2>2. CASE ~GivesUp(t)
    <3>1. /\ config' = file.config /\ Accepted(file)
          /\ Reset(file.config, file.config.frequency, TRUE, t, "swapped")
      BY <1>6, <2>2 DEF ReadConfig
    <3>2. Deployed(file.config) BY <3>1 DEF Deployed
    <3>3. config'.channels = file.config.channels BY <3>1
    <3> QED BY <3>1, <3>2, <3>3, SideReset, Zenon
  <2> QED BY <2>1, <2>2
<1> QED BY <1>1, <1>2, <1>3, <1>4, <1>5, <1>6 DEF Proceed

LEMMA SideNext ==
    ASSUME AllCalibrated, PwmInv, SideInv, [PwmNext]_pwmVars
    PROVE  SideInv'
<1>1. CASE \E t \in Callers : Call(t) BY <1>1, SideCall
<1>2. CASE \E t \in Threads : Proceed(t) BY <1>2, SideProceed
<1>3. CASE Wake \/ Rate \/ CheckStale
  BY <1>3, SideKept DEF Wake, Rate, CheckStale, PwmInv, believed
<1>4. CASE StaleReset
  <2>1. config' = config /\ Reset(config, writer.frequency, FALSE, Monitor, "stale")
    BY <1>4 DEF StaleReset
  <2>2. Deployed(config) BY DEF PwmInv, ControllerTypes
  <2> QED BY <2>1, <2>2, SideReset, Zenon
<1>5. CASE StartCleanup BY <1>5, SideKept DEF StartCleanup, PwmInv, believed
<1>6. CASE PeriodPasses
  <2>1. /\ config' = config /\ values' = values /\ pulse' = pulse
        /\ ramp' = [w \in DOMAIN ramp |-> [ramp[w] EXCEPT !.age = Smaller(@ + 1, RampDtMax)]]
    BY <1>6 DEF PeriodPasses
  <2>2. \A n \in Nat : Smaller(n + 1, RampDtMax) \in Nat BY PulseAssumption DEF Smaller
  <2>3. /\ ramp' \in [Wires -> [pulse : Int, age : Nat]]
        /\ \A w \in Wires : ramp'[w].pulse = ramp[w].pulse
    BY <2>1, <2>2 DEF SideInv
  <2> QED BY <2>1, <2>3, SideUntold DEF PwmInv
<1>7. CASE UNCHANGED pwmVars BY <1>7, SideKept DEF pwmVars, PwmInv, believed
<1> QED BY <1>1, <1>2, <1>3, <1>4, <1>5, <1>6, <1>7 DEF PwmNext, MonitorStep, Exited

LEMMA PwmInvNext ==
    ASSUME PumpStays, PwmInv, [PwmNext]_pwmVars
    PROVE  PwmInv'
<1>1. ASSUME NEW t \in Callers, Call(t) PROVE PwmInv'
  <2>1. CASE StartReload(t)
    <3>1. /\ thread[t].at = "idle" /\ StopMonitoring(t, "reload")
          /\ UNCHANGED <<config, writer, chip, failed, lock, io, pulse, stale>>
      BY <2>1 DEF StartReload, May, outputs, believed, gate, history
    <3> QED BY <3>1, StopKeeps
  <2> QED BY <1>1, <2>1, UpdateNamedKeeps, UpdateNamedUsKeeps, CallResetKeeps, SetPumpKeeps,
             SetGainKeeps, DisableChannelsKeeps DEF Call
<1>2. ASSUME NEW t \in Threads, Proceed(t) PROVE PwmInv'
  BY <1>2, ComputePumpKeeps, TakeIoKeeps, WriteKeeps, WriteFailsKeeps, NeutraliseKeeps,
     ReadConfigKeeps DEF Proceed
<1>3. CASE MonitorStep BY <1>3, WakeKeeps, RateKeeps, CheckStaleKeeps, StaleResetKeeps DEF MonitorStep
<1>4. CASE StartCleanup
  <2>1. /\ MainThread \in Callers /\ thread[MainThread].at = "idle"
        /\ StopMonitoring(MainThread, "cleanup")
        /\ UNCHANGED <<config, writer, chip, failed, lock, io, pulse, stale>>
    BY <1>4, CallersAssumption DEF StartCleanup, outputs, believed, gate, history
  <2> QED BY <2>1, StopKeeps
<1>5. CASE PeriodPasses BY <1>5, PeriodPassesKeeps
<1>6. CASE UNCHANGED pwmVars BY <1>6, StandingStillKeeps
<1> QED BY <1>1, <1>2, <1>3, <1>4, <1>5, <1>6 DEF PwmNext, Exited

-----------------------------------------------------------------------------
(* The theorems. *)

LEMMA PwmAlways == ASSUME PumpStays PROVE PwmSpec => []PwmInv
<1>1. PwmInv /\ [PwmNext]_pwmVars => PwmInv' BY PwmInvNext
<1> QED BY <1>1, PwmInit_PwmInv, PTL DEF PwmSpec

\* Between two calls the chip has what the invariant says was decided last.
LEMMA WrittenWhenQuiet ==
    ASSUME PwmInv, Quiet, ~failed, NEW w \in Valves(config)
    PROVE  chip[w] = Registers(CountOf(pulse[w]))
<1>1. \A t \in Threads : ~Pending(t) BY DEF Quiet, Pending
<1>2. writer.counts[w] = CountOf(pulse[w]) BY <1>1 DEF PwmInv, DecidedInv
<1>3. chip[w] = Registers(writer.counts[w]) BY <1>1 DEF PwmInv, DecidedInv
<1> QED BY <1>2, <1>3

\* _monitor_loop centres the valves of a stale period once: whatever calls were under way when
\* it did, and whatever reloads and failures there were before, the chip has the centres until
\* a command comes.
THEOREM StaleStaysNeutral ==
    ASSUME PumpStays
    PROVE  PwmSpec => []StaleIsNeutral
<1>1. PwmInv => StaleIsNeutral
  <2> SUFFICES ASSUME PwmInv, Quiet, sent, running, IsStale, ~failed, NEW w \in Valves(config)
               PROVE  chip[w] = Registers(Count(Centres(config)[w], config.frequency))
    BY DEF StaleIsNeutral, AllCentred, CentredOn, Centres
  <2>1. StaleTimeout \in Nat /\ stale \in Nat BY MonitorAssumption DEF PwmInv, MonitorInv
  <2>2. stale # 0 /\ stale # 1 BY <2>1 DEF IsStale
  <2>3. pulse[w] = Centres(config)[w] BY <2>2 DEF PwmInv, MonitorInv, Calm
  <2>4. writer.frequency = config.frequency BY DEF PwmInv, ControllerTypes
  <2> QED BY <2>3, <2>4, WrittenWhenQuiet DEF CountOf
<1> QED BY <1>1, PwmAlways, PTL

\* The writes of _write_channels reach the chip in the order of the decisions, because _io_lock
\* is taken before _lock is let go, and what was decided never goes against the command, though
\* the ramp, the dither, resets and reloads come in between.
THEOREM ValvesStayAsDecided ==
    ASSUME PumpStays, AllCalibrated
    PROVE  PwmSpec => []ValvesAsDecided
<1>1. PwmInv => BelievedIsWritten
  BY WrittenWhenQuiet DEF BelievedIsWritten, Centres
<1>2. PwmInv /\ SideInv => NeverOpposite
  <2> SUFFICES ASSUME PwmInv, SideInv, NEW cfg \in ChannelsOf(config), ~cfg.toggleable,
                      cfg.ramp_skip_deadband \/ ~cfg.ramp_enable
               PROVE  ~Against(cfg, values[cfg.output_channel], pulse[cfg.output_channel])
    BY DEF NeverOpposite, Against
  <2>1. PICK n \in DOMAIN config.channels : cfg = config.channels[n] BY DEF ChannelsOf
  <2>2. Deployed(config) BY DEF PwmInv, ControllerTypes
  <2>3. /\ cfg.output_channel \in Valves(config)
        /\ On(config, cfg.output_channel) = cfg
    BY <2>1, <2>2, DeployedFacts
  <2> QED BY <2>3 DEF SideInv
<1>3. PwmInv /\ SideInv /\ [PwmNext]_pwmVars => SideInv' BY SideNext
<1> QED BY <1>1, <1>2, <1>3, PwmInit_SideInv, PwmAlways, PTL DEF PwmSpec, ValvesAsDecided

\* reload_config swaps the channels only under both resets: when the new ones take over, every
\* valve of the old ones is centred on the chip, even if writes of the pump fall in between.
THEOREM SwapsAreNeutral ==
    ASSUME PumpStays
    PROVE  PwmSpec => SwapIsNeutral
<1>1. ASSUME PwmInv, [PwmNext]_pwmVars, config'.channels # config.channels
      PROVE  AllCentred
  <2>1. PICK t \in Threads : thread[t].at = "parsing"
    <3>1. ASSUME NEW t \in Callers, Call(t) PROVE config'.channels = config.channels
      <4>1. CASE SetGain(t) BY <4>1 DEF SetGain, PwmInv, ControllerTypes
      <4>2. CASE ~SetGain(t)
        BY <3>1, <4>2 DEF Call, UpdateNamed, UpdateNamedUs, Refused, CallReset, SetPump,
                          DisableChannels, StartReload
      <4> QED BY <4>1, <4>2
    <3>2. ASSUME NEW t \in Threads, Proceed(t)
          PROVE  config' = config \/ thread[t].at = "parsing"
      BY <3>2 DEF Proceed, ComputePump, TakeIo, Write, WriteFails, Neutralise, ReadConfig
    <3>3. MonitorStep \/ StartCleanup \/ PeriodPasses => config' = config
      BY DEF MonitorStep, Wake, Rate, CheckStale, StaleReset, StartCleanup, PeriodPasses
    <3>4. UNCHANGED pwmVars => config' = config BY DEF pwmVars
    <3> QED BY <1>1, <3>1, <3>2, <3>3, <3>4 DEF PwmNext, Exited
  <2>2. ASSUME NEW w \in Valves(config)
        PROVE  chip[w] = Registers(Count(Centres(config)[w], config.frequency))
    BY <1>1, <2>1, <2>2 DEF PwmInv, CentreInv, ControllerTypes, CountOf
  <2> QED BY <2>2 DEF AllCentred, CentredOn, Centres
<1>2. PwmInv /\ [PwmNext]_pwmVars => [config'.channels # config.channels => AllCentred]_pwmVars
  BY <1>1
<1> QED BY <1>2, PwmAlways, PTL DEF PwmSpec, SwapIsNeutral

-----------------------------------------------------------------------------
(* How far a valve may open in one step. *)

\* What the ramp and the dither may add to a pulse in one call.
Swing(cfg) == IF cfg.dither_enable THEN cfg.dither_amp_us ELSE 0
Reach(cfg) == cfg.ramp_limit * RampDtMax

\* A ramp moves by its limit at most, from the pulse it remembers or from the edge of the dead
\* band, however long the calls stayed away.
LEMMA RampReach ==
    ASSUME NEW cfg \in ChannelType, ValidChannel(cfg), Calibrated(cfg), Ramped(cfg),
           NEW last \in Int, NEW target \in Int, NEW dt \in Nat
    PROVE  /\ Reach(cfg) \in Nat
           /\ Ramp(cfg, last, dt, target) \in Int
           /\ Ramp(cfg, last, dt, target) <= Larger(last, OpenEdge(cfg)) + Reach(cfg)
           /\ Ramp(cfg, last, dt, target) >= Smaller(last, CloseEdge(cfg)) - Reach(cfg)
<1> DEFINE from == SlewFrom(cfg, last, target)
           step == cfg.ramp_limit * Smaller(dt, RampDtMax)
           moved == from + Clip(target - from, -step, step)
           open == OpenEdge(cfg)
           close == CloseEdge(cfg)
           centre == cfg.center
           high == cfg.pulse_max
           low == cfg.pulse_min
           centred == target = centre /\ close < moved /\ moved < open
           new == Clip(IF centred THEN centre ELSE moved, low, high)
           result == Ramp(cfg, last, dt, target)
           reach == Reach(cfg)
<1>1. /\ open \in Int /\ close \in Int /\ centre \in Int /\ high \in Int /\ low \in Int
      /\ close < centre /\ centre < open /\ open <= high /\ low <= close
  BY DEF ChannelType, ValidChannel, Calibrated, OpenEdge, CloseEdge, Ramped
<1>2. step \in Nat /\ reach \in Nat /\ step <= reach
  <2>1. cfg.ramp_limit \in Nat BY DEF ChannelType, ValidChannel, Ramped
  <2>2. RampDtMax \in Nat /\ Smaller(dt, RampDtMax) \in 0..RampDtMax
    BY PulseAssumption DEF Smaller
  <2>3. \A a, b \in Nat : \A c \in 0..b : a * c \in Nat /\ a * b \in Nat /\ a * c <= a * b
    BY Z3
  <2> QED BY <2>1, <2>2, <2>3 DEF Reach
<1>3. from = CASE last <= centre /\ target > centre -> open
               [] last >= centre /\ target < centre -> close
               [] OTHER -> last
  BY DEF SlewFrom, Ramped
<1>4. \/ AtEdge(cfg, last, from, target) /\ result = target
      \/ result = from
      \/ result = new
  BY DEF Ramp, ValidChannel, ChannelType, Ramped
<1>5. AtEdge(cfg, last, from, target) =>
         /\ from # last
         /\ IF last = centre THEN target = from
            ELSE Sign(target - from) # Sign(target - centre)
  BY DEF AtEdge
<1> HIDE DEF open, close, centre, high, low, step, from, result, reach
<1>6. /\ from \in Int /\ from <= Larger(last, open) /\ from >= Smaller(last, close)
      /\ from # last => \/ from = open /\ target > centre
                        \/ from = close /\ target < centre
  BY <1>1, <1>3 DEF Larger, Smaller
<1>7. moved \in Int /\ from - step <= moved /\ moved <= from + step
  BY <1>2, <1>6 DEF Clip, Larger, Smaller
<1> HIDE DEF moved
<1>8. new \in Int /\ new <= Larger(last, open) + reach /\ new >= Smaller(last, close) - reach
  BY <1>1, <1>2, <1>6, <1>7 DEF Clip, Larger, Smaller
<1> HIDE DEF new
<1>9. AtEdge(cfg, last, from, target) =>
         target <= Larger(last, open) /\ target >= Smaller(last, close)
  BY <1>1, <1>5, <1>6 DEF Larger, Smaller, Sign
<1>10. /\ result \in Int
       /\ result <= Larger(last, open) + reach /\ result >= Smaller(last, close) - reach
  BY <1>1, <1>2, <1>4, <1>6, <1>8, <1>9 DEF Larger, Smaller
<1> QED BY <1>2, <1>10 DEF result, reach, open, close

\* How far the dither swings, with room for it inside the pulse limits.
LEMMA DitherReach ==
    ASSUME NEW cfg \in ChannelType, ValidChannel(cfg), Calibrated(cfg), NEW base \in Int,
           NEW p \in Dithered(cfg, base)
    PROVE  /\ Swing(cfg) \in Nat /\ p \in cfg.pulse_min..cfg.pulse_max
           /\ p <= Larger(base, cfg.center) + Swing(cfg)
           /\ p >= Smaller(base, cfg.center) - Swing(cfg)
           /\ p >= base - Swing(cfg) \/ p >= cfg.pulse_max - 2 * Swing(cfg)
           /\ p <= base + Swing(cfg) \/ p <= cfg.pulse_min + 2 * Swing(cfg)
<1> DEFINE centre == cfg.center
           high == cfg.pulse_max
           low == cfg.pulse_min
           most == Swing(cfg)
           first == DitherAmplitude(cfg, base)
           room == ClampForDither(cfg, base, first)
           amp == DitherAmplitude(cfg, room)
<1>1. /\ centre \in Int /\ high \in Int /\ low \in Int /\ most \in Nat
      /\ low <= centre /\ centre <= high
  BY DEF ChannelType, ValidChannel, Swing
<1>2. CASE ~(cfg.dither_enable /\ cfg.dither_amp_us # 0 /\ base # cfg.center)
  <2>1. p = Clip(base, low, high) BY <1>2 DEF Dithered
  <2> HIDE DEF centre, high, low, most
  <2>2. /\ p \in low..high
        /\ p <= Larger(base, centre) + most /\ p >= Smaller(base, centre) - most
        /\ p >= base - most \/ p >= high - 2 * most
        /\ p <= base + most \/ p <= low + 2 * most
    BY <1>1, <2>1 DEF Clip, Larger, Smaller
  <2> QED BY <1>1, <2>2 DEF centre, high, low, most
<1>3. CASE cfg.dither_enable /\ cfg.dither_amp_us # 0 /\ base # cfg.center
  <2>1. /\ centre + 2 * most <= high /\ low + 2 * most <= centre
        /\ most = cfg.dither_amp_us
    BY <1>3 DEF ChannelType, Calibrated, Swing
  <2>2. first \in 0..most BY <1>3, <2>1, AmplitudeBounds
  <2>3. PICK q \in {room - amp, room + amp} : p = Clip(q, low, high)
    BY <1>3 DEF Dithered
  <2>4. room = IF low + Larger(0, first) > high - Larger(0, first)
               THEN (low + high) \div 2
               ELSE Clip(base, low + Larger(0, first), high - Larger(0, first))
    BY DEF ClampForDither
  <2> HIDE DEF centre, high, low, most, first
  <2>5. room = Clip(base, low + first, high - first)
    <3> HIDE DEF room
    <3> QED BY <1>1, <2>1, <2>2, <2>4 DEF Larger
  <2>6. room \in Int
    <3> HIDE DEF room
    <3> QED BY <1>1, <2>2, <2>5 DEF Clip, Larger, Smaller
  <2>7. amp \in 0..most
    BY <1>3, <2>1, <2>6, AmplitudeBounds
  <2> HIDE DEF room, amp
  <2>8. /\ room <= Larger(base, centre - most) /\ room >= Smaller(base, centre + most)
        /\ room >= base \/ room >= high - most
        /\ room <= base \/ room <= low + most
    BY <1>1, <2>1, <2>2, <2>5 DEF Clip, Larger, Smaller
  <2>9. /\ p \in low..high
        /\ p <= Larger(base, centre) + most /\ p >= Smaller(base, centre) - most
        /\ p >= base - most \/ p >= high - 2 * most
        /\ p <= base + most \/ p <= low + 2 * most
    BY <1>1, <2>1, <2>3, <2>6, <2>7, <2>8 DEF Clip, Larger, Smaller
  <2> QED BY <1>1, <2>9 DEF centre, high, low, most
<1> QED BY <1>2, <1>3 DEF ChannelType

\* Two pulses in a row.
LEMMA PulseReach ==
    ASSUME NEW cfg \in ChannelType, ValidChannel(cfg), Calibrated(cfg), Ramped(cfg),
           NEW last \in Int, NEW target \in Int, NEW dt \in Nat,
           NEW before \in Dithered(cfg, last),
           NEW after \in Dithered(cfg, Ramp(cfg, last, dt, target))
    PROVE  LET most == Reach(cfg) + 2 * Swing(cfg)
           IN /\ most \in Nat
              /\ after <= Larger(before, OpenEdge(cfg)) + most
              /\ after >= Smaller(before, CloseEdge(cfg)) - most
<1> DEFINE new == Ramp(cfg, last, dt, target)
           open == OpenEdge(cfg)
           close == CloseEdge(cfg)
           centre == cfg.center
           high == cfg.pulse_max
           low == cfg.pulse_min
           swing == Swing(cfg)
           reach == Reach(cfg)
<1>1. /\ open \in Int /\ close \in Int /\ centre \in Int /\ high \in Int /\ low \in Int
      /\ close < centre /\ centre < open
  BY DEF ChannelType, ValidChannel, Calibrated, OpenEdge, CloseEdge, Ramped
<1>2. /\ reach \in Nat /\ new \in Int
      /\ new <= Larger(last, open) + reach /\ new >= Smaller(last, close) - reach
  BY RampReach
<1>3. /\ swing \in Nat /\ before \in low..high
      /\ before >= last - swing \/ before >= high - 2 * swing
      /\ before <= last + swing \/ before <= low + 2 * swing
  BY DitherReach
<1>4. after \in Dithered(cfg, new) OBVIOUS
<1> HIDE DEF new
<1>5. /\ after \in low..high
      /\ after <= Larger(new, centre) + swing /\ after >= Smaller(new, centre) - swing
  BY <1>2, <1>4, DitherReach
<1> HIDE DEF open, close, centre, high, low, swing, reach
<1>6. /\ after <= Larger(before, open) + (reach + 2 * swing)
      /\ after >= Smaller(before, close) - (reach + 2 * swing)
  BY <1>1, <1>2, <1>3, <1>5 DEF Larger, Smaller
<1> QED BY <1>2, <1>3, <1>6 DEF open, close, swing, reach
-----------------------------------------------------------------------------
(* From pulses to counts. *)

LEMMA PeriodIsPositive ==
    ASSUME NEW f \in FrequencyMin..FrequencyMax PROVE Period(f) \in Nat \ {0}
<1>1. f \in Nat \ {0} /\ f <= 1000000 BY DEF FrequencyMin, FrequencyMax
<1>2. \A n \in Nat \ {0} : n <= 1000000 => 1000000 \div n \in Nat \ {0} BY Z3
<1> QED BY <1>1, <1>2 DEF Period

LEMMA QuotientsGrow ==
    /\ \A x, y \in Int, d \in Nat \ {0} : x \div d \in Int /\ (x <= y => x \div d <= y \div d)
    /\ \A x, y \in Int, d \in Nat \ {0} : (x + y) \div d <= x \div d + y \div d + 1
<1>1. \A x \in Int, d \in Nat \ {0} :
         x \div d \in Int /\ d * (x \div d) <= x /\ x < d * (x \div d) + d
  BY Z3
<1>2. \A d \in Nat \ {0}, a, b \in Int : d * a < d * b + d => a <= b BY Z3
<1>3. ASSUME NEW x \in Int, NEW y \in Int, NEW d \in Nat \ {0}, x <= y
      PROVE  x \div d <= y \div d
  <2>1. d * (x \div d) < d * (y \div d) + d BY <1>1, <1>3
  <2> QED BY <1>1, <1>2, <2>1
<1>4. ASSUME NEW x \in Int, NEW y \in Int, NEW d \in Nat \ {0}
      PROVE  (x + y) \div d <= x \div d + y \div d + 1
  <2> DEFINE a == x \div d
             b == y \div d
             c == (x + y) \div d
  <2>1. /\ a \in Int /\ b \in Int /\ c \in Int
        /\ x < d * a + d /\ y < d * b + d /\ d * c <= x + y
    BY <1>1
  <2> HIDE DEF a, b, c
  <2>2. d * c < d * (a + b + 1) + d BY <2>1, Z3
  <2> QED BY <1>2, <2>1, <2>2 DEF a, b, c
<1> QED BY <1>1, <1>3, <1>4

LEMMA CountGrows ==
    ASSUME NEW f \in FrequencyMin..FrequencyMax
    PROVE  /\ \A p \in Int : Count(p, f) \in 0..CountMax /\ Count(p, f) \in Nat
           /\ \A p, q \in Int : p <= q => Count(p, f) <= Count(q, f)
           /\ \A p \in Int, s \in Nat : Count(p + s, f) <= Count(p, f) + Count(s, f) + 1
<1> DEFINE d == Period(f)
           N(p) == (p * CountMax) \div d
<1>1. d \in Nat \ {0} BY PeriodIsPositive
<1>2. \A p : Count(p, f) = Clip(N(p), 0, CountMax) BY DEF Count
<1> HIDE DEF d
<1>3. /\ \A p \in Int : p * CountMax \in Int /\ N(p) \in Int
      /\ \A p, q \in Int : p <= q => N(p) <= N(q)
      /\ \A s \in Nat : N(s) \in Nat
      /\ \A p, s \in Int : N(p + s) <= N(p) + N(s) + 1
  <2>1. \A p \in Int : p * CountMax \in Int BY DEF CountMax
  <2>2. \A p, q \in Int : p <= q => p * CountMax <= q * CountMax BY DEF CountMax
  <2>3. \A p, s \in Int : (p + s) * CountMax = p * CountMax + s * CountMax BY DEF CountMax
  <2>4. \A p \in Int : N(p) \in Int BY <1>1, <2>1, QuotientsGrow
  <2>5. ASSUME NEW p \in Int, NEW q \in Int, p <= q PROVE N(p) <= N(q)
    BY <1>1, <2>1, <2>2, <2>5, QuotientsGrow
  <2>6. ASSUME NEW s \in Nat PROVE N(s) \in Nat
    <3>1. s * CountMax \in Nat BY DEF CountMax
    <3> QED BY <1>1, <3>1, QuotientOfNaturals
  <2>7. ASSUME NEW p \in Int, NEW s \in Int PROVE N(p + s) <= N(p) + N(s) + 1
    BY <1>1, <2>1, <2>3, QuotientsGrow
  <2> QED BY <2>1, <2>4, <2>5, <2>6, <2>7
<1> HIDE DEF N
<1>4. CountMax \in Nat BY DEF CountMax
<1>5. /\ \A x \in Int : Clip(x, 0, CountMax) \in 0..CountMax
      /\ \A x, y \in Int : x <= y => Clip(x, 0, CountMax) <= Clip(y, 0, CountMax)
      /\ \A x, y \in Int, z \in Nat :
            x <= y + z + 1 => Clip(x, 0, CountMax) <= Clip(y, 0, CountMax) + Clip(z, 0, CountMax) + 1
  BY <1>4 DEF Clip, Larger, Smaller
<1> HIDE DEF Clip
<1>6. ASSUME NEW p \in Int PROVE Count(p, f) \in 0..CountMax /\ Count(p, f) \in Nat
  <2>1. N(p) \in Int BY <1>3
  <2>2. Count(p, f) \in 0..CountMax BY <1>2, <1>5, <2>1
  <2> QED BY <1>4, <2>2
<1>7. ASSUME NEW p \in Int, NEW q \in Int, p <= q PROVE Count(p, f) <= Count(q, f)
  <2>1. N(p) \in Int /\ N(q) \in Int /\ N(p) <= N(q) BY <1>3, <1>7
  <2> QED BY <1>2, <1>5, <2>1
<1>8. ASSUME NEW p \in Int, NEW s \in Nat
      PROVE  Count(p + s, f) <= Count(p, f) + Count(s, f) + 1
  <2>1. p \in Int /\ s \in Int /\ p + s \in Int OBVIOUS
  <2>2. N(p + s) \in Int /\ N(p) \in Int /\ N(s) \in Nat BY <1>3, <2>1
  <2>3. N(p + s) <= N(p) + N(s) + 1 BY <1>3, <2>1
  <2> QED BY <1>2, <1>5, <2>2, <2>3
<1> QED BY <1>6, <1>7, <1>8

\* No step from one count of a valve to another is too large.
Small(c, cfg, x, y) ==
    \A side \in {-1, 1} : Beyond(c, cfg, side, y) <= Beyond(c, cfg, side, x) + StepLimit(c, cfg)

LEMMA StepIsSmall ==
    ASSUME NEW c, c.frequency \in FrequencyMin..FrequencyMax,
           NEW cfg \in ChannelType, ValidChannel(cfg), Calibrated(cfg), Ramped(cfg),
           Count(cfg.pulse_min, c.frequency) > 0,
           NEW last \in Int, NEW target \in Int, NEW dt \in Nat,
           NEW before \in Dithered(cfg, last),
           NEW after \in Dithered(cfg, Ramp(cfg, last, dt, target))
    PROVE  Small(c, cfg, Count(before, c.frequency), Count(after, c.frequency))
<1> DEFINE open == OpenEdge(cfg)
           close == CloseEdge(cfg)
           low == cfg.pulse_min
           most == Reach(cfg) + 2 * Swing(cfg)
           C(p) == Count(p, c.frequency)
<1>1. open \in Int /\ close \in Int /\ low \in Int
  BY DEF ChannelType, OpenEdge, CloseEdge
<1>2. /\ most \in Nat
      /\ after <= Larger(before, open) + most
      /\ after >= Smaller(before, close) - most
  BY PulseReach
<1>3. /\ before \in Int /\ low <= before
      /\ after \in Int /\ low <= after
  BY <1>1, RampReach, DitherReach DEF ChannelType
<1>4. /\ \A p \in Int : C(p) \in Nat
      /\ \A p, q \in Int : p <= q => C(p) <= C(q)
      /\ \A p \in Int, s \in Nat : C(p + s) <= C(p) + C(s) + 1
  BY CountGrows
<1>5. StepLimit(c, cfg) = 1 + C(most)
  BY DEF StepLimit, Reach, Swing
<1>6. /\ Beyond(c, cfg, 1, C(before)) = IF C(before) = 0 THEN 0 ELSE Larger(0, C(before) - C(open))
      /\ Beyond(c, cfg, 1, C(after)) = IF C(after) = 0 THEN 0 ELSE Larger(0, C(after) - C(open))
      /\ Beyond(c, cfg, -1, C(before)) = IF C(before) = 0 THEN 0 ELSE Larger(0, C(close) - C(before))
      /\ Beyond(c, cfg, -1, C(after)) = IF C(after) = 0 THEN 0 ELSE Larger(0, C(close) - C(after))
  BY DEF Beyond
<1>7. C(low) > 0 OBVIOUS
<1> HIDE DEF open, close, low, most, C
<1>8. C(before) > 0 /\ C(after) > 0
  <2>1. C(low) \in Nat /\ C(before) \in Nat /\ C(after) \in Nat BY <1>1, <1>3, <1>4
  <2>2. C(low) <= C(before) /\ C(low) <= C(after) BY <1>1, <1>3, <1>4
  <2> QED BY <1>7, <2>1, <2>2
<1>9. /\ C(before) \in Nat /\ C(after) \in Nat /\ C(open) \in Nat /\ C(close) \in Nat
      /\ C(most) \in Nat
  BY <1>1, <1>2, <1>3, <1>4
<1>10. C(after) <= Larger(C(before), C(open)) + C(most) + 1
  <2> DEFINE q == Larger(before, open)
  <2>1. q \in Int /\ after <= q + most /\ C(q) <= Larger(C(before), C(open))
    BY <1>1, <1>2, <1>3, <1>9 DEF Larger
  <2> HIDE DEF q
  <2>2. C(after) <= C(q + most) BY <1>2, <1>3, <1>4, <2>1
  <2>3. C(q + most) <= C(q) + C(most) + 1 BY <1>2, <1>4, <2>1
  <2>4. q + most \in Int /\ Larger(C(before), C(open)) \in Nat
    BY <1>2, <1>9, <2>1 DEF Larger
  <2>5. C(q) \in Nat /\ C(q + most) \in Nat BY <1>4, <2>1, <2>4
  <2> QED BY <1>9, <2>1, <2>2, <2>3, <2>4, <2>5
<1>11. Smaller(C(before), C(close)) <= C(after) + C(most) + 1
  <2> DEFINE q == Smaller(before, close)
  <2>1. q \in Int /\ q <= after + most /\ C(q) >= Smaller(C(before), C(close))
    BY <1>1, <1>2, <1>3, <1>9 DEF Smaller
  <2> HIDE DEF q
  <2>2. C(q) <= C(after + most) BY <1>2, <1>3, <1>4, <2>1
  <2>3. C(after + most) <= C(after) + C(most) + 1 BY <1>2, <1>3, <1>4
  <2>4. after + most \in Int /\ Smaller(C(before), C(close)) \in Nat
    BY <1>2, <1>3, <1>9, <2>1 DEF Smaller
  <2>5. C(q) \in Nat /\ C(after + most) \in Nat BY <1>4, <2>1, <2>4
  <2> QED BY <1>9, <2>1, <2>2, <2>3, <2>4, <2>5
<1>12. /\ Beyond(c, cfg, 1, C(after)) <= Beyond(c, cfg, 1, C(before)) + StepLimit(c, cfg)
       /\ Beyond(c, cfg, -1, C(after)) <= Beyond(c, cfg, -1, C(before)) + StepLimit(c, cfg)
  BY <1>5, <1>6, <1>8, <1>9, <1>10, <1>11 DEF Larger, Smaller
<1> QED BY <1>12 DEF Small, C

\* The centre is within reach of everything, for it is inside the dead band.
LEMMA CentreIsSmall ==
    ASSUME NEW c, c.frequency \in FrequencyMin..FrequencyMax,
           NEW cfg \in ChannelType, ValidChannel(cfg), Calibrated(cfg), Ramped(cfg), NEW x \in Nat
    PROVE  Small(c, cfg, x, Count(cfg.center, c.frequency))
<1> DEFINE C(p) == Count(p, c.frequency)
           open == OpenEdge(cfg)
           close == CloseEdge(cfg)
           centre == cfg.center
           most == cfg.ramp_limit * RampDtMax
                   + (IF cfg.dither_enable THEN 2 * cfg.dither_amp_us ELSE 0)
<1>1. open \in Int /\ close \in Int /\ centre \in Int /\ close <= centre /\ centre <= open
  BY DEF ChannelType, ValidChannel, OpenEdge, CloseEdge
<1>2. /\ \A p \in Int : C(p) \in Nat
      /\ \A p, q \in Int : p <= q => C(p) <= C(q)
  BY CountGrows
<1>3. most \in Int BY PulseAssumption DEF ChannelType
<1>4. StepLimit(c, cfg) = 1 + C(most) BY DEF StepLimit
<1>5. \A y : /\ Beyond(c, cfg, 1, y) = IF y = 0 THEN 0 ELSE Larger(0, y - C(open))
             /\ Beyond(c, cfg, -1, y) = IF y = 0 THEN 0 ELSE Larger(0, C(close) - y)
  BY DEF Beyond
<1> HIDE DEF C, open, close, centre, most
<1>6. C(centre) \in Nat /\ C(open) \in Nat /\ C(close) \in Nat /\ C(most) \in Nat
  BY <1>1, <1>2, <1>3
<1>7. C(close) <= C(centre) /\ C(centre) <= C(open) BY <1>1, <1>2
<1>8. /\ Beyond(c, cfg, 1, C(centre)) <= Beyond(c, cfg, 1, x) + StepLimit(c, cfg)
      /\ Beyond(c, cfg, -1, C(centre)) <= Beyond(c, cfg, -1, x) + StepLimit(c, cfg)
  BY <1>4, <1>5, <1>6, <1>7 DEF Larger
<1> QED BY <1>8 DEF Small, C, centre
-----------------------------------------------------------------------------
(* The last decision on every valve, and the writes that are to come. *)

Sloped(c) == {w \in Valves(c) : Ramped(On(c, w))}
Carries(t, w) == w \in DOMAIN thread[t].updates
Staged(t, w) == thread[t].at = "staged" /\ Carries(t, w)
Writing(t, w) == thread[t].at = "writing" /\ Carries(t, w)
Direct(t) == thread[t].job = "direct"
SmallFor(w, x, y) == Small(config, On(config, w), x, y)

\* The last decision on a valve came from update_named_us.
ByDirect(w) ==
    \/ \E t \in Threads : Staged(t, w) /\ Direct(t)
    \/ /\ \A t \in Threads : ~Staged(t, w)
       /\ \E t \in Threads : Writing(t, w) /\ Direct(t)
    \/ /\ \A t \in Threads : ~Staged(t, w) /\ ~Writing(t, w)
       /\ w \in direct

\* Pulses and counts are in their ranges.
RangeAt(w) ==
    /\ pulse[w] \in On(config, w).pulse_min..On(config, w).pulse_max
    /\ writer.counts[w] \in 0..CountMax
    /\ \A t \in Threads : Staged(t, w) \/ Writing(t, w) => thread[t].updates[w] \in 0..CountMax
\* The ramp knows the last pulse that was decided, unless it was a direct one.
RampAt(w) == pulse[w] \in Dithered(On(config, w), ramp[w].pulse) \/ ByDirect(w)
\* What is to be written is a small step from what is written before it.
WaitAt(w) ==
    /\ \A t \in Threads : Staged(t, w) /\ ~Direct(t) =>
          IF \E s \in Threads : Writing(s, w)
          THEN \A s \in Threads : Writing(s, w) =>
                  Direct(s) \/ SmallFor(w, thread[s].updates[w], thread[t].updates[w])
          ELSE w \in direct \/ SmallFor(w, writer.counts[w], thread[t].updates[w])
    /\ \A t \in Threads : Writing(t, w) /\ ~Direct(t) =>
          w \in direct \/ SmallFor(w, writer.counts[w], thread[t].updates[w])
\* A writer that has written nothing yet holds no pulse.
FreshAt(w) ==
    \A t \in Threads : Pending(t) /\ thread[t].job = "swapped" => writer.counts[w] = 0

StepAt(w) == RangeAt(w) /\ RampAt(w) /\ WaitAt(w) /\ FreshAt(w)
StepInv == \A w \in Sloped(config) : StepAt(w)

LEMMA SlopedFacts ==
    ASSUME AllCalibrated, PulsesFit, NEW c, Deployed(c), NEW w \in Sloped(c)
    PROVE  /\ w \in Valves(c) /\ w \in Wires
           /\ On(c, w) \in ChannelType /\ ValidChannel(On(c, w)) /\ Calibrated(On(c, w))
           /\ Ramped(On(c, w))
           /\ c.frequency \in FrequencyMin..FrequencyMax
           /\ Count(On(c, w).pulse_min, c.frequency) > 0
<1>1. w \in Valves(c) /\ Ramped(On(c, w)) BY DEF Sloped
<1>2. PICK file \in Files : /\ Accepted(file)
                            /\ c.channels = file.config.channels
                            /\ c.frequency = file.config.frequency
  BY DEF Deployed
<1>3. On(c, w) \in ChannelsOf(file.config) BY <1>1, <1>2, DeployedFacts DEF ChannelsOf
<1>4. Count(On(c, w).pulse_min, c.frequency) > 0 BY <1>2, <1>3 DEF PulsesFit
<1>5. c.frequency \in FrequencyMin..FrequencyMax BY <1>2 DEF Accepted, Validated
<1> QED BY <1>1, <1>4, <1>5, DeployedFacts, DeployedCalibrated

\* The same steps are small in two configurations that agree on the valve.
LEMMA SameSteps ==
    ASSUME config'.channels = config.channels, config'.frequency = config.frequency
    PROVE  /\ Sloped(config') = Sloped(config)
           /\ \A w : On(config', w) = On(config, w)
           /\ \A w, x, y : Small(config', On(config', w), x, y) <=> Small(config, On(config, w), x, y)
<1>1. Valves(config') = Valves(config) /\ \A w : On(config', w) = On(config, w)
  BY SameValves
<1>2. Sloped(config') = Sloped(config) BY <1>1 DEF Sloped
<1>3. ASSUME NEW cfg, NEW x, NEW y PROVE Small(config', cfg, x, y) <=> Small(config, cfg, x, y)
  BY DEF Small, Beyond, StepLimit
<1> QED BY <1>1, <1>2, <1>3

\* A step in which no decision on a valve is made, taken up or written.
Undisturbed(w) ==
    /\ config'.channels = config.channels /\ config'.frequency = config.frequency
    /\ UNCHANGED <<writer, direct>>
    /\ pulse'[w] = pulse[w] /\ ramp'[w].pulse = ramp[w].pulse
    /\ \A s \in Threads : IF Pending(s) THEN thread'[s] = thread[s] ELSE ~Pending(s)'

LEMMA UndisturbedStep ==
    ASSUME NEW w, StepAt(w), Undisturbed(w)
    PROVE  StepAt(w)'
<1>1. \A s \in Threads : /\ Staged(s, w)' <=> Staged(s, w)
                         /\ Writing(s, w)' <=> Writing(s, w)
                         /\ Pending(s)' <=> Pending(s)
                         /\ Pending(s) => thread'[s] = thread[s]
                         /\ Staged(s, w) \/ Writing(s, w) => Pending(s)
  BY DEF Undisturbed, Staged, Writing, Carries, Pending
<1>2. /\ writer' = writer /\ direct' = direct
      /\ pulse'[w] = pulse[w] /\ ramp'[w].pulse = ramp[w].pulse
      /\ On(config', w) = On(config, w)
      /\ \A x, y : Small(config', On(config', w), x, y) <=> Small(config, On(config, w), x, y)
  BY SameSteps DEF Undisturbed
<1>3. RangeAt(w)' BY <1>1, <1>2 DEF StepAt, RangeAt
<1>4. RampAt(w)' BY <1>1, <1>2 DEF StepAt, RampAt, ByDirect, Direct
<1>5. WaitAt(w)' BY <1>1, <1>2 DEF StepAt, WaitAt, SmallFor, Direct
<1>6. FreshAt(w)' BY <1>1, <1>2 DEF StepAt, FreshAt
<1> QED BY <1>3, <1>4, <1>5, <1>6 DEF StepAt

\* A decision under _lock.
LEMMA DecisionStep ==
    ASSUME AllCalibrated, PulsesFit, PwmInv, NEW t, NEW job, Stages(t, job),
           NEW w \in Sloped(config), StepAt(w), direct' = direct,
           IF w \in DOMAIN thread'[t].updates
           THEN /\ pulse'[w] \in On(config, w).pulse_min..On(config, w).pulse_max
                /\ job # "direct" =>
                      /\ pulse'[w] \in Dithered(On(config, w), ramp'[w].pulse)
                      /\ ByDirect(w) \/ SmallFor(w, CountOf(pulse[w]), CountOf(pulse'[w]))
           ELSE ramp'[w].pulse = ramp[w].pulse
    PROVE  StepAt(w)'
<1> DEFINE mine == thread'[t].updates
<1>1. /\ config' = config /\ writer' = writer /\ lock = Free /\ t \in Threads
      /\ \A s \in Threads \ {t} : thread'[s] = thread[s]
      /\ thread[t].at \notin {"staged", "writing"}
      /\ thread'[t].at = "staged" /\ thread'[t].job = job /\ job # "swapped"
      /\ IF w \in DOMAIN mine THEN mine[w] = CountOf(pulse'[w]) ELSE pulse'[w] = pulse[w]
  BY DEF Stages, Sloped
<1>2. \A s \in Threads : thread[s].at # "staged" BY <1>1, FreeIsNobody DEF PwmInv
<1>3. /\ \A s \in Threads : Staged(s, w)' <=> s = t /\ w \in DOMAIN mine
      /\ \A s \in Threads : Writing(s, w)' <=> Writing(s, w)
      /\ \A s \in Threads : Writing(s, w) => thread'[s] = thread[s] /\ s # t
      /\ \A s \in Threads : ~Staged(s, w)
  BY <1>1, <1>2 DEF Staged, Writing, Carries
<1>4. /\ w \in Valves(config) /\ Deployed(config) /\ On(config, w) \in ChannelType
      /\ config.frequency \in FrequencyMin..FrequencyMax
      /\ writer.frequency = config.frequency
  BY SlopedFacts DEF PwmInv, ControllerTypes
<1>5. RangeAt(w)'
  <2>1. w \in DOMAIN mine => mine[w] \in 0..CountMax
    <3>1. w \in DOMAIN mine => pulse'[w] \in Int BY <1>4 DEF ChannelType
    <3> QED BY <1>1, <1>4, <3>1, CountGrows DEF CountOf
  <2> QED BY <1>1, <1>3, <2>1 DEF StepAt, RangeAt
<1>6. RampAt(w)'
  <2>1. CASE w \in DOMAIN mine
    BY <1>1, <1>3, <2>1 DEF RampAt, ByDirect, Direct
  <2>2. CASE w \notin DOMAIN mine
    <3>1. ByDirect(w) => ByDirect(w)'
      <4>1. direct' = direct OBVIOUS
      <4> QED BY <1>3, <2>2, <4>1 DEF ByDirect, Direct
    <3> QED BY <1>1, <2>2, <3>1 DEF StepAt, RampAt
  <2> QED BY <2>1, <2>2
<1>7. WaitAt(w)'
  <2>1. ASSUME NEW s \in Threads, Staged(s, w)', job # "direct",
               NEW r \in Threads, Writing(r, w)
        PROVE  thread[r].job = "direct" \/ SmallFor(w, thread[r].updates[w], mine[w])
    <3>1. s = t /\ w \in DOMAIN mine BY <1>3, <2>1
    <3>2. thread[r].updates[w] = CountOf(pulse[w])
      BY <1>2, <1>4, <2>1 DEF PwmInv, DecidedInv, Writing, Carries
    <3>3. ByDirect(w) => thread[r].job = "direct"
      <4>1. \A x \in Threads : Writing(x, w) => x = r
        BY <2>1 DEF PwmInv, LockInv, Writing
      <4> QED BY <1>3, <2>1, <4>1 DEF ByDirect, Direct
    <3> QED BY <1>1, <2>1, <3>1, <3>2, <3>3
  <2>2. ASSUME NEW s \in Threads, Staged(s, w)', job # "direct",
               \A r \in Threads : ~Writing(r, w)
        PROVE  w \in direct \/ SmallFor(w, writer.counts[w], mine[w])
    <3>1. s = t /\ w \in DOMAIN mine BY <1>3, <2>2
    <3>2. writer.counts[w] = CountOf(pulse[w])
      BY <1>2, <1>4, <2>2 DEF PwmInv, DecidedInv, Pending, Writing, Carries
    <3>3. ByDirect(w) => w \in direct BY <1>3, <2>2 DEF ByDirect
    <3> QED BY <1>1, <2>2, <3>1, <3>2, <3>3
  <2>3. ASSUME NEW s \in Threads, Writing(s, w), thread[s].job # "direct"
        PROVE  w \in direct \/ SmallFor(w, writer.counts[w], thread[s].updates[w])
    BY <2>3 DEF StepAt, WaitAt, Direct
  <2>4. ASSUME NEW s \in Threads, Staged(s, w)', thread'[s].job # "direct"
        PROVE  IF \E r \in Threads : Writing(r, w)'
               THEN \A r \in Threads : Writing(r, w)' =>
                       \/ thread'[r].job = "direct"
                       \/ Small(config', On(config', w), thread'[r].updates[w], thread'[s].updates[w])
               ELSE \/ w \in direct'
                    \/ Small(config', On(config', w), writer'.counts[w], thread'[s].updates[w])
    BY <1>1, <1>3, <2>1, <2>2, <2>4 DEF SmallFor
  <2>5. ASSUME NEW s \in Threads, Writing(s, w)', thread'[s].job # "direct"
        PROVE  \/ w \in direct'
               \/ Small(config', On(config', w), writer'.counts[w], thread'[s].updates[w])
    BY <1>1, <1>3, <2>3, <2>5 DEF SmallFor
  <2> QED BY <2>4, <2>5 DEF WaitAt, SmallFor, Direct
<1>8. FreshAt(w)'
  <2>1. \A s \in Threads : Pending(s)' /\ thread'[s].job = "swapped" => Pending(s) /\ thread[s].job = "swapped"
    BY <1>1 DEF Pending
  <2> QED BY <1>1, <2>1 DEF StepAt, FreshAt
<1> QED BY <1>5, <1>6, <1>7, <1>8 DEF StepAt

\* A thread takes _io_lock: what it staged is the next to be written.
LEMMA TakenStep ==
    ASSUME PumpStays, PwmInv, NEW t \in Threads, TakeIo(t), NEW w \in Sloped(config), StepAt(w)
    PROVE  StepAt(w)'
<1>1. /\ thread[t].at \in {"staged", "unlocked"} /\ io = Free
      /\ config' = config /\ writer' = writer /\ pulse' = pulse /\ ramp' = ramp /\ direct' = direct
  BY DEF TakeIo, outputs, believed, history
<1>2. /\ \A s \in Threads \ {t} : thread'[s] = thread[s]
      /\ thread'[t].at = "writing" /\ thread'[t].job = thread[t].job
      /\ thread'[t].updates = thread[t].updates
  BY DEF TakeIo, PwmInv, ControllerTypes, Fields
<1>3. \A s \in Threads : thread[s].at # "writing"
  <2>1. \A s \in Threads : s # Free BY CallersAssumption DEF Free, Threads, Monitor
  <2> QED BY <1>1, <2>1 DEF PwmInv, LockInv
<1>4. \A s \in Threads : Writing(s, w)' <=> s = t /\ Carries(t, w)
  BY <1>2, <1>3 DEF Writing, Carries
<1>5. \A s \in Threads : ~Writing(s, w) BY <1>3 DEF Writing
<1>6. On(config', w) = On(config, w) /\ \A x, y : SmallFor(w, x, y) <=> Small(config', On(config', w), x, y)
  BY <1>1 DEF SmallFor
<1>7. FreshAt(w)'
  <2>1. ASSUME NEW s \in Threads, Pending(s)', thread'[s].job = "swapped"
        PROVE  Pending(s) /\ thread[s].job = "swapped"
    BY <1>1, <1>2, <2>1 DEF PwmInv, LockInv, Pending
  <2> QED BY <1>1, <2>1 DEF StepAt, FreshAt
<1>8. CASE thread[t].at = "staged"
  <2>1. \A s \in Threads : thread[s].at = "staged" => s = t
    BY <1>8 DEF PwmInv, LockInv
  <2>2. /\ \A s \in Threads : ~Staged(s, w)'
        /\ \A s \in Threads : Staged(s, w) <=> s = t /\ Carries(t, w)
    BY <1>2, <1>8, <2>1 DEF Staged
  <2>3. RangeAt(w)'
    BY <1>1, <1>2, <1>4, <2>2 DEF StepAt, RangeAt
  <2>4. RampAt(w)'
    <3>1. ByDirect(w) => ByDirect(w)' BY <1>1, <1>2, <1>4, <1>5, <2>2 DEF ByDirect, Direct
    <3> QED BY <1>1, <3>1 DEF StepAt, RampAt
  <2>5. Carries(t, w) /\ ~Direct(t) => w \in direct \/ SmallFor(w, writer.counts[w], thread[t].updates[w])
    BY <1>5, <2>2 DEF StepAt, WaitAt
  <2>6. ASSUME NEW s \in Threads, Writing(s, w)', thread'[s].job # "direct"
        PROVE  \/ w \in direct'
               \/ Small(config', On(config', w), writer'.counts[w], thread'[s].updates[w])
    BY <1>1, <1>2, <1>4, <1>6, <2>5, <2>6 DEF Direct
  <2>7. WaitAt(w)' BY <2>2, <2>6 DEF WaitAt, SmallFor, Direct
  <2> QED BY <1>7, <2>3, <2>4, <2>7 DEF StepAt
<1>9. CASE thread[t].at = "unlocked"
  <2>1. ~Carries(t, w)
    <3>1. w \in Valves(config) BY DEF Sloped
    <3>2. thread[t].job = "pump" BY <1>9 DEF PwmInv, LockInv
    <3> QED BY <1>9, <3>1, <3>2, PumpLeavesValves DEF PwmInv, Carries
  <2>2. /\ \A s \in Threads : Staged(s, w)' <=> Staged(s, w)
        /\ \A s \in Threads : Staged(s, w) => thread'[s] = thread[s]
        /\ \A s \in Threads : ~Writing(s, w)'
    BY <1>2, <1>4, <1>9, <2>1 DEF Staged, Carries
  <2>3. RangeAt(w)' BY <1>1, <2>2 DEF StepAt, RangeAt
  <2>4. RampAt(w)'
    <3>1. ByDirect(w) => ByDirect(w)' BY <1>1, <1>5, <2>2 DEF ByDirect, Direct
    <3> QED BY <1>1, <3>1 DEF StepAt, RampAt
  <2>5. ASSUME NEW s \in Threads, Staged(s, w)', thread'[s].job # "direct"
        PROVE  \/ w \in direct'
               \/ Small(config', On(config', w), writer'.counts[w], thread'[s].updates[w])
    BY <1>1, <1>5, <1>6, <2>2, <2>5 DEF StepAt, WaitAt, Direct
  <2>6. WaitAt(w)' BY <2>2, <2>5 DEF WaitAt, SmallFor, Direct
  <2> QED BY <1>7, <2>3, <2>4, <2>6 DEF StepAt
<1> QED BY <1>1, <1>8, <1>9

\* A write, whole or broken off, and what becomes of the threads.
Written(t) ==
    /\ thread[t].at = "writing" /\ UNCHANGED <<config, pulse, ramp>> /\ Noted(t)
    /\ ~Pending(t)'
    /\ \A s \in Threads \ {t} : thread'[s] = thread[s] \/ (~Pending(s) /\ ~Pending(s)')
    /\ \A w \in Valves(config) :
          /\ writer'.counts[w] = IF w \in DOMAIN thread[t].updates THEN thread[t].updates[w]
                                 ELSE writer.counts[w]
          /\ chip'[w] = Registers(writer'.counts[w]) \/ chip'[w] = chip[w]

LEMMA RestartedThreads ==
    ASSUME PwmInv, NEW t \in Callers, Within(t), thread[t].at \in {"writing", "parsing"}, NEW was,
           thread' = Restarted(t, was)
    PROVE  /\ ~Pending(t)'
           /\ \A s \in Threads \ {t} : thread'[s] = thread[s] \/ (~Pending(s) /\ ~Pending(s)')
<1>1. t \in Threads /\ t # Monitor BY CallersAreThreads
<1>2. /\ thread'[t] = Idle
      /\ \A s \in Threads \ {t, Monitor} : thread'[s] = thread[s]
      /\ thread'[Monitor] = thread[Monitor] \/ thread'[Monitor].at = "asleep"
  BY <1>1 DEF Restarted, PwmInv, ControllerTypes, Fields, Threads
<1>3. ~Pending(Monitor)
  <2>1. thread[Monitor].at # "staged" BY <1>1 DEF PwmInv, LockInv, Threads
  <2>2. thread[Monitor].at = "writing" => Within(Monitor)
    BY DEF PwmInv, MonitorInv, Within, Nested
  <2>3. ~Within(Monitor) BY <1>1 DEF PwmInv, LockInv, Threads
  <2> QED BY <2>1, <2>2, <2>3 DEF Pending
<1> QED BY <1>2, <1>3 DEF Pending, Idle

LEMMA WriteIsWritten ==
    ASSUME PwmInv, NEW t \in Threads, Write(t)
    PROVE  Written(t)
<1> DEFINE job == thread[t].job
<1>1. /\ thread[t].at = "writing" /\ UNCHANGED <<config, pulse, ramp>> /\ Noted(t)
  BY DEF Write, believed
<1>2. Writes(t) BY WriteWrites DEF Write, PwmInv
<1>3. \A w \in Valves(config) : chip'[w] = Registers(writer'.counts[w]) \/ chip'[w] = chip[w]
  BY <1>2 DEF Writes
<1>4. /\ ~Pending(t)'
      /\ \A s \in Threads \ {t} : thread'[s] = thread[s] \/ (~Pending(s) /\ ~Pending(s)')
  <2>1. CASE job = "stale"
    <3>1. t = Monitor BY <1>1, <2>1, WritesOf
    <3>2. thread' = [thread EXCEPT ![Monitor] =
                        [Idle EXCEPT !.at = IF running THEN "asleep" ELSE "ended"]]
      BY <2>1 DEF Write, EndPass
    <3> QED BY <3>1, <3>2 DEF PwmInv, ControllerTypes, Idle, Pending
  <2>2. CASE job = "swapped"
    <3>1. thread' = Restarted(t, thread[t].was) BY <2>2 DEF Write
    <3>2. t \in Callers BY <1>1, <2>2, WritesOf
    <3>3. Within(t) BY <1>1, <2>2 DEF Within, Nested
    <3> QED BY <1>1, <3>1, <3>2, <3>3, RestartedThreads
  <2>3. CASE job \notin {"stale", "swapped"}
    <3>1. \/ thread' = [thread EXCEPT ![t] = [@ EXCEPT !.at = "parsing"]]
          \/ thread' = [thread EXCEPT ![t] = [@ EXCEPT !.at = "exited"]]
          \/ thread' = [thread EXCEPT ![t] = Idle]
      BY <2>3 DEF Write
    <3> QED BY <3>1 DEF PwmInv, ControllerTypes, Fields, Idle, Pending
  <2> QED BY <2>1, <2>2, <2>3
<1> QED BY <1>1, <1>2, <1>3, <1>4 DEF Written, Writes

LEMMA FailureIsWritten ==
    ASSUME PwmInv, NEW t \in Threads, WriteFails(t)
    PROVE  Written(t)
<1> DEFINE job == thread[t].job
<1>1. /\ thread[t].at = "writing" /\ UNCHANGED <<config, pulse, ramp>> /\ Noted(t)
      /\ failed' = TRUE
      /\ writer' = [writer EXCEPT !.counts = Over(writer.counts, thread[t].updates)]
  BY DEF WriteFails, believed
<1>2. PICK last : chip' = Sent(Over(writer.counts, thread[t].updates), last)
  BY DEF WriteFails
<1>3. /\ ~Pending(t)' /\ thread'[t].at # "parsing"
      /\ \A s \in Threads \ {t} : thread'[s] = thread[s] \/ (~Pending(s) /\ ~Pending(s)')
  <2>1. CASE job \in {"reload", "swapped"}
    <3>1. thread' = Restarted(t, thread[t].was) BY <2>1 DEF WriteFails
    <3>2. t \in Callers /\ t # Monitor BY <1>1, <2>1, WritesOf
    <3>3. Within(t) BY <1>1, <2>1 DEF Within, Nested
    <3>4. thread'[t] = Idle
      BY <3>1, <3>2 DEF Restarted, PwmInv, ControllerTypes
    <3> QED BY <1>1, <3>1, <3>2, <3>3, <3>4, RestartedThreads DEF Idle
  <2>2. CASE job \notin {"reload", "swapped"}
    <3>1. \/ thread' = [thread EXCEPT ![t] = [Idle EXCEPT !.at = "dead"]]
          \/ thread' = [thread EXCEPT ![t] = [@ EXCEPT !.at = "exited"]]
          \/ thread' = [thread EXCEPT ![t] = Idle]
      BY <2>2 DEF WriteFails
    <3> QED BY <3>1 DEF PwmInv, ControllerTypes, Fields, Idle, Pending
  <2> QED BY <2>1, <2>2
<1>4. Writes(t) BY <1>1, <1>2, <1>3, FailureWrites DEF PwmInv
<1>5. \A w \in Valves(config) : chip'[w] = Registers(writer'.counts[w]) \/ chip'[w] = chip[w]
  BY <1>4 DEF Writes
<1> QED BY <1>1, <1>3, <1>4, <1>5 DEF Written, Writes

\* The write after the next is compared with what this one leaves.
LEMMA WrittenStep ==
    ASSUME PumpStays, PwmInv, NEW t \in Threads, Written(t), NEW w \in Sloped(config), StepAt(w)
    PROVE  StepAt(w)'
<1>1. /\ thread[t].at = "writing" /\ config' = config /\ pulse' = pulse /\ ramp' = ramp
      /\ ~Pending(t)'
      /\ \A s \in Threads \ {t} : thread'[s] = thread[s] \/ (~Pending(s) /\ ~Pending(s)')
  BY DEF Written
<1>2. w \in Valves(config) BY DEF Sloped
<1>3. writer'.counts[w] = IF Carries(t, w) THEN thread[t].updates[w] ELSE writer.counts[w]
  BY <1>2 DEF Written, Carries
<1>4. \A s \in Threads : thread[s].at = "writing" <=> s = t
  BY <1>1 DEF PwmInv, LockInv
<1>5. /\ \A s \in Threads : ~Writing(s, w)'
      /\ \A s \in Threads : Writing(s, w) <=> s = t /\ Carries(t, w)
      /\ \A s \in Threads : Staged(s, w)' <=> Staged(s, w)
      /\ \A s \in Threads : Staged(s, w) => thread'[s] = thread[s] /\ s # t
  BY <1>1, <1>4 DEF Staged, Writing, Carries, Pending
<1>6. w \in direct' <=> IF Carries(t, w) THEN Direct(t) ELSE w \in direct
  BY DEF Written, Noted, Carries, Direct
<1>7. RangeAt(w)' BY <1>1, <1>3, <1>5 DEF StepAt, RangeAt
<1>8. ASSUME ByDirect(w) PROVE ByDirect(w)'
  <2>1. CASE \E s \in Threads : Staged(s, w) /\ Direct(s)
    BY <1>5, <2>1 DEF ByDirect, Direct
  <2>2. CASE \A s \in Threads : ~Staged(s, w)
    <3>1. w \in direct' BY <1>5, <1>6, <1>8, <2>2 DEF ByDirect
    <3> QED BY <1>5, <2>2, <3>1 DEF ByDirect
  <2> QED BY <1>8, <2>1, <2>2 DEF ByDirect
<1>9. RampAt(w)' BY <1>1, <1>8 DEF StepAt, RampAt
<1>10. ASSUME NEW s \in Threads, Staged(s, w)', thread'[s].job # "direct"
       PROVE  \/ w \in direct'
              \/ Small(config', On(config', w), writer'.counts[w], thread'[s].updates[w])
  <2>1. Staged(s, w) /\ ~Direct(s) /\ thread'[s] = thread[s] BY <1>5, <1>10 DEF Direct
  <2>2. CASE Carries(t, w)
    <3>1. Direct(t) \/ SmallFor(w, thread[t].updates[w], thread[s].updates[w])
      BY <1>5, <2>1, <2>2 DEF StepAt, WaitAt
    <3> QED BY <1>1, <1>3, <1>6, <2>1, <2>2, <3>1 DEF SmallFor
  <2>3. CASE ~Carries(t, w)
    <3>1. w \in direct \/ SmallFor(w, writer.counts[w], thread[s].updates[w])
      BY <1>5, <2>1, <2>3 DEF StepAt, WaitAt
    <3> QED BY <1>1, <1>3, <1>6, <2>1, <2>3, <3>1 DEF SmallFor
  <2> QED BY <2>2, <2>3
<1>11. WaitAt(w)' BY <1>5, <1>10 DEF WaitAt, SmallFor, Direct
<1>12. FreshAt(w)'
  <2> SUFFICES ASSUME NEW s \in Threads, Pending(s)', thread'[s].job = "swapped"
               PROVE  writer'.counts[w] = 0
    BY DEF FreshAt
  <2>1. s # t /\ thread'[s] = thread[s] BY <1>1
  <2>2. thread[s].at = "staged" /\ thread[s].job = "swapped" BY <1>4, <2>1 DEF Pending
  <2>3. thread[t].job = "pump" BY <1>1, <2>2 DEF PwmInv, LockInv
  <2>4. ~Carries(t, w) BY <1>1, <1>2, <2>3, PumpLeavesValves DEF PwmInv, Carries
  <2> QED BY <1>3, <2>2, <2>4 DEF StepAt, FreshAt, Pending
<1> QED BY <1>7, <1>9, <1>11, <1>12 DEF StepAt

\* A reset tells the ramp, and its pulse is a small step from anything.
LEMMA ResetRamp ==
    ASSUME SideInv, AllCalibrated, PulsesFit, NEW c, Deployed(c), NEW frequency, NEW with_pump,
           NEW t, NEW job, Reset(c, frequency, with_pump, t, job), NEW w \in Sloped(c)
    PROVE  /\ ramp'[w].pulse = On(c, w).center
           /\ On(c, w).center \in Dithered(On(c, w), On(c, w).center)
           /\ On(c, w).center \in On(c, w).pulse_min..On(c, w).pulse_max
           /\ \A x \in 0..CountMax : Small(c, On(c, w), x, Count(On(c, w).center, c.frequency))
<1> DEFINE cfg == On(c, w)
<1>1. /\ w \in Valves(c) /\ w \in Wires /\ cfg \in ChannelType /\ ValidChannel(cfg)
      /\ Calibrated(cfg) /\ Ramped(cfg) /\ c.frequency \in FrequencyMin..FrequencyMax
  BY SlopedFacts
<1>2. ramp' = Over(ramp, [v \in DOMAIN Centres(c) |-> [pulse |-> Centres(c)[v], age |-> 0]])
  BY DEF Reset
<1>3. ramp'[w].pulse = cfg.center
  <2>1. w \in DOMAIN ramp BY <1>1 DEF SideInv
  <2> QED BY <1>1, <1>2, <2>1 DEF Over, Centres
<1> HIDE DEF cfg
<1>4. cfg.center \in cfg.pulse_min..cfg.pulse_max BY <1>1 DEF ValidChannel
<1>5. cfg.center \in Dithered(cfg, cfg.center)
  <2>1. Clip(cfg.center, cfg.pulse_min, cfg.pulse_max) = cfg.center
    BY <1>1, <1>4 DEF Clip, Larger, Smaller, ChannelType
  <2> QED BY <2>1 DEF Dithered
<1>6. ASSUME NEW x \in 0..CountMax PROVE Small(c, cfg, x, Count(cfg.center, c.frequency))
  <2>1. x \in Nat BY DEF CountMax
  <2> QED BY <1>1, <2>1, CentreIsSmall
<1> QED BY <1>3, <1>4, <1>5, <1>6 DEF cfg

LEMMA ResetStep ==
    ASSUME AllCalibrated, PulsesFit, PwmInv, SideInv, NEW with_pump \in BOOLEAN, NEW t \in Threads,
           NEW job \in {"reset", "reload", "cleanup", "stale"},
           Reset(config, writer.frequency, with_pump, t, job),
           lock = Free, lock' = t, UNCHANGED <<config, writer, chip, failed, io, direct>>,
           thread[t].at \notin {"staged", "writing", "parsing"}, StepInv
    PROVE  StepInv'
<1>1. Deployed(config) /\ writer.frequency = config.frequency
  BY DEF PwmInv, ControllerTypes
<1>2. Stages(t, job) BY ResetStages, Zenon DEF PwmInv
<1>3. Recentred(config, writer.frequency, t, job) BY <1>1, ResetDecides, Zenon DEF PwmInv
<1>4. Sloped(config') = Sloped(config) OBVIOUS
<1>5. ASSUME NEW w \in Sloped(config) PROVE StepAt(w)'
  <2>1. w \in Valves(config) BY DEF Sloped
  <2>2. /\ ramp'[w].pulse = On(config, w).center
        /\ On(config, w).center \in Dithered(On(config, w), On(config, w).center)
        /\ On(config, w).center \in On(config, w).pulse_min..On(config, w).pulse_max
        /\ \A x \in 0..CountMax :
              Small(config, On(config, w), x, Count(On(config, w).center, config.frequency))
    BY <1>1, ResetRamp, Zenon
  <2>3. w \in DOMAIN thread'[t].updates /\ pulse'[w] = On(config, w).center
    BY <1>3, <2>1 DEF Recentred, Centres
  <2>4. CountOf(pulse[w]) \in 0..CountMax
    <3>1. pulse[w] \in Int /\ config.frequency \in FrequencyMin..FrequencyMax
      BY <1>1, SlopedFacts DEF StepInv, StepAt, RangeAt, ChannelType
    <3> QED BY <1>1, <3>1, CountGrows DEF CountOf
  <2>5. SmallFor(w, CountOf(pulse[w]), CountOf(pulse'[w]))
    BY <1>1, <2>2, <2>3, <2>4 DEF SmallFor, CountOf
  <2> QED BY <1>2, <2>2, <2>3, <2>5, DecisionStep DEF StepInv
<1> QED BY <1>4, <1>5 DEF StepInv

\* The new configuration begins with a writer that has sent nothing.
LEMMA SwapSteps ==
    ASSUME PumpStays, AllCalibrated, PulsesFit, PwmInv, SideInv,
           NEW t \in Threads, thread[t].at = "parsing", NEW file \in Files, Accepted(file),
           config' = file.config, writer' = FreshWriter(file.config, config.pumps),
           Reset(file.config, file.config.frequency, TRUE, t, "swapped")
    PROVE  StepInv'
<1> DEFINE c == file.config
<1>1. Deployed(c) BY DEF Deployed
<1>2. Recentred(c, c.frequency, t, "swapped") BY <1>1, ResetDecides, Zenon DEF PwmInv
<1>3. /\ \A s \in Threads \ {t} : thread'[s] = thread[s]
      /\ thread'[t].at = "staged" /\ thread'[t].job = "swapped"
  BY <1>2 DEF Recentred
<1>4. thread[t].job = "reload" /\ lock = t BY DEF PwmInv, LockInv, Within, Nested
<1>5. \A s \in Threads \ {t} : /\ thread[s].at # "staged"
                               /\ thread[s].at = "writing" => thread[s].job = "pump"
  BY <1>4 DEF PwmInv, LockInv
<1>6. ASSUME NEW w \in Sloped(c) PROVE StepAt(w)'
  <2>1. w \in Valves(c) /\ w \in Wires /\ c.frequency \in FrequencyMin..FrequencyMax
        /\ On(c, w) \in ChannelType
    BY <1>1, SlopedFacts
  <2>2. /\ ramp'[w].pulse = On(c, w).center
        /\ On(c, w).center \in Dithered(On(c, w), On(c, w).center)
        /\ On(c, w).center \in On(c, w).pulse_min..On(c, w).pulse_max
        /\ \A x \in 0..CountMax : Small(c, On(c, w), x, Count(On(c, w).center, c.frequency))
    BY <1>1, ResetRamp, Zenon
  <2>3. /\ w \in DOMAIN thread'[t].updates /\ pulse'[w] = On(c, w).center
        /\ thread'[t].updates[w] = Count(On(c, w).center, c.frequency)
    BY <1>2, <2>1 DEF Recentred, Centres
  <2>4. thread'[t].updates[w] \in 0..CountMax
    <3>1. On(c, w).center \in Int BY <2>1 DEF ChannelType
    <3> QED BY <2>1, <2>3, <3>1, CountGrows
  <2>5. writer'.counts[w] = 0 BY <2>1 DEF FreshWriter
  <2>6. 0 \in 0..CountMax BY DEF CountMax
  <2>7. ASSUME NEW s \in Threads, Writing(s, w)' PROVE FALSE
    <3>1. s # t /\ thread'[s] = thread[s] /\ thread[s].at = "writing" /\ thread[s].job = "pump"
      BY <1>3, <1>5, <2>7 DEF Writing
    <3>2. PICK f \in Files : Accepted(f) /\ DOMAIN thread[s].updates \subseteq PumpWires(f.config)
      BY <3>1 DEF PwmInv, LockInv
    <3>3. PumpWires(f.config) \cap Valves(c) = {} BY <3>2 DEF PumpStays
    <3> QED BY <2>1, <2>7, <3>1, <3>2, <3>3 DEF Writing, Carries
  <2>8. \A s \in Threads : Staged(s, w)' => s = t
    BY <1>3, <1>5 DEF Staged
  <2>9. RangeAt(w)' BY <2>2, <2>3, <2>4, <2>5, <2>6, <2>7, <2>8 DEF RangeAt
  <2>10. RampAt(w)' BY <2>2, <2>3 DEF RampAt
  <2>11. Small(c, On(c, w), writer'.counts[w], thread'[t].updates[w])
    BY <2>2, <2>3, <2>5, <2>6
  <2>12. WaitAt(w)' BY <2>7, <2>8, <2>11 DEF WaitAt, SmallFor
  <2>13. FreshAt(w)' BY <2>5 DEF FreshAt
  <2> QED BY <2>9, <2>10, <2>12, <2>13 DEF StepAt
<1> QED BY <1>6 DEF StepInv

LEMMA StepUpdateNamed ==
    ASSUME AllCalibrated, PulsesFit, PwmInv, SideInv, StepInv, NEW t \in Callers,
           NEW cmd \in Commands, UpdateNamed(t, cmd), ~Refused(t)
    PROVE  StepInv'
<1>1. PICK new \in [Wires -> Int] : \E out :
         LET bases == [w \in Driven |->
                         Undithered(On(config, w), new[w], ramp[w].pulse, ramp[w].age)]
         IN /\ config' = config
            /\ ramp' = [w \in Wires |->
                          IF w \in Driven /\ On(config, w).ramp_enable
                          THEN [pulse |-> bases[w], age |-> 0] ELSE ramp[w]]
            /\ DOMAIN out = Driven
            /\ \A w \in Driven : out[w] \in Dithered(On(config, w), bases[w])
            /\ Decides(t, "update", out)
  BY NamedDecides
<1> DEFINE bases == [w \in Driven |->
                       Undithered(On(config, w), new[w], ramp[w].pulse, ramp[w].age)]
<1>2. PICK out : /\ config' = config
                 /\ ramp' = [w \in Wires |->
                               IF w \in Driven /\ On(config, w).ramp_enable
                               THEN [pulse |-> bases[w], age |-> 0] ELSE ramp[w]]
                 /\ DOMAIN out = Driven
                 /\ \A w \in Driven : out[w] \in Dithered(On(config, w), bases[w])
                 /\ Decides(t, "update", out)
  BY <1>1
<1>3. Stages(t, "update")
  <2>1. t \in Threads /\ thread[t].at = "idle" /\ lock = Free /\ lock' = t
        /\ UNCHANGED <<config, writer, chip, failed, io>>
    BY CallersAreThreads DEF UpdateNamed, May, outputs, history
  <2> QED BY <1>2, <2>1, DecidesStages
<1>4. direct' = direct BY DEF UpdateNamed, history
<1>5. ASSUME NEW w \in Sloped(config) PROVE StepAt(w)'
  <2> DEFINE cfg == On(config, w)
             last == ramp[w].pulse
             dt == ramp[w].age
             target == BasePulse(cfg, Shaped(cfg, new[w]))
             u == Ramp(cfg, last, dt, target)
  <2>1. /\ w \in Valves(config) /\ w \in Wires /\ cfg \in ChannelType /\ ValidChannel(cfg)
        /\ Calibrated(cfg) /\ Ramped(cfg) /\ config.frequency \in FrequencyMin..FrequencyMax
        /\ Count(cfg.pulse_min, config.frequency) > 0 /\ writer.frequency = config.frequency
    BY SlopedFacts DEF PwmInv, ControllerTypes
  <2>2. w \in Driven BY <2>1 DEF Driven, Ramped
  <2>3. Undithered(cfg, new[w], last, dt) = u
    BY <2>1 DEF Undithered, Shaped, Ramped
  <2>4. last \in Int /\ dt \in Nat BY <2>1 DEF SideInv
  <2>5. target \in Int
    <3>1. new[w] \in Int BY <2>1
    <3>2. Shaped(cfg, new[w]) \in Int BY <2>1, <3>1, ShapedSide
    <3> QED BY <2>1, <3>2, BaseSide
  <2> HIDE DEF cfg, target
  <2>6. out[w] \in Dithered(cfg, u) /\ ramp'[w].pulse = u
    BY <1>2, <2>1, <2>2, <2>3 DEF cfg, Ramped
  <2>7. w \in DOMAIN thread'[t].updates /\ pulse'[w] = out[w]
    BY <1>2, <2>1, <2>2 DEF Decides
  <2>8. u \in Int BY <2>1, <2>4, <2>5, RampReach
  <2>9. out[w] \in cfg.pulse_min..cfg.pulse_max BY <2>1, <2>6, <2>8, DitherReach
  <2>10. pulse[w] \in Dithered(cfg, last) =>
            Small(config, cfg, Count(pulse[w], config.frequency), Count(out[w], config.frequency))
    BY <2>1, <2>4, <2>5, <2>6, StepIsSmall
  <2>11. ByDirect(w) \/ SmallFor(w, CountOf(pulse[w]), CountOf(pulse'[w]))
    BY <2>1, <2>7, <2>10 DEF StepInv, StepAt, RampAt, SmallFor, CountOf, cfg
  <2> QED BY <1>3, <1>4, <2>6, <2>7, <2>9, <2>11, DecisionStep DEF StepInv, cfg
<1> QED BY <1>2, <1>5 DEF StepInv

LEMMA StepUpdateNamedUs ==
    ASSUME AllCalibrated, PulsesFit, PwmInv, SideInv, StepInv, NEW t \in Callers,
           NEW cmd \in DirectCommands, UpdateNamedUs(t, cmd), ~Refused(t)
    PROVE  StepInv'
<1> DEFINE asked == {w \in Driven : NameOf(config, w) \in DOMAIN cmd}
           selected == [w \in IF UnsetToZero THEN Driven ELSE asked |->
                          IF w \in asked
                          THEN Clip(cmd[NameOf(config, w)], On(config, w).pulse_min,
                                                            On(config, w).pulse_max)
                          ELSE On(config, w).center]
<1>1. /\ config' = config /\ ramp' = ramp /\ direct' = direct
      /\ WithPump(Opened(Over(pulse, selected)), Over(pulse, selected), selected, t, "direct")
  BY DEF UpdateNamedUs, history
<1>2. DOMAIN selected \subseteq Valves(config)
  <2>1. DOMAIN selected \subseteq Driven OBVIOUS
  <2> QED BY <2>1, DrivenAreValves
<1>3. ASSUME NEW w \in Sloped(config), w \in DOMAIN selected
      PROVE  selected[w] \in On(config, w).pulse_min..On(config, w).pulse_max
  <2>1. On(config, w) \in ChannelType /\ ValidChannel(On(config, w))
    BY SlopedFacts DEF PwmInv, ControllerTypes
  <2>2. CASE w \in asked
    <3>1. cmd[NameOf(config, w)] \in Int BY <2>2, CommandAssumption
    <3>2. selected[w] = Clip(cmd[NameOf(config, w)], On(config, w).pulse_min,
                                                     On(config, w).pulse_max)
      BY <1>3, <2>2
    <3> HIDE DEF selected, asked
    <3> QED BY <2>1, <3>1, <3>2 DEF Clip, Larger, Smaller, ChannelType, ValidChannel, ValidPulses
  <2>3. CASE w \notin asked
    <3>1. selected[w] = On(config, w).center BY <1>3, <2>3
    <3> QED BY <2>1, <3>1 DEF ValidChannel
  <2> QED BY <2>2, <2>3
<1> HIDE DEF selected
<1>4. Decides(t, "direct", selected)
  BY <1>1, <1>2, CallersAreThreads, PumpDecides, Zenon DEF PwmInv
<1>5. Stages(t, "direct")
  <2>1. t \in Threads /\ thread[t].at = "idle" /\ lock = Free /\ lock' = t
        /\ UNCHANGED <<config, writer, chip, failed, io>>
    BY CallersAreThreads DEF UpdateNamedUs, May, outputs, history
  <2> QED BY <1>4, <2>1, DecidesStages
<1>6. ASSUME NEW w \in Sloped(config) PROVE StepAt(w)'
  <2>1. w \in Valves(config) BY DEF Sloped
  <2>2. w \in DOMAIN selected => pulse'[w] = selected[w] BY <1>4, <2>1 DEF Decides
  <2>3. w \in DOMAIN thread'[t].updates <=> w \in DOMAIN selected BY <1>4, <2>1 DEF Decides
  <2> QED BY <1>1, <1>3, <1>5, <2>2, <2>3, DecisionStep DEF StepInv
<1> QED BY <1>1, <1>6 DEF StepInv

\* No valve is decided on or written.
LEMMA StepKept ==
    ASSUME StepInv, config'.channels = config.channels, \A w \in Sloped(config) : Undisturbed(w)
    PROVE  StepInv'
BY UndisturbedStep, SameValves DEF StepInv, Sloped

LEMMA StepCall ==
    ASSUME AllCalibrated, PulsesFit, PwmInv, SideInv, StepInv, NEW t \in Callers, Call(t)
    PROVE  StepInv'
<1>1. t \in Threads /\ DOMAIN thread = Threads /\ \A s \in Threads : DOMAIN thread[s] = Fields
  BY CallersAreThreads DEF PwmInv, ControllerTypes
<1>2. CASE Refused(t)
  BY <1>2, StepKept DEF Refused, believed, outputs, history, Undisturbed, Pending
<1>3. CASE ~Refused(t) /\ \E cmd \in Commands : UpdateNamed(t, cmd)
  BY <1>3, StepUpdateNamed
<1>4. CASE ~Refused(t) /\ \E cmd \in DirectCommands : UpdateNamedUs(t, cmd)
  BY <1>4, StepUpdateNamedUs
<1>5. CASE CallReset(t)
  <2>1. /\ Reset(config, writer.frequency, TRUE, t, "reset") /\ lock = Free /\ lock' = t
        /\ UNCHANGED <<config, writer, chip, failed, io, direct>>
        /\ thread[t].at \notin {"staged", "writing", "parsing"}
    BY <1>5 DEF CallReset, May, outputs, history
  <2>2. TRUE \in BOOLEAN /\ "reset" \in {"reset", "reload", "cleanup", "stale"} OBVIOUS
  <2> QED BY <1>1, <2>1, <2>2, ResetStep, Zenon
<1>6. CASE SetPump(t)
  <2>1. /\ UNCHANGED <<config, writer, direct, pulse, ramp>> /\ thread[t].at = "idle"
        /\ thread' = Doing(t, "pump", "pump", <<>>) \/ thread' = thread
    BY <1>6 DEF SetPump, MayTune, May, outputs, history
  <2>2. /\ \A s \in Threads \ {t} : thread'[s] = thread[s]
        /\ thread'[t].at \in {"pump", "idle"}
    BY <1>1, <2>1, DoingThread DEF PwmInv
  <2> QED BY <2>1, <2>2, StepKept DEF Undisturbed, Pending
<1>7. CASE SetGain(t)
  <2>1. config'.channels = config.channels /\ config'.frequency = config.frequency
    BY <1>7 DEF SetGain, PwmInv, ControllerTypes
  <2>2. UNCHANGED <<writer, direct, pulse, ramp, thread>>
    BY <1>7 DEF SetGain, outputs, believed, history
  <2> QED BY <2>1, <2>2, StepKept DEF Undisturbed, Pending
<1>8. CASE DisableChannels(t)
  <2>1. UNCHANGED <<config, writer, direct, pulse, ramp, thread>>
    BY <1>8 DEF DisableChannels, outputs, believed, history
  <2> QED BY <2>1, StepKept DEF Undisturbed, Pending
<1>9. CASE StartReload(t)
  <2>1. /\ UNCHANGED <<config, writer, direct, pulse, ramp>> /\ thread[t].at = "idle"
        /\ thread' = [thread EXCEPT ![t] = [@ EXCEPT !.at = "stopping", !.job = "reload",
                                                     !.was = running]]
    BY <1>9 DEF StartReload, StopMonitoring, May, outputs, believed, history
  <2>2. /\ \A s \in Threads \ {t} : thread'[s] = thread[s]
        /\ thread'[t].at = "stopping"
    BY <1>1, <2>1 DEF Fields
  <2> QED BY <2>1, <2>2, StepKept DEF Undisturbed, Pending
<1> QED BY <1>2, <1>3, <1>4, <1>5, <1>6, <1>7, <1>8, <1>9 DEF Call

LEMMA StepProceed ==
    ASSUME PumpStays, AllCalibrated, PulsesFit, PwmInv, SideInv, StepInv,
           NEW t \in Threads, Proceed(t)
    PROVE  StepInv'
<1>1. CASE ComputePump(t)
  <2> DEFINE own == [w \in PumpWires(config) |->
                       PumpPulse(CHOOSE cfg \in config.pumps : TRUE, pump)]
             counts == [w \in DOMAIN own |-> CountOf(own[w])]
  <2>1. /\ UNCHANGED <<config, writer, direct, ramp>> /\ thread[t].at = "pump"
        /\ pulse' = Over(pulse, own)
        /\ thread' = [thread EXCEPT ![t] = Idle] \/ thread' = Doing(t, "unlocked", "pump", counts)
    BY <1>1 DEF ComputePump, outputs, history
  <2>2. DOMAIN own = PumpWires(config) OBVIOUS
  <2> HIDE DEF own, counts
  <2>3. \A w \in Valves(config) : pulse'[w] = pulse[w]
    BY <2>1, <2>2, DeployedFacts DEF Over, PwmInv, ControllerTypes
  <2>4. /\ \A s \in Threads \ {t} : thread'[s] = thread[s]
        /\ thread'[t].at \in {"idle", "unlocked"}
    BY <2>1, DoingThread DEF PwmInv, ControllerTypes, Idle
  <2> QED BY <2>1, <2>3, <2>4, StepKept DEF Undisturbed, Pending, Sloped
<1>2. CASE TakeIo(t)
  <2>1. config' = config BY <1>2 DEF TakeIo
  <2> QED BY <1>2, <2>1, TakenStep DEF StepInv
<1>3. CASE Write(t) \/ WriteFails(t)
  <2>1. Written(t) /\ config' = config
    BY <1>3, WriteIsWritten, FailureIsWritten DEF Written
  <2> QED BY <2>1, WrittenStep DEF StepInv
<1>4. CASE Neutralise(t)
  <2> DEFINE job == thread[t].job
  <2>1. /\ Reset(config, writer.frequency, TRUE, t, job) /\ lock = Free /\ lock' = t
        /\ UNCHANGED <<config, writer, chip, failed, io, direct>>
        /\ thread[t].at \notin {"staged", "writing", "parsing"}
    BY <1>4 DEF Neutralise, outputs, history
  <2>2. TRUE \in BOOLEAN /\ job \in {"reset", "reload", "cleanup", "stale"}
    BY <1>4 DEF Neutralise, PwmInv, LockInv
  <2> HIDE DEF job
  <2> QED BY <2>1, <2>2, ResetStep, Zenon
<1>5. ASSUME NEW file \in Files, ReadConfig(t, file) PROVE StepInv'
  <2>1. thread[t].at = "parsing" BY <1>5 DEF ReadConfig
  <2>2. CASE GivesUp(t)
    <3>1. t \in Callers /\ Within(t)
      BY <2>1 DEF PwmInv, LockInv, MonitorInv, MonitorSteps, Threads, Within, Nested
    <3>2. /\ UNCHANGED <<config, writer, direct, pulse, ramp>>
          /\ thread' = Restarted(t, thread[t].was)
      BY <2>2 DEF GivesUp, believed, history
    <3>3. /\ ~Pending(t)' /\ ~Pending(t)
          /\ \A s \in Threads \ {t} : thread'[s] = thread[s] \/ (~Pending(s) /\ ~Pending(s)')
      BY <2>1, <3>1, <3>2, RestartedThreads DEF Pending
    <3>4. \A s \in Threads : IF Pending(s) THEN thread'[s] = thread[s] ELSE ~Pending(s)'
      BY <3>3 DEF Pending
    <3> QED BY <3>2, <3>4, StepKept DEF Undisturbed
  <2>3. CASE ~GivesUp(t)
    <3>1. /\ Accepted(file) /\ config' = file.config /\ writer' = FreshWriter(file.config, config.pumps)
          /\ Reset(file.config, file.config.frequency, TRUE, t, "swapped")
      BY <1>5, <2>3 DEF ReadConfig
    <3> QED BY <2>1, <3>1, SwapSteps, Zenon
  <2> QED BY <2>2, <2>3
<1> QED BY <1>1, <1>2, <1>3, <1>4, <1>5 DEF Proceed

LEMMA StepNext ==
    ASSUME PumpStays, AllCalibrated, PulsesFit, PwmInv, SideInv, StepInv, [PwmNext]_pwmVars
    PROVE  StepInv'
<1>1. CASE \E t \in Callers : Call(t) BY <1>1, StepCall
<1>2. CASE \E t \in Threads : Proceed(t) BY <1>2, StepProceed
<1>3. CASE Wake \/ Rate \/ CheckStale
  <2>1. UNCHANGED <<config, writer, direct, pulse, ramp>>
    BY <1>3 DEF Wake, Rate, CheckStale, outputs, believed, history
  <2>2. /\ thread[Monitor].at \in {"asleep", "rating", "checking"}
        /\ thread'[Monitor].at \in {"rating", "checking", "stale", "asleep", "ended"}
        /\ \A s \in Threads \ {Monitor} : thread'[s] = thread[s]
    <3>1. Monitor \in Threads /\ DOMAIN thread = Threads /\ DOMAIN thread[Monitor] = Fields
      BY DEF PwmInv, ControllerTypes, Threads
    <3>2. CASE \E m \in {"rating", "checking", "stale"} : Goes(m)
      BY <1>3, <3>1, <3>2 DEF Wake, Rate, CheckStale, At, Goes, Fields
    <3>3. CASE EndPass BY <1>3, <3>1, <3>3 DEF Wake, Rate, CheckStale, At, EndPass, Idle
    <3> QED BY <1>3, <3>2, <3>3 DEF Wake, Rate, CheckStale
  <2> QED BY <2>1, <2>2, StepKept DEF Undisturbed, Pending
<1>4. CASE StaleReset
  <2>1. /\ Reset(config, writer.frequency, FALSE, Monitor, "stale") /\ lock = Free
        /\ lock' = Monitor /\ UNCHANGED <<config, writer, chip, failed, io, direct>>
        /\ thread[Monitor].at \notin {"staged", "writing", "parsing"}
    BY <1>4 DEF StaleReset, At, outputs, history
  <2>2. /\ FALSE \in BOOLEAN /\ "stale" \in {"reset", "reload", "cleanup", "stale"}
        /\ Monitor \in Threads
    BY DEF Threads
  <2> QED BY <2>1, <2>2, ResetStep, Zenon
<1>5. CASE StartCleanup
  <2>1. /\ UNCHANGED <<config, writer, direct, pulse, ramp>>
        /\ MainThread \in Threads /\ thread[MainThread].at = "idle"
        /\ thread' = [thread EXCEPT ![MainThread] = [@ EXCEPT !.at = "stopping", !.job = "cleanup",
                                                              !.was = running]]
    BY <1>5, CallersAssumption, CallersAreThreads
       DEF StartCleanup, StopMonitoring, outputs, believed, history
  <2>2. /\ \A s \in Threads \ {MainThread} : thread'[s] = thread[s]
        /\ thread'[MainThread].at = "stopping"
    BY <2>1 DEF Fields, PwmInv, ControllerTypes
  <2> QED BY <2>1, <2>2, StepKept DEF Undisturbed, Pending
<1>6. CASE PeriodPasses
  <2>1. /\ UNCHANGED <<config, writer, direct, pulse, thread>>
        /\ ramp' = [w \in DOMAIN ramp |-> [ramp[w] EXCEPT !.age = Smaller(@ + 1, RampDtMax)]]
    BY <1>6 DEF PeriodPasses, outputs, history
  <2>2. \A w \in Sloped(config) : w \in Wires
    BY DeployedFacts DEF Sloped, PwmInv, ControllerTypes
  <2>3. \A w \in Sloped(config) : ramp'[w].pulse = ramp[w].pulse
    BY <2>1, <2>2 DEF SideInv
  <2> QED BY <2>1, <2>3, StepKept DEF Undisturbed, Pending
<1>7. CASE UNCHANGED pwmVars
  <2>1. UNCHANGED <<config, writer, direct, pulse, ramp, thread>>
    BY <1>7 DEF pwmVars, outputs, believed, history
  <2> QED BY <2>1, StepKept DEF Undisturbed, Pending
<1> QED BY <1>1, <1>2, <1>3, <1>4, <1>5, <1>6, <1>7 DEF PwmNext, MonitorStep, Exited

LEMMA PwmInit_StepInv ==
    ASSUME AllCalibrated, PulsesFit, PwmInit
    PROVE  StepInv
<1> DEFINE c == FirstFile.config
           pulses == [w \in Wires |-> IF w \in DOMAIN Centres(c) THEN Centres(c)[w]
                                      ELSE IF w \in PumpWires(c) THEN PumpFloor(c)[w] ELSE 0]
           counts == [w \in Wires |-> Count(pulses[w], c.frequency)]
<1>1. /\ config = c /\ pulse = pulses /\ writer = [FreshWriter(c, c.pumps) EXCEPT !.counts = counts]
      /\ ramp = [w \in Wires |-> [pulse |-> pulses[w], age |-> 0]]
  BY DEF PwmInit
<1>2. Deployed(c) BY FileAssumption DEF Deployed
<1>3. writer.counts = counts
  <2> HIDE DEF counts
  <2> QED BY <1>1 DEF FreshWriter
<1>4. \A t \in Threads : thread[t].at \notin {"staged", "writing"}
  BY DEF PwmInit, Idle
<1>5. ASSUME NEW w \in Sloped(c) PROVE StepAt(w)
  <2> DEFINE cfg == On(c, w)
  <2>1. /\ w \in Valves(c) /\ w \in Wires /\ cfg \in ChannelType /\ ValidChannel(cfg)
        /\ c.frequency \in FrequencyMin..FrequencyMax
    BY <1>2, SlopedFacts
  <2>2. pulses[w] = cfg.center BY <2>1 DEF Centres
  <2>3. writer.counts[w] = Count(cfg.center, c.frequency) BY <1>3, <2>1, <2>2
  <2>4. pulse[w] = cfg.center /\ ramp[w].pulse = cfg.center BY <1>1, <2>1, <2>2
  <2> HIDE DEF cfg
  <2>5. cfg.center \in cfg.pulse_min..cfg.pulse_max /\ cfg.center \in Int
    BY <2>1 DEF ValidChannel, ChannelType
  <2>6. cfg.center \in Dithered(cfg, cfg.center)
    <3>1. Clip(cfg.center, cfg.pulse_min, cfg.pulse_max) = cfg.center
      BY <2>1, <2>5 DEF Clip, Larger, Smaller, ChannelType
    <3> QED BY <3>1 DEF Dithered
  <2>7. Count(cfg.center, c.frequency) \in 0..CountMax BY <2>1, <2>5, CountGrows
  <2>8. \A t \in Threads : ~Staged(t, w) /\ ~Writing(t, w) /\ ~Pending(t)
    BY <1>4 DEF Staged, Writing, Pending
  <2>9. RangeAt(w) BY <1>1, <2>3, <2>4, <2>5, <2>7, <2>8 DEF RangeAt, cfg
  <2>10. RampAt(w) BY <1>1, <2>4, <2>6 DEF RampAt, cfg
  <2>11. WaitAt(w) /\ FreshAt(w) BY <2>8 DEF WaitAt, FreshAt
  <2> QED BY <2>9, <2>10, <2>11 DEF StepAt
<1> QED BY <1>1, <1>5 DEF StepInv

LEMMA OnlyWritesReach ==
    ASSUME [PwmNext]_pwmVars, chip' # chip
    PROVE  \E t \in Threads : Write(t) \/ WriteFails(t)
<1>1. ASSUME NEW t \in Callers, Call(t) PROVE chip' = chip
  BY <1>1 DEF Call, UpdateNamed, UpdateNamedUs, Refused, CallReset, SetPump, SetGain,
              DisableChannels, StartReload, outputs
<1>2. ASSUME NEW t \in Threads, Proceed(t) PROVE chip' = chip \/ Write(t) \/ WriteFails(t)
  BY <1>2 DEF Proceed, ComputePump, TakeIo, Neutralise, ReadConfig, GivesUp, outputs
<1>3. MonitorStep \/ StartCleanup \/ PeriodPasses => chip' = chip
  BY DEF MonitorStep, Wake, Rate, CheckStale, StaleReset, StartCleanup, PeriodPasses, outputs
<1>4. UNCHANGED pwmVars => chip' = chip BY DEF pwmVars, outputs
<1> QED BY <1>1, <1>2, <1>3, <1>4 DEF PwmNext, Exited

LEMMA HeldCounts ==
    /\ \A n \in 0..CountMax : Held(Registers(n)) = n
    /\ \A regs : Held(regs) \in Int
<1>1. \A n \in 0..CountMax : Held(Registers(n)) = n BY DEF Held, Registers, CountMax
<1>2. ASSUME NEW regs PROVE Held(regs) \in Int
  <2>1. CountMax \in Int /\ \A x \in 0..CountMax : x \in Int BY DEF CountMax
  <2> QED BY <2>1 DEF Held
<1> QED BY <1>1, <1>2

LEMMA BeyondIsNatural ==
    ASSUME NEW c, NEW cfg \in ChannelType, c.frequency \in FrequencyMin..FrequencyMax
    PROVE  /\ \A side \in {-1, 1}, n \in Int : Beyond(c, cfg, side, n) \in Nat
           /\ \A side \in {-1, 1} : Beyond(c, cfg, side, 0) = 0
           /\ StepLimit(c, cfg) \in Nat
<1>1. OpenEdge(cfg) \in Int /\ CloseEdge(cfg) \in Int BY DEF ChannelType, OpenEdge, CloseEdge
<1>2. Count(OpenEdge(cfg), c.frequency) \in Nat /\ Count(CloseEdge(cfg), c.frequency) \in Nat
  BY <1>1, CountGrows
<1>3. StepLimit(c, cfg) \in Nat
  <2> DEFINE most == cfg.ramp_limit * RampDtMax
                     + (IF cfg.dither_enable THEN 2 * cfg.dither_amp_us ELSE 0)
  <2>1. most \in Int BY PulseAssumption DEF ChannelType
  <2>2. StepLimit(c, cfg) = 1 + Count(most, c.frequency) BY DEF StepLimit
  <2> HIDE DEF most
  <2>3. Count(most, c.frequency) \in Nat BY <2>1, CountGrows
  <2> QED BY <2>2, <2>3
<1> QED BY <1>2, <1>3 DEF Beyond, Larger

\* A write of a ramped valve opens it by one step at most.
LEMMA WrittenIsSmall ==
    ASSUME PumpStays, AllCalibrated, PulsesFit, PwmInv, StepInv, NEW t \in Threads, Written(t),
           ~failed, NEW w \in Sloped(config), w \notin direct \cup direct', NEW side \in {-1, 1}
    PROVE  LET cfg == On(config, w)
           IN Beyond(config, cfg, side, Held(chip'[w]))
                <= Beyond(config, cfg, side, Held(chip[w])) + StepLimit(config, cfg)
<1> DEFINE cfg == On(config, w)
           B(n) == Beyond(config, cfg, side, n)
           limit == StepLimit(config, cfg)
<1>1. /\ w \in Valves(config) /\ cfg \in ChannelType
      /\ config.frequency \in FrequencyMin..FrequencyMax
  BY SlopedFacts DEF PwmInv, ControllerTypes
<1>2. (\A n \in Int : B(n) \in Nat) /\ B(0) = 0 /\ limit \in Nat BY <1>1, BeyondIsNatural
<1>3. /\ thread[t].at = "writing"
      /\ writer'.counts[w] = IF Carries(t, w) THEN thread[t].updates[w] ELSE writer.counts[w]
      /\ chip'[w] = Registers(writer'.counts[w]) \/ chip'[w] = chip[w]
      /\ Carries(t, w) => ~Direct(t)
  BY <1>1 DEF Written, Noted, Carries, Direct
<1>4. /\ writer.counts[w] \in 0..CountMax
      /\ Carries(t, w) => /\ thread[t].updates[w] \in 0..CountMax
                          /\ SmallFor(w, writer.counts[w], thread[t].updates[w])
  BY <1>3 DEF StepInv, StepAt, RangeAt, WaitAt, Writing
<1>5. B(writer'.counts[w]) <= B(writer.counts[w]) + limit /\ writer'.counts[w] \in 0..CountMax
  <2>1. 0..CountMax \subseteq Int BY DEF CountMax
  <2>2. CASE Carries(t, w) BY <1>3, <1>4, <2>2 DEF SmallFor, Small
  <2>3. CASE ~Carries(t, w)
    <3> HIDE DEF B, limit
    <3>1. B(writer.counts[w]) \in Nat BY <1>2, <1>4, <2>1
    <3> QED BY <1>2, <1>3, <1>4, <2>3, <3>1
  <2> QED BY <2>2, <2>3
<1>6. \/ chip[w] = Registers(writer.counts[w])
      \/ writer.counts[w] = 0
  <2>1. CASE \A s \in Threads : ~(Pending(s) /\ thread[s].job = "swapped")
    BY <1>1, <2>1 DEF PwmInv, DecidedInv
  <2>2. CASE \E s \in Threads : Pending(s) /\ thread[s].job = "swapped"
    BY <2>2 DEF StepInv, StepAt, FreshAt
  <2> QED BY <2>1, <2>2
<1>7. chip[w] = Registers(writer.counts[w]) => Held(chip[w]) = writer.counts[w]
  <2>1. Held(Registers(writer.counts[w])) = writer.counts[w] BY <1>4, HeldCounts
  <2> QED BY <2>1
<1>8. chip'[w] = Registers(writer'.counts[w]) => Held(chip'[w]) = writer'.counts[w]
  <2>1. writer'.counts[w] \in 0..CountMax BY <1>5
  <2>2. Held(Registers(writer'.counts[w])) = writer'.counts[w] BY <2>1, HeldCounts
  <2> QED BY <2>2
<1>9. Held(chip[w]) \in Int /\ Held(chip'[w]) \in Int BY HeldCounts
<1>10. /\ B(Held(chip[w])) \in Nat /\ B(Held(chip'[w])) \in Nat /\ B(0) = 0
       /\ B(writer.counts[w]) \in Nat /\ B(writer'.counts[w]) \in Nat
  <2>1. 0..CountMax \subseteq Int BY DEF CountMax
  <2> HIDE DEF B
  <2>2. writer.counts[w] \in Int /\ writer'.counts[w] \in Int BY <1>4, <1>5, <2>1
  <2> QED BY <1>2, <1>9, <2>2
<1> SUFFICES B(Held(chip'[w])) <= B(Held(chip[w])) + limit
  OBVIOUS
<1> HIDE DEF B, limit, cfg
<1>11. B(writer.counts[w]) <= B(Held(chip[w])) BY <1>6, <1>7, <1>10
<1>12. CASE chip'[w] = Registers(writer'.counts[w])
  BY <1>2, <1>5, <1>8, <1>10, <1>11, <1>12
<1>13. CASE chip'[w] = chip[w] BY <1>2, <1>10, <1>13
<1> QED BY <1>3, <1>12, <1>13

\* A ramped valve opens in steps however long the calls stayed away ("a stalled loop cannot
\* create a giant one-shot jump"), whatever commands, resets, reloads and failed writes do
\* meanwhile, and reload_config swaps the channels under centred valves only.
THEOREM ValvesNeverJump ==
    ASSUME PumpStays, AllCalibrated, PulsesFit
    PROVE  PwmSpec => NoValveJumps
<1> DEFINE Step ==
        (~failed /\ chip' # chip) =>
          \A cfg \in ChannelsOf(config), side \in {-1, 1} :
              LET w == cfg.output_channel
              IN (Ramped(cfg) /\ w \notin direct \cup direct') =>
                    Beyond(config, cfg, side, Held(chip'[w]))
                        <= Beyond(config, cfg, side, Held(chip[w])) + StepLimit(config, cfg)
<1>1. ASSUME PwmInv, StepInv, [PwmNext]_pwmVars PROVE Step
  <2> SUFFICES ASSUME ~failed, chip' # chip, NEW cfg \in ChannelsOf(config), NEW side \in {-1, 1},
                      Ramped(cfg), cfg.output_channel \notin direct \cup direct'
               PROVE  Beyond(config, cfg, side, Held(chip'[cfg.output_channel]))
                        <= Beyond(config, cfg, side, Held(chip[cfg.output_channel]))
                             + StepLimit(config, cfg)
    OBVIOUS
  <2>1. PICK n \in DOMAIN config.channels : cfg = config.channels[n] BY DEF ChannelsOf
  <2>2. Deployed(config) BY <1>1 DEF PwmInv, ControllerTypes
  <2>3. /\ cfg.output_channel \in Sloped(config)
        /\ On(config, cfg.output_channel) = cfg
    BY <2>1, <2>2, DeployedFacts DEF Sloped
  <2>4. PICK t \in Threads : Write(t) \/ WriteFails(t) BY <1>1, OnlyWritesReach
  <2>5. Written(t) BY <1>1, <2>4, WriteIsWritten, FailureIsWritten
  <2> DEFINE w == cfg.output_channel
  <2>6. w \in Sloped(config) /\ w \notin direct \cup direct' BY <2>3
  <2> HIDE DEF w
  <2>7. Beyond(config, On(config, w), side, Held(chip'[w]))
           <= Beyond(config, On(config, w), side, Held(chip[w])) + StepLimit(config, On(config, w))
    BY <1>1, <2>5, <2>6, WrittenIsSmall
  <2> QED BY <2>3, <2>7 DEF w
<1>2. PwmInv /\ StepInv /\ [PwmNext]_pwmVars => [Step]_pwmVars BY <1>1
<1>3. PwmInv /\ SideInv /\ [PwmNext]_pwmVars => SideInv' BY SideNext
<1>4. PwmInv /\ SideInv /\ StepInv /\ [PwmNext]_pwmVars => StepInv' BY StepNext
<1>5. PwmInit => StepInv BY PwmInit_StepInv
<1>6. PwmSpec => NoGiantStep
  BY <1>2, <1>3, <1>4, <1>5, PwmInit_SideInv, PwmAlways, PTL DEF PwmSpec, NoGiantStep
<1> QED BY <1>6, SwapsAreNeutral DEF NoValveJumps
=============================================================================
