----------------------------- MODULE ValvePulse -----------------------------
(***************************************************************************)
(* The arithmetic of the frozen Python reference's PWM output              *)
(* (reference/modules/pwm): how a normalised command becomes a pulse, a    *)
(* pulse a count and a count the registers of the PCA9685, and which       *)
(* configuration files are accepted.  Pulses are whole microseconds,       *)
(* commands are multiples of 1/Unit, and time is counted in ticks.         *)
(***************************************************************************)
EXTENDS Integers

CONSTANTS
    Unit,       \* a full command, 1.0
    RampDtMax   \* PWMConstants.RAMP_DT_MAX in ticks

ASSUME PulseAssumption == Unit \in Nat \ {0} /\ RampDtMax \in Nat \ {0}

CountMax == 4095   \* PCA9685_COUNT_MAX
PulseMin == 0
PulseMax == 4095
FrequencyMin == 30
FrequencyMax == 1000
Outputs == 0..15   \* MAX_CHANNELS
Canonical == {"slew", "boom", "arm", "bucket", "trackL", "trackR"}

Larger(a, b) == IF a >= b THEN a ELSE b
Smaller(a, b) == IF a <= b THEN a ELSE b
Clip(x, low, high) == Larger(low, Smaller(high, x))
Size(x) == Larger(x, -x)
Sign(x) == IF x > 0 THEN 1 ELSE IF x < 0 THEN -1 ELSE 0
-----------------------------------------------------------------------------
(* From a command to a pulse. *)

\* A configuration gives its dead zone in units of a command.
Deadzone(v, threshold) ==
    IF threshold <= 0 THEN v
    ELSE IF Size(v) < threshold \/ threshold >= Unit THEN 0
    ELSE Sign(v) * (((Size(v) - threshold) * Unit) \div (Unit - threshold))

\* Symmetric shaping, for natural exponents, rounded away from zero: no command is lost.
Powers(x) == <<1, x, x * x, x * x * x, x * x * x * x, x * x * x * x * x>>
Gamma(v, g) ==
    LET unit == Powers(Unit)[g]
    IN IF g = 1 \/ v = 0 THEN v
       ELSE Sign(v) * ((Powers(Size(v))[g + 1] + unit - 1) \div unit)

OpenEdge(cfg) == cfg.center + cfg.deadband_us_pos
CloseEdge(cfg) == cfg.center - cfg.deadband_us_neg

BasePulse(cfg, v) ==
    CASE v * cfg.direction = 0 -> cfg.center
      [] v * cfg.direction > 0 ->
            OpenEdge(cfg) + (Size(v) * (cfg.pulse_max - OpenEdge(cfg))) \div Unit
      [] OTHER ->
            CloseEdge(cfg) - (Size(v) * (CloseEdge(cfg) - cfg.pulse_min)) \div Unit

DitherAmplitude(cfg, pulse) ==
    LET beyond == IF pulse > cfg.center THEN pulse - OpenEdge(cfg) ELSE CloseEdge(cfg) - pulse
    IN IF ~cfg.dither_taper THEN cfg.dither_amp_us
       ELSE (cfg.dither_amp_us * Clip(beyond, 0, cfg.dither_taper_us)) \div cfg.dither_taper_us

\* Room for the swing inside the pulse limits.
ClampForDither(cfg, pulse, amp) ==
    LET low == cfg.pulse_min + Larger(0, amp)
        high == cfg.pulse_max - Larger(0, amp)
    IN IF low > high THEN (cfg.pulse_min + cfg.pulse_max) \div 2 ELSE Clip(pulse, low, high)

\* Where the slew begins: skipping the dead band, a valve that leaves the centre or
\* crosses it starts from the edge on its new side.
SlewFrom(cfg, last, target) ==
    IF ~cfg.ramp_skip_deadband THEN last
    ELSE CASE last <= cfg.center /\ target > cfg.center -> OpenEdge(cfg)
           [] last >= cfg.center /\ target < cfg.center -> CloseEdge(cfg)
           [] OTHER -> last

\* The edge is already as far as the target, or further.
AtEdge(cfg, last, from, target) ==
    /\ from # last
    /\ IF last = cfg.center THEN target = from
       ELSE Sign(target - from) # Sign(target - cfg.center)

\* The pulse a ramped valve gets, dt ticks after the last one.
Ramp(cfg, last, dt, target) ==
    LET from == SlewFrom(cfg, last, target)
        step == cfg.ramp_limit * Smaller(dt, RampDtMax)
        moved == from + Clip(target - from, -step, step)
        centred == /\ cfg.ramp_skip_deadband /\ target = cfg.center
                   /\ CloseEdge(cfg) < moved /\ moved < OpenEdge(cfg)
    IN IF cfg.ramp_limit <= 0 \/ AtEdge(cfg, last, from, target) THEN target
       ELSE IF dt = 0 THEN from
       ELSE Clip(IF centred THEN cfg.center ELSE moved, cfg.pulse_min, cfg.pulse_max)

\* The pulse before dither, which is also what the ramp remembers.
Undithered(cfg, v, last, dt) ==
    LET base == BasePulse(cfg, Gamma(Deadzone(v, cfg.deadzone), cfg.gamma))
    IN IF cfg.ramp_enable THEN Ramp(cfg, last, dt, base) ELSE base

\* The pulses a call may put out, at the extremes of the sine.
Dithered(cfg, base) ==
    LET room == ClampForDither(cfg, base, DitherAmplitude(cfg, base))
        amp == DitherAmplitude(cfg, room)
        swings == IF cfg.dither_enable /\ cfg.dither_amp_us # 0 /\ base # cfg.center
                  THEN {room - amp, room + amp} ELSE {base}
    IN {Clip(p, cfg.pulse_min, cfg.pulse_max) : p \in swings}
-----------------------------------------------------------------------------
(* From a pulse to the chip. *)

Period(frequency) == 1000000 \div frequency
Count(pulse, frequency) == Clip((pulse * CountMax) \div Period(frequency), 0, CountMax)

\* flush: full on and full off have a bit of their own.
Registers(count) ==
    IF count >= CountMax THEN <<4096, 0>> ELSE IF count <= 0 THEN <<0, 4096>> ELSE <<0, count>>
-----------------------------------------------------------------------------
(* From a pump setting to a pulse, and from pulses to the pump's activity. *)

PumpPulse(cfg, pump) ==
    LET auto == cfg.base_pulse_us
                + (cfg.activity_gain_us * pump.activity_sum)
                  \div (Unit * Larger(1, pump.activity_count))
        set == IF pump.direct # {} THEN CHOOSE p \in pump.direct : TRUE
               ELSE IF pump.auto THEN auto ELSE cfg.static_pulse_us
    IN IF ~pump.enabled THEN cfg.pulse_min ELSE Clip(set, cfg.pulse_min, cfg.pulse_max)

\* How far a pulse is from the centre, in units of a command.
Activity(cfg, pulse) ==
    LET span == Larger(Size(cfg.pulse_max - cfg.center), Size(cfg.center - cfg.pulse_min))
    IN IF span <= 0 THEN 0 ELSE Clip((Unit * Size(pulse - cfg.center)) \div span, 0, Unit)
-----------------------------------------------------------------------------
(* Which configurations are accepted. *)

ValidPulses(cfg) ==
    /\ cfg.pulse_min \in PulseMin..PulseMax
    /\ cfg.pulse_max \in PulseMin..PulseMax
    /\ cfg.pulse_min < cfg.pulse_max

ValidChannel(cfg) ==
    LET span == cfg.pulse_max - cfg.pulse_min
    IN /\ cfg.direction \in {-1, 1}
       /\ cfg.output_channel \in Outputs
       /\ ValidPulses(cfg)
       /\ cfg.center \in cfg.pulse_min..cfg.pulse_max
       /\ \A band \in {cfg.deadband_us_pos, cfg.deadband_us_neg} : band >= 0 /\ 2 * band <= span
       /\ cfg.dither_amp_us >= 0 /\ 4 * cfg.dither_amp_us <= span
       /\ cfg.dither_enable => /\ cfg.dither_amp_us > 0
                               /\ cfg.dither_taper => cfg.dither_taper_us > 0
       /\ cfg.ramp_enable => cfg.ramp_limit > 0
       /\ cfg.gamma \in 1..5

ValidPump(cfg) ==
    /\ cfg.output_channel \in Outputs
    /\ ValidPulses(cfg)
    /\ cfg.static_pulse_us \in cfg.pulse_min..cfg.pulse_max
    /\ cfg.base_pulse_us \in cfg.pulse_min..cfg.pulse_max
    /\ cfg.activity_gain_us \in 0..(cfg.pulse_max - cfg.pulse_min)

\* channels maps the names of the enabled channels to their settings; pumps holds the
\* settings of the pump, if there is one.
Validated(config) ==
    /\ config.frequency \in FrequencyMin..FrequencyMax
    /\ DOMAIN config.channels # {} \/ config.pumps # {}
    /\ \A n \in DOMAIN config.channels : ValidChannel(config.channels[n])
    /\ \A cfg \in config.pumps : ValidPump(cfg)
    /\ \A m, n \in DOMAIN config.channels :
          m # n => config.channels[m].output_channel # config.channels[n].output_channel
    /\ \A n \in DOMAIN config.channels, cfg \in config.pumps :
          config.channels[n].output_channel # cfg.output_channel

\* The types that the reader of the file insists on; there is at most one pump.
ChannelType ==
    [output_channel : Int, pulse_min : Int, pulse_max : Int, direction : Int, center : Int,
     deadzone : Int, affects_pump : BOOLEAN, toggleable : BOOLEAN, deadband_us_pos : Int,
     deadband_us_neg : Int, dither_enable : BOOLEAN, dither_amp_us : Int, dither_taper : BOOLEAN,
     dither_taper_us : Int, ramp_enable : BOOLEAN, ramp_limit : Int,
     ramp_skip_deadband : BOOLEAN, gamma : Int]
PumpType ==
    [output_channel : Int, pulse_min : Int, pulse_max : Int, static_pulse_us : Int,
     base_pulse_us : Int, activity_gain_us : Int]
Typed(config) ==
    /\ DOMAIN config = {"channels", "pumps", "frequency"}
    /\ \A n \in DOMAIN config.channels : config.channels[n] \in ChannelType
    /\ config.pumps \subseteq PumpType
    /\ \A a, b \in config.pumps : a = b

\* A file: whether it is found and parses to mappings, the names under CHANNEL_CONFIGS,
\* whether every enabled entry has its keys with values of their types, and what it says.
Accepted(file) ==
    /\ file.readable
    /\ Canonical \subseteq file.names
    /\ file.typed
    /\ Validated(file.config)
=============================================================================
