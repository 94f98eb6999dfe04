----------------------------- MODULE Excitation -----------------------------
(***************************************************************************)
(* The valve excitation of reference/simple_drive.py: a randomized sine, a *)
(* chirp and a stroke under joint feedback, all entered through a taper    *)
(* and started over as a numbered block.  Time is counted in ticks from    *)
(* the start of the block; a waveform is abstracted to the sign of its     *)
(* carrier, which may be either at any tick, so that a signal is the       *)
(* largest the waveform may give: of a sine, with its noise at its clip on *)
(* the carrier's side.  Levels are in percent of a valve's range.          *)
(***************************************************************************)
EXTENDS Integers, Sequences

CONSTANTS
    Joints,
    Modes,          \* the cycle of targets: a sequence of sets of joints
    RampTicks,      \* RAMP_S
    AmplitudePct,   \* amp: the amplitude given, or the one drawn
    CeilingPct,     \* what a sine is clipped to: the amplitude given, or else 100
    NoisePct,       \* the most its noise adds, in percent of amp
    SweepTicks, HoldTicks, \* sweep_s and HOLD_S of the chirp
    Limits,         \* joint_limits_relative: a joint's lowest and highest angle
    Margin,         \* margin_deg
    StrokeStep,     \* degrees a reference moves in a tick
    MaxStrokeTicks, \* the most ticks it moves for at once
    GainPct,        \* gain_per_deg
    ValveLimitPct   \* valve_limit

\* What the command line and the constructors accept.
ValidArguments == AmplitudePct \in 1..100 /\ {SweepTicks, StrokeStep, Margin} \subseteq Nat \ {0}
ValidStroke ==
    /\ ValveLimitPct \in 1..100 /\ GainPct \in Nat \ {0}
    /\ Limits \in [Joints -> Int \X Int]
    /\ \A j \in Joints : Limits[j][2] - Limits[j][1] > 2 * Margin
ASSUME ExcitationAssumption ==
    /\ Len(Modes) > 0 /\ \A i \in DOMAIN Modes : Modes[i] \subseteq Joints
    /\ RampTicks \in Nat \ {0} /\ HoldTicks \in Nat /\ MaxStrokeTicks \in Nat
    /\ ValidArguments /\ ValidStroke
    /\ CeilingPct \in {AmplitudePct, 100} /\ NoisePct \in Nat

NoAngle == [j \in Joints |-> 0]
Clip(x, limit) == IF x > limit THEN limit ELSE IF x < -limit THEN -limit ELSE x
Within(x, low, high) == IF x < low THEN low ELSE IF x > high THEN high ELSE x

Cycle == 2 * SweepTicks + HoldTicks
\* The elapsed time, kept no longer than a waveform can tell.
Kept(wave, elapsed) ==
    IF wave = "chirp" THEN elapsed % Cycle ELSE Within(elapsed, 0, RampTicks)

target_joints(e) == Modes[e.target]
-----------------------------------------------------------------------------
(* Blocks.  directions are the first directions of the strokes. *)

NoStroke(e, directions) ==
    [e EXCEPT !.ref = [j \in {} |-> 0], !.dir = directions,
              !.strokes = [j \in Joints |-> 0], !.since = -1]
randomize(e, directions) ==
    [NoStroke(e, directions) EXCEPT !.block = @ + 1, !.started = FALSE, !.elapsed = 0]
\* An explicit seed, with which the blocks are numbered from 0 again.
reseed(e, directions) == randomize([e EXCEPT !.block = -1], directions)
\* Mutant of toggle: switching on goes on where the last excitation was.
toggle_Resumes(e, directions) == [e EXCEPT !.enabled = ~@]
toggle(e, directions) ==
    IF e.enabled THEN [e EXCEPT !.enabled = FALSE]
                 ELSE randomize([e EXCEPT !.enabled = TRUE], directions)
disable(e) == [e EXCEPT !.enabled = FALSE]
step_target(e, step, directions) ==
    randomize([e EXCEPT !.target = ((@ - 1 + step) % Len(Modes)) + 1], directions)

NewExcitation(wave, directions) ==
    reseed([wave |-> wave, enabled |-> FALSE, target |-> 1, block |-> -1, started |-> FALSE,
            elapsed |-> 0, angles |-> NoAngle, observed |-> FALSE,
            ref |-> [j \in {} |-> 0], dir |-> directions,
            strokes |-> [j \in Joints |-> 0], since |-> -1], directions)
\* The waveform of the command line, with its first target.
make_excitation(wave, directions) == [NewExcitation(wave, directions) EXCEPT !.target = 1]

\* Time passes; nothing reads the elapsed time of an excitation that is off.
Later(e, ticks) ==
    [e EXCEPT !.elapsed = IF e.started /\ e.enabled THEN Kept(e.wave, @ + ticks) ELSE @,
              !.since = IF @ < 0 THEN @ ELSE Within(@ + ticks, 0, MaxStrokeTicks)]
-----------------------------------------------------------------------------
(* Signals. *)

\* observed: the pose has a clock of the sensors.
observe(e, angles, observed) ==
    [e EXCEPT !.observed = observed, !.angles = IF observed THEN angles ELSE NoAngle]

\* The raised cosine of _ramp, 0 at 0 and 100 from RampTicks on.
Ramp(ticks) == (Within(ticks, 0, RampTicks) * 100) \div RampTicks

\* Carrier and noise together, before the taper; the clip comes after it.
Swing == (AmplitudePct * (100 + NoisePct)) \div 100
SineSize(ticks) == Within((Ramp(ticks) * Swing) \div 100, 0, CeilingPct)

\* The largest signal, ticks after the waveform was entered.
Level(e, ticks) ==
    CASE e.wave = "sine" -> SineSize(ticks)
      [] e.wave = "chirp" -> (Ramp(ticks) * AmplitudePct) \div 100
      [] OTHER -> (Ramp(ticks) * (ValveLimitPct + AmplitudePct)) \div 100

Driven(e, j) == e.enabled /\ j \in target_joints(e)
Lowest(j) == Limits[j][1] + Margin
Highest(j) == Limits[j][2] - Margin

\* The references of the targeted joints move on and turn at the ends; a joint outside its
\* limits ends the excitation.
NextRef(e, j) ==
    LET from == IF j \in DOMAIN e.ref THEN e.ref[j]
                ELSE Within(e.angles[j], Lowest(j), Highest(j))
        dt == IF e.since < 0 THEN 0 ELSE e.since
    IN from + e.dir[j] * StrokeStep * dt
Turns(e, j) == NextRef(e, j) \notin Lowest(j)..Highest(j)
_advance(e) ==
    LET moving == target_joints(e)
        turning == {j \in moving : Turns(e, j)}
    IN IF \E j \in moving : e.angles[j] \notin Limits[j][1]..Limits[j][2]
       THEN [disable(e) EXCEPT !.since = 0]
       ELSE [e EXCEPT !.since = 0,
                !.ref = [j \in moving \cup DOMAIN @ |->
                            IF j \in moving THEN Within(NextRef(e, j), Lowest(j), Highest(j))
                                            ELSE @[j]],
                !.dir = [j \in Joints |-> IF j \in turning THEN -@[j] ELSE @[j]],
                !.strokes = [j \in Joints |-> IF j \in turning THEN 1 - @[j] ELSE @[j]]]

\* The stroke waits for a pose.
Blind(e) == e.wave = "stroke" /\ ~e.observed
\* The state after get_all, and the signal of a joint with the carrier's sign.
Sampled(e) ==
    IF ~e.enabled \/ Blind(e) THEN [e EXCEPT !.since = -1]
    ELSE LET moved == IF e.wave = "stroke" THEN _advance(e) ELSE e
         IN [moved EXCEPT !.started = @ \/ moved.enabled]
sine_signal(e, sign) == sign * SineSize(e.elapsed)
chirp_signal(e, sign) ==
    LET taper == (Ramp(e.elapsed) * Ramp(2 * SweepTicks - e.elapsed)) \div 100
    IN IF e.elapsed >= 2 * SweepTicks THEN 0 ELSE sign * ((taper * AmplitudePct) \div 100)
stroke_signal(e, j, sign) ==
    LET base == Clip(GainPct * (e.ref[j] - e.angles[j]), ValveLimitPct)
        overlay == IF e.strokes[j] = 0 THEN sign * AmplitudePct ELSE 0
        level == base + overlay
        size == (Ramp(e.elapsed) * (IF level < 0 THEN -level ELSE level)) \div 100
    IN Clip(IF level < 0 THEN -size ELSE size, 100)
get_signal(e, j, sign) ==
    IF ~Driven(e, j) \/ Blind(e) THEN 0
    ELSE CASE e.wave = "sine" -> sine_signal(e, sign)
           [] e.wave = "chirp" -> chirp_signal(e, sign)
           [] OTHER -> stroke_signal(e, j, sign)

\* The stage that metadata gives a sample.
sine_stage(e) == IF e.enabled THEN "run" ELSE "off"
chirp_stage(e) ==
    IF ~e.enabled THEN "off" ELSE IF e.elapsed < SweepTicks THEN "up"
    ELSE IF e.elapsed < 2 * SweepTicks THEN "down" ELSE "rest"
stroke_stage(e) ==
    IF ~e.enabled THEN "off"
    ELSE IF \E j \in target_joints(e) : e.strokes[j] = 0 THEN "stroke+chirp" ELSE "stroke"
stage(e) == CASE e.wave = "sine" -> sine_stage(e)
              [] e.wave = "chirp" -> chirp_stage(e)
              [] OTHER -> stroke_stage(e)
get_all(e, sign) == [j \in Joints |-> get_signal(e, j, sign)]
=============================================================================
