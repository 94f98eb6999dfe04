---------------------------- MODULE ValveOutput ----------------------------
(***************************************************************************)
(* valve_pulse of native_stack/src/core.cpp: how a command becomes the     *)
(* pulse of one calibrated valve.  The pulse a command asks for is         *)
(* approached by a ramp that remembers the last pulse, and a dither swings *)
(* around what the ramp gives.                                             *)
(*                                                                         *)
(* Pulses are whole numbers.  The dead zone and the gamma of a valve are   *)
(* one curve from the size of a command to a share of the stroke: any      *)
(* curve that starts at nothing and never falls.                           *)
(***************************************************************************)
EXTENDS SafetyCore

CONSTANTS
    ValveNames,  \* the valves of the profile, the axes among them
    Calibration, \* the settings of each valve
    CurveUnit,   \* a whole stroke in the units of the curves
    RampWindow,  \* the longest time a ramp makes up for in one step (0.05 s)
    SineUnit     \* how finely the sine of the dither is told apart

\* A full command (1.0) in the units of Command.
FullCommand == Full * RowTime * DecayScale

\* ramp_limit = 0 stands for a valve without ramp, dither_amp = 0 for one without dither.
ValveType ==
    [min : Nat, center : Nat, max : Nat, direction : {-1, 1},
     deadband_pos : Nat, deadband_neg : Nat, curve : [0 .. FullCommand -> 0 .. CurveUnit],
     ramp_limit : Nat, skip_deadband : BOOLEAN,
     dither_amp : Nat, taper : BOOLEAN, taper_us : Nat]

UpperEdge(v) == v.center + v.deadband_pos
LowerEdge(v) == v.center - v.deadband_neg

\* What load_hardware_config requires of a valve, and what its curve does.
Calibratable(v) ==
    /\ v.min < v.center /\ v.center < v.max
    /\ UpperEdge(v) <= v.max /\ v.min <= LowerEdge(v)
    /\ v.curve[0] = 0
    /\ \A x, y \in 0 .. FullCommand : x <= y => v.curve[x] <= v.curve[y]

ASSUME UnitAssumption ==
    /\ CurveUnit \in Nat \ {0} /\ SineUnit \in Nat \ {0} /\ RampWindow \in Nat
    /\ Axes \subseteq ValveNames
ASSUME CalibrationAssumption ==
    /\ Calibration \in [ValveNames -> ValveType]
    /\ \A n \in ValveNames : Calibratable(Calibration[n])

-----------------------------------------------------------------------------
\* The pulse a command asks for.
TargetPulse(v, command) ==
    LET size == IF Abs(command) > FullCommand THEN FullCommand ELSE Abs(command)
        share == v.curve[size]
    IN  IF share = 0 THEN v.center
        ELSE IF command * v.direction > 0
        THEN UpperEdge(v) + (share * (v.max - UpperEdge(v))) \div CurveUnit
        ELSE LowerEdge(v) - (share * (LowerEdge(v) - v.min)) \div CurveUnit

RampState == [pulse : Int, time : Nat, initialized : BOOLEAN]
NoRamp == [pulse |-> 0, time |-> 0, initialized |-> FALSE]

\* Where a ramp starts: one that skips the dead band starts at the edge it leaves by.
RampStart(v, last, target) ==
    IF v.skip_deadband /\ last <= v.center /\ target > v.center THEN UpperEdge(v)
    ELSE IF v.skip_deadband /\ last >= v.center /\ target < v.center THEN LowerEdge(v)
    ELSE last

RampPulse(v, target, now, state) ==
    LET from == RampStart(v, state.pulse, target)
        allowed == v.ramp_limit * Clamp(now - state.time, 0, RampWindow)
        moved == from + Clamp(target - from, -allowed, allowed)
    IN  IF v.ramp_limit = 0 \/ ~state.initialized THEN target
        ELSE IF /\ v.skip_deadband /\ target = v.center
                /\ LowerEdge(v) < moved /\ moved < UpperEdge(v)
        THEN v.center
        ELSE moved

\* The dither, which may fade towards the edge of the dead band.
Amplitude(v, pulse) ==
    LET beyond == IF pulse > v.center THEN pulse - UpperEdge(v) ELSE LowerEdge(v) - pulse
        fade == IF v.taper_us = 0 THEN 1 ELSE v.taper_us
    IN  IF ~v.taper THEN v.dither_amp
        ELSE (v.dither_amp * Clamp(beyond, 0, fade)) \div fade

\* Room for the swing is made inside the limits, then the pulse swings; sine is in
\* -SineUnit .. SineUnit.
Dither(v, base, sine) ==
    LET amp == Amplitude(v, base)
        room == IF v.min + amp > v.max - amp THEN (v.min + v.max) \div 2
                ELSE Clamp(base, v.min + amp, v.max - amp)
        swung == room + (Amplitude(v, room) * sine) \div SineUnit
    IN  Clamp(IF v.dither_amp = 0 \/ base = v.center THEN base ELSE swung, v.min, v.max)
=============================================================================
