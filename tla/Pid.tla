-------------------------------- MODULE Pid --------------------------------
(***************************************************************************)
(* The PID controller of reference/modules/pid.py: integral limits, a      *)
(* derivative of the measurement behind a filter, and an integrator that   *)
(* stands still while the output is saturated on the side of the error.    *)
(* Numbers are integers in a unit in which every quotient of the run is    *)
(* one; the filter, whose weight depends on the time between two calls,    *)
(* may take any step towards the raw derivative.                           *)
(***************************************************************************)
EXTENDS Integers

CONSTANTS
    Kp, Ki, Kd, MinOutput, MaxOutput,
    Values, Steps, Limits \* inputs: measurements and setpoints, times between calls, limits set later

\* The anti-windup compares the sign of the output with that of the error, which
\* takes a positive integral gain and an output range around zero.
ASSUME GainAssumption == Ki \in Nat \ {0} /\ Kp \in Int /\ Kd \in Int
ASSUME RangeAssumption ==
    /\ MinOutput \in Int /\ MaxOutput \in Int /\ MinOutput <= 0 /\ 0 <= MaxOutput
    /\ MinOutput % Ki = 0 /\ MaxOutput % Ki = 0
ASSUME InputAssumption ==
    /\ Values \subseteq Int /\ Steps \subseteq Nat \ {0}
    /\ Limits \subseteq {pair \in Int \X Int : pair[1] <= 0 /\ 0 <= pair[2]}

VARIABLES
    Imin, Imax, integral_sum, last_value, d_filt,
    asked, out \* history: what compute last wanted (unsat) and what it returned

limits == <<Imin, Imax>>
pid == <<limits, integral_sum, last_value, d_filt, asked, out>>

NoValue == <<>>

PidTypeOK ==
    /\ Imin \in Int /\ Imax \in Int /\ integral_sum \in Int
    /\ last_value \in {NoValue} \cup {<<v>> : v \in Int} /\ d_filt \in Int /\ asked \in Int /\ out \in Int

\* By default the integral term alone can drive the output through its range.
PidInit ==
    /\ Imin = MinOutput \div Ki /\ Imax = MaxOutput \div Ki
    /\ integral_sum = 0 /\ last_value = NoValue /\ d_filt = 0 /\ asked = 0 /\ out = 0

-----------------------------------------------------------------------------
Clamp(x, low, high) == IF x < low THEN low ELSE IF x > high THEN high ELSE x
Between(a, b) == IF a <= b THEN a .. b ELSE b .. a

RawDerivative(value, dt) == IF last_value = NoValue THEN 0 ELSE (last_value[1] - value) \div dt
Tentative(error, dt) == Clamp(integral_sum + error * dt, Imin, Imax)

\* Mutant of Winds: the output is not compared with what was asked for.
Winds_Never(error, unsat) == FALSE
\* Saturated, and the error would push further into the limit.
Winds(error, unsat) ==
    /\ Clamp(unsat, MinOutput, MaxOutput) # unsat
    /\ \/ unsat > 0 /\ error > 0
       \/ unsat < 0 /\ error < 0

Compute(setpoint, value, dt) ==
    \E d \in Between(d_filt, RawDerivative(value, dt)) :
        LET error == setpoint - value
            unsat == Kp * error + Ki * Tentative(error, dt) + Kd * d
        IN  /\ d_filt' = d /\ last_value' = <<value>>
            /\ integral_sum' = IF Winds(error, unsat) THEN integral_sum ELSE Tentative(error, dt)
            /\ asked' = unsat /\ out' = Clamp(unsat, MinOutput, MaxOutput)
            /\ UNCHANGED limits
PidReset(keep_integral) ==
    /\ integral_sum' = IF keep_integral THEN integral_sum ELSE 0
    /\ last_value' = NoValue /\ d_filt' = 0
    /\ UNCHANGED <<limits, asked, out>>
SetLimits(low, high) ==
    /\ Imin' = low /\ Imax' = high
    /\ integral_sum' = Clamp(integral_sum, low, high)
    /\ UNCHANGED <<last_value, d_filt, asked, out>>

PidNext ==
    \/ \E setpoint, value \in Values, dt \in Steps : Compute(setpoint, value, dt)
    \/ \E keep \in BOOLEAN : PidReset(keep)
    \/ \E pair \in Limits : SetLimits(pair[1], pair[2])
PidSpec == PidInit /\ [][PidNext]_pid

-----------------------------------------------------------------------------
(* Properties.                                                             *)

\* Whatever is measured, and whatever order of calls, resets and new limits: the
\* output stays in its range and the integral in its limits (compute,
\* set_integral_limits).
InLimits == out \in MinOutput .. MaxOutput /\ integral_sum \in Imin .. Imax

\* No windup: a call that saturates never moves the integral further into the limit
\* at which the output stands, whatever the derivative does (compute).
NeverWindsUp ==
    [][UNCHANGED limits /\ last_value' # NoValue =>
          /\ asked' > MaxOutput => integral_sum' <= integral_sum
          /\ asked' < MinOutput => integral_sum' >= integral_sum]_pid

\* The controller is bounded and does not wind up, under any order of calls.
PidIsSound == []InLimits /\ NeverWindsUp
=============================================================================
