---------------------------- MODULE Joints_proofs ----------------------------
(***************************************************************************)
(* Proofs about the components that measure the joints and drive them.     *)
(*                                                                         *)
(* Pid, for all gains, output ranges, measurements and limits that its     *)
(* assumptions allow: its output and its integral stay in their ranges,    *)
(* and its integral does not wind up.                                      *)
(*                                                                         *)
(* PidCollector, for any set of joints: CollectorIsSafe is not inductive,  *)
(* and CollectorInv adds what each step of a tick leaves to the next one.  *)
(*                                                                         *)
(* ImuParser, for every stream: TickInv and LossInv rest on Window, which  *)
(* says which stretch of the transmission the buffer holds.                *)
(*                                                                         *)
(* ImuReader, for any set of sensors and any thresholds: FramesInv says    *)
(* what each step of a publication and of a copy has done, and bounds the  *)
(* age of a value by the failures and the repeats that were counted.       *)
(***************************************************************************)
EXTENDS Pid, PidCollector, ImuParser, ImuReader, SequenceTheorems, TLAPS

-----------------------------------------------------------------------------
(* Pid.                                                                    *)

\* What every call finds: the limits lie around zero, where a reset puts the integral.
LimitsHoldZero == Imin <= 0 /\ 0 <= Imax
IInv == PidTypeOK /\ LimitsHoldZero /\ InLimits

\* A clamped number lies between the bounds.
LEMMA ClampBounds ==
    ASSUME NEW n \in Int, NEW low \in Int, NEW high \in Int, low <= high
    PROVE  Clamp(n, low, high) \in low .. high
BY DEF Clamp

\* Clamping a step down from inside the bounds does not go up.
LEMMA ClampDown ==
    ASSUME NEW n \in Int, NEW low \in Int, NEW high \in Int, NEW from \in low .. high, n <= from
    PROVE  Clamp(n, low, high) <= from
BY DEF Clamp

\* Clamping a step up from inside the bounds does not go down.
LEMMA ClampUp ==
    ASSUME NEW n \in Int, NEW low \in Int, NEW high \in Int, NEW from \in low .. high, n >= from
    PROVE  Clamp(n, low, high) >= from
BY DEF Clamp

\* What a product with a positive time tells of the sign of the error.
LEMMA StepSign ==
    ASSUME NEW error \in Int, NEW dt \in Nat \ {0}
    PROVE  /\ error * dt \in Int
           /\ error <= 0 => error * dt <= 0
           /\ error >= 0 => error * dt >= 0
BY Z3

\* The default limits lie around zero.
LEMMA DefaultsHoldZero ==
    /\ MinOutput \div Ki \in Int /\ MaxOutput \div Ki \in Int
    /\ MinOutput \div Ki <= 0 /\ 0 <= MaxOutput \div Ki
BY GainAssumption, RangeAssumption, Z3

\* The derivative is a number.
LEMMA DerivativeIsInt ==
    ASSUME PidTypeOK, NEW value \in Values, NEW dt \in Steps, NEW d \in Between(d_filt, RawDerivative(value, dt))
    PROVE  d \in Int
<1>1. value \in Int /\ dt \in Nat \ {0}
  BY InputAssumption
<1>2. ASSUME last_value # NoValue
      PROVE  last_value[1] \in Int
  BY <1>2 DEF PidTypeOK
<1>3. RawDerivative(value, dt) \in Int
  BY <1>1, <1>2, Z3 DEF RawDerivative
<1>4. QED
  BY <1>3 DEF Between, PidTypeOK

\* What one call computes.
LEMMA ComputeStep ==
    ASSUME IInv, NEW setpoint \in Values, NEW value \in Values, NEW dt \in Steps, Compute(setpoint, value, dt)
    PROVE  /\ IInv'
           /\ asked' > MaxOutput => integral_sum' <= integral_sum
           /\ asked' < MinOutput => integral_sum' >= integral_sum
<1> DEFINE error == setpoint - value
           sum == integral_sum + error * dt
           tentative == Tentative(error, dt)
<1>1. error \in Int /\ dt \in Nat \ {0} /\ value \in Int
  BY InputAssumption
<1>2. /\ error * dt \in Int
      /\ error <= 0 => error * dt <= 0
      /\ error >= 0 => error * dt >= 0
  BY <1>1, StepSign
<1>3. /\ Imin \in Int /\ Imax \in Int /\ Imin <= Imax /\ integral_sum \in Imin .. Imax
      /\ sum \in Int
      /\ error <= 0 => sum <= integral_sum
      /\ error >= 0 => sum >= integral_sum
  <2> HIDE DEF error
  <2>1. /\ Imin \in Int /\ Imax \in Int /\ Imin <= Imax /\ integral_sum \in Imin .. Imax
        /\ integral_sum \in Int
    BY DEF IInv, PidTypeOK, LimitsHoldZero, InLimits
  <2> DEFINE step == error * dt
  <2>2. step \in Int /\ (error <= 0 => step <= 0) /\ (error >= 0 => step >= 0)
    BY <1>2
  <2> HIDE DEF step
  <2>3. sum = integral_sum + step
    BY DEF step
  <2> HIDE DEF sum
  <2>4. QED
    BY <2>1, <2>2, <2>3
<1>4a. tentative = Clamp(sum, Imin, Imax)
  BY DEF Tentative
<1> HIDE DEF sum, tentative
<1>4. /\ tentative \in Imin .. Imax
      /\ error <= 0 => tentative <= integral_sum
      /\ error >= 0 => tentative >= integral_sum
  <2>1. tentative \in Imin .. Imax
    BY <1>3, <1>4a, ClampBounds
  <2>2. error <= 0 => tentative <= integral_sum
    BY <1>3, <1>4a, ClampDown
  <2>3. error >= 0 => tentative >= integral_sum
    BY <1>3, <1>4a, ClampUp
  <2>4. QED
    BY <2>1, <2>2, <2>3
<1> HIDE DEF error
<1>5. PICK d \in Between(d_filt, RawDerivative(value, dt)) :
        LET unsat == Kp * error + Ki * tentative + Kd * d
        IN  /\ d_filt' = d /\ last_value' = <<value>>
            /\ integral_sum' = IF Winds(error, unsat) THEN integral_sum ELSE tentative
            /\ asked' = unsat /\ out' = Clamp(unsat, MinOutput, MaxOutput)
            /\ UNCHANGED limits
  BY DEF Compute, error, tentative
<1>6. d \in Int
  BY DerivativeIsInt DEF IInv
<1> DEFINE unsat == Kp * error + Ki * tentative + Kd * d
<1>7. unsat \in Int
  BY <1>1, <1>3, <1>4, <1>6, GainAssumption, Z3
<1> HIDE DEF unsat
<1>8. /\ d_filt' = d /\ last_value' = <<value>>
      /\ integral_sum' = IF Winds(error, unsat) THEN integral_sum ELSE tentative
      /\ asked' = unsat /\ out' = Clamp(unsat, MinOutput, MaxOutput)
      /\ Imin' = Imin /\ Imax' = Imax
  BY <1>5 DEF unsat, limits
<1>9. integral_sum' \in Imin .. Imax
  BY <1>3, <1>4, <1>8
<1>10. out' \in MinOutput .. MaxOutput
  BY <1>7, <1>8, ClampBounds, RangeAssumption, SMTT(30)
<1>11. IInv'
  BY <1>1, <1>3, <1>6, <1>7, <1>8, <1>9, <1>10, RangeAssumption, SMTT(30) DEF IInv, PidTypeOK, LimitsHoldZero, InLimits
<1>12. ASSUME asked' > MaxOutput
       PROVE  integral_sum' <= integral_sum
  <2>1. CASE error > 0
    <3>1. Winds(error, unsat)
      BY <1>7, <1>8, <1>12, <2>1, RangeAssumption DEF Winds, Clamp
    <3>2. QED
      BY <3>1, <1>3, <1>8
  <2>2. CASE error <= 0
    BY <1>3, <1>4, <1>8, <2>2
  <2>3. QED
    BY <1>1, <2>1, <2>2 DEF error
<1>13. ASSUME asked' < MinOutput
       PROVE  integral_sum' >= integral_sum
  <2>1. CASE error < 0
    <3>1. Winds(error, unsat)
      BY <1>7, <1>8, <1>13, <2>1, RangeAssumption DEF Winds, Clamp
    <3>2. QED
      BY <3>1, <1>3, <1>8
  <2>2. CASE error >= 0
    BY <1>3, <1>4, <1>8, <2>2
  <2>3. QED
    BY <1>1, <2>1, <2>2 DEF error
<1>14. QED
  BY <1>11, <1>12, <1>13

\* A reset puts the integral to zero or leaves it.
LEMMA ResetStep ==
    ASSUME IInv, NEW keep \in BOOLEAN, PidReset(keep)
    PROVE  IInv'
BY DEF IInv, PidTypeOK, LimitsHoldZero, InLimits, PidReset, limits

\* New limits take the integral with them.
LEMMA SetLimitsStep ==
    ASSUME IInv, NEW pair \in Limits, SetLimits(pair[1], pair[2])
    PROVE  IInv'
<1>1. pair[1] \in Int /\ pair[2] \in Int /\ pair[1] <= 0 /\ 0 <= pair[2]
  BY InputAssumption
<1>2. integral_sum \in Int /\ pair[1] <= pair[2]
  BY <1>1 DEF IInv, PidTypeOK
<1>2a. Clamp(integral_sum, pair[1], pair[2]) \in pair[1] .. pair[2]
  BY <1>1, <1>2, ClampBounds
<1>3. QED
  BY <1>1, <1>2a DEF IInv, PidTypeOK, LimitsHoldZero, InLimits, SetLimits

\* Nothing that a call could see changes.
LEMMA StutterStep ==
    ASSUME IInv, UNCHANGED pid
    PROVE  IInv'
BY DEF IInv, PidTypeOK, LimitsHoldZero, InLimits, pid, limits

\* The invariant is inductive.
LEMMA Inductive ==
    /\ PidInit => IInv
    /\ IInv /\ [PidNext]_pid => IInv'
<1>1. PidInit => IInv
  BY DefaultsHoldZero, RangeAssumption DEF PidInit, IInv, PidTypeOK, LimitsHoldZero, InLimits
<1>2. ASSUME IInv, [PidNext]_pid
      PROVE  IInv'
  BY <1>2, ComputeStep, ResetStep, SetLimitsStep, StutterStep DEF PidNext
<1>3. QED
  BY <1>1, <1>2

\* Every behaviour keeps the invariant.
LEMMA Invariance == PidSpec => []IInv
BY Inductive, PTL DEF PidSpec

\* The output and the integral never leave their ranges, for all gains and inputs
\* (compute, reset, set_integral_limits).
THEOREM PidStaysInLimits == PidSpec => []InLimits
<1>1. IInv => InLimits
  BY DEF IInv
<1>2. QED
  BY <1>1, Invariance, PTL

\* A saturated call never moves the integral further, for all gains and inputs:
\* saturated above, either the error is positive and the integrator stands still,
\* or it is not and the step goes down (compute).
THEOREM PidNeverWindsUp == PidSpec => NeverWindsUp
<1> DEFINE Moves == UNCHANGED limits /\ last_value' # NoValue =>
                        /\ asked' > MaxOutput => integral_sum' <= integral_sum
                        /\ asked' < MinOutput => integral_sum' >= integral_sum
<1>1. ASSUME IInv, PidNext
      PROVE  Moves
  <2>1. CASE \E setpoint, value \in Values, dt \in Steps : Compute(setpoint, value, dt)
    BY <1>1, <2>1, ComputeStep
  <2>2. CASE \E keep \in BOOLEAN : PidReset(keep)
    BY <2>2 DEF PidReset
  <2>3. ASSUME NEW pair \in Limits, SetLimits(pair[1], pair[2]), UNCHANGED limits
        PROVE  integral_sum' = integral_sum
    BY <1>1, <2>3 DEF SetLimits, Clamp, IInv, PidTypeOK, InLimits, limits
  <2>4. QED
    BY <1>1, <2>1, <2>2, <2>3 DEF PidNext, IInv, PidTypeOK
<1>2. IInv /\ [PidNext]_pid => [Moves]_pid
  BY <1>1
<1>3. QED
  BY <1>2, Invariance, PTL DEF PidSpec, NeverWindsUp

\* Both at once, as the run checks them.
THEOREM PidStaysSound == PidSpec => PidIsSound
BY PidStaysInLimits, PidNeverWindsUp DEF PidIsSound

-----------------------------------------------------------------------------
(* PidCollector.                                                           *)

\* The types of PidCollector in three parts.
Booleans ==
    /\ sticks \in BOOLEAN /\ fresh \in BOOLEAN /\ reset \in BOOLEAN
    /\ active \in BOOLEAN /\ pump \in BOOLEAN /\ input \in BOOLEAN /\ recording \in BOOLEAN
    /\ overlay \in BOOLEAN /\ failed \in BOOLEAN
    /\ initialized \in BOOLEAN /\ recovering \in BOOLEAN /\ left \in BOOLEAN
Controls ==
    /\ scripted \in BOOLEAN /\ requests \subseteq Buttons
    /\ at \in {"read", "record", "decide", "step", "write", "push", "gone"}
Outputs ==
    /\ segment \in Segments /\ held \in [Joints -> Segments]
    /\ frame \in [active : BOOLEAN, valid : BOOLEAN, overlay : BOOLEAN, assist : [Joints -> Segments]]
    /\ written \in [manual : BOOLEAN, overlay : BOOLEAN, assist : [Joints -> Segments]]

\* The three parts are the type invariant.
LEMMA TypeParts == CollectorTypeOK <=> Booleans /\ Controls /\ Outputs
BY DEF CollectorTypeOK, Booleans, Controls, Outputs

\* From Decide to the next read a running PID has what it needs to run.
RunsReady == at \in {"step", "write", "push", "read"} /\ active => Ready(fresh) /\ ~sticks
\* A recovery is the history's, and has no overlay and only its own outputs.
Recovery ==
    /\ active => left = recovering
    /\ recovering => ~overlay
HeldFits == \A j \in Joints : held[j] \in {"none", IF recovering THEN "recovery" ELSE "random"}
\* What a frame carries to the valves is what the controller holds.
FrameFits ==
    at = "write" =>
        IF frame.valid THEN active /\ frame.assist = held /\ frame.overlay = overlay
        ELSE frame.assist = NoPid /\ ~frame.overlay

\* The inductive invariant.
CollectorInv ==
    /\ Booleans /\ Controls /\ Outputs
    /\ OffIsReset /\ RunsReady /\ Recovery /\ HeldFits /\ FrameFits /\ RecoveryHolds

\* The loop starts with everything off and nothing held.
LEMMA InitInv == CollectorInit => CollectorInv
<1> SUFFICES ASSUME CollectorInit PROVE CollectorInv
  OBVIOUS
<1>1. Booleans
  BY DEF CollectorInit, Booleans
<1>2. Controls
  BY DEF CollectorInit, Controls
<1>3. Outputs
  BY DEF CollectorInit, Outputs, NoPid, Neutral, NoFrame, Segments
<1>4. OffIsReset /\ RunsReady /\ Recovery
  BY DEF CollectorInit, OffIsReset, RunsReady, Recovery
<1>5. HeldFits /\ FrameFits /\ RecoveryHolds
  BY DEF CollectorInit, HeldFits, FrameFits, RecoveryHolds, NoPid
<1> QED
  BY <1>1, <1>2, <1>3, <1>4, <1>5 DEF CollectorInv

\* Every flag stays a flag.
LEMMA BooleansKeep ==
    ASSUME Booleans, [CollectorNext]_collectorVars
    PROVE  Booleans'
<1>1. ASSUME ReadInput PROVE Booleans'
  <2>1. reset' \in BOOLEAN /\ failed' \in BOOLEAN /\ recording' \in BOOLEAN
    BY <1>1 DEF ReadInput, Packet, Booleans
  <2>2. sticks' \in BOOLEAN /\ input' \in BOOLEAN
    BY <1>1 DEF ReadInput, Booleans
  <2>3. /\ active' \in BOOLEAN /\ pump' \in BOOLEAN /\ overlay' \in BOOLEAN
        /\ initialized' \in BOOLEAN /\ recovering' \in BOOLEAN
    BY <1>1 DEF ReadInput, Pause, Halt, ResetController, controller, Booleans
  <2>4. fresh' \in BOOLEAN /\ left' \in BOOLEAN
    BY <1>1 DEF ReadInput, Booleans
  <2> QED
    BY <2>1, <2>2, <2>3, <2>4 DEF Booleans
<1>2. ASSUME Quit PROVE Booleans'
  BY <1>2 DEF Quit, Leave, Pause, Halt, ResetController, read, Booleans
<1>3. ASSUME Fails PROVE Booleans'
  BY <1>3 DEF Fails, Leave, Pause, Halt, ResetController, Booleans
<1>4. ASSUME WriterFails PROVE Booleans'
  BY <1>4 DEF WriterFails, read, flags, controller, Booleans
<1>5. ASSUME WriteFails PROVE Booleans'
  BY <1>5 DEF WriteFails, Leave, Pause, Halt, ResetController, Booleans
<1>6. ASSUME NEW opened \in BOOLEAN, NEW late \in BOOLEAN, NEW spoilt \in BOOLEAN, Serve(opened, late, spoilt) PROVE Booleans'
  BY <1>6 DEF Serve, Begins, Ends, Pumps, Pause, ResetController, Go, controller, Booleans
<1>7. ASSUME NEW usable \in BOOLEAN, Decide(usable) PROVE Booleans'
  BY <1>7 DEF Decide, Stops, Starts, Ready, ResetController, Go, controller, Booleans
<1>8. ASSUME Waits PROVE Booleans'
  BY <1>8 DEF Waits, Go, read, flags, controller, Booleans
<1>9. ASSUME Interrupted PROVE Booleans'
  BY <1>9 DEF Interrupted, Pause, ResetController, Go, read, Booleans
<1>10. ASSUME Guarded PROVE Booleans'
  BY <1>10 DEF Guarded, Go, read, flags, controller, Booleans
<1>11. ASSUME Unguarded PROVE Booleans'
  BY <1>11 DEF Unguarded, Pause, ResetController, Go, read, Booleans
<1>12. ASSUME PushRow PROVE Booleans'
  BY <1>12 DEF PushRow, Go, read, flags, controller, Booleans
<1>13. ASSUME Refused PROVE Booleans'
  BY <1>13 DEF Refused, Leave, Pause, Halt, ResetController, Booleans
<1>14. ASSUME NEW place \in Places, Unreachable(place) PROVE Booleans'
  BY <1>14 DEF Unreachable, Go, read, flags, Booleans
<1>15. ASSUME NEW place \in Places, NEW due \in SUBSET Joints, Step(place, due) PROVE Booleans'
  BY <1>15 DEF Step, Recovers, Leaves, Reenters, Go, read, flags, Booleans
<1>16. ASSUME UNCHANGED collectorVars PROVE Booleans'
  BY <1>16 DEF collectorVars, read, flags, controller, Booleans
<1> QED
  BY <1>1, <1>2, <1>3, <1>4, <1>5, <1>6, <1>7, <1>8, <1>9, <1>10, <1>11, <1>12, <1>13, <1>14, <1>15, <1>16 DEF CollectorNext

\* The steps and the buttons keep their types.
LEMMA ControlsKeep ==
    ASSUME Controls, [CollectorNext]_collectorVars
    PROVE  Controls'
<1>1. ASSUME ReadInput PROVE Controls'
  BY <1>1 DEF ReadInput, Packet, Go, read, Controls
<1>2. ASSUME Quit PROVE Controls'
  BY <1>2 DEF Quit, Leave, read, Controls
<1>3. ASSUME Fails PROVE Controls'
  BY <1>3 DEF Fails, Leave, read, Controls
<1>4. ASSUME WriterFails PROVE Controls'
  BY <1>4 DEF WriterFails, read, Controls
<1>5. ASSUME WriteFails PROVE Controls'
  BY <1>5 DEF WriteFails, Leave, read, Controls
<1>6. ASSUME NEW opened \in BOOLEAN, NEW late \in BOOLEAN, NEW spoilt \in BOOLEAN, Serve(opened, late, spoilt) PROVE Controls'
  BY <1>6 DEF Serve, Go, read, Controls
<1>7. ASSUME NEW usable \in BOOLEAN, Decide(usable) PROVE Controls'
  BY <1>7 DEF Decide, Go, read, Controls
<1>8. ASSUME Waits PROVE Controls'
  BY <1>8 DEF Waits, Go, read, Controls
<1>9. ASSUME Interrupted PROVE Controls'
  BY <1>9 DEF Interrupted, Go, read, Controls
<1>10. ASSUME Guarded PROVE Controls'
  BY <1>10 DEF Guarded, Go, read, Controls
<1>11. ASSUME Unguarded PROVE Controls'
  BY <1>11 DEF Unguarded, Go, read, Controls
<1>12. ASSUME PushRow PROVE Controls'
  BY <1>12 DEF PushRow, Go, read, Controls
<1>13. ASSUME Refused PROVE Controls'
  BY <1>13 DEF Refused, Leave, read, Controls
<1>14. ASSUME NEW place \in Places, Unreachable(place) PROVE Controls'
  BY <1>14 DEF Unreachable, Go, read, Controls
<1>15. ASSUME NEW place \in Places, NEW due \in SUBSET Joints, Step(place, due) PROVE Controls'
  BY <1>15 DEF Step, Go, read, Controls
<1>16. ASSUME UNCHANGED collectorVars PROVE Controls'
  BY <1>16 DEF collectorVars, read, Controls
<1> QED
  BY <1>1, <1>2, <1>3, <1>4, <1>5, <1>6, <1>7, <1>8, <1>9, <1>10, <1>11, <1>12, <1>13, <1>14, <1>15, <1>16 DEF CollectorNext

\* The outputs keep their shapes.
LEMMA OutputsKeep ==
    ASSUME Outputs, Booleans, [CollectorNext]_collectorVars
    PROVE  Outputs'
<1>1. ASSUME ReadInput PROVE Outputs'
  BY <1>1 DEF ReadInput, Packet, Pause, Halt, ResetController, Go, read, controller, Outputs,
         Booleans, NoPid, Segments
<1>2. ASSUME Quit PROVE Outputs'
  BY <1>2 DEF Quit, Leave, Pause, Halt, ResetController, read, Outputs, Booleans, NoPid, Neutral,
         Segments
<1>3. ASSUME Fails PROVE Outputs'
  BY <1>3 DEF Fails, Leave, Pause, Halt, ResetController, Outputs, Booleans, NoPid, Neutral,
         Segments
<1>4. ASSUME WriterFails PROVE Outputs'
  BY <1>4 DEF WriterFails, read, flags, controller, Outputs, Booleans, Segments
<1>5. ASSUME WriteFails PROVE Outputs'
  BY <1>5 DEF WriteFails, Leave, Pause, Halt, ResetController, Outputs, Booleans, NoPid, Neutral,
         Segments
<1>6. ASSUME NEW opened \in BOOLEAN, NEW late \in BOOLEAN, NEW spoilt \in BOOLEAN, Serve(opened, late, spoilt) PROVE Outputs'
  BY <1>6 DEF Serve, Pause, ResetController, Go, controller, Outputs, Booleans, NoPid, Segments
<1>7. ASSUME NEW usable \in BOOLEAN, Decide(usable) PROVE Outputs'
  BY <1>7 DEF Decide, ResetController, Go, controller, Outputs, Booleans, NoPid, Segments
<1>8. ASSUME Waits PROVE Outputs'
  BY <1>8 DEF Waits, Go, read, flags, controller, Outputs, Booleans, NoPid, NoFrame, Segments
<1>9. ASSUME Interrupted PROVE Outputs'
  BY <1>9 DEF Interrupted, Pause, ResetController, Go, read, Outputs, Booleans, NoPid, NoFrame,
         Segments
<1>10. ASSUME Guarded PROVE Outputs'
  BY <1>10 DEF Guarded, Go, read, flags, controller, Outputs, Booleans, NoPid, Neutral, Segments
<1>11. ASSUME Unguarded PROVE Outputs'
  BY <1>11 DEF Unguarded, Pause, ResetController, Go, read, Outputs, Booleans, NoPid, Neutral,
         Segments
<1>12. ASSUME PushRow PROVE Outputs'
  BY <1>12 DEF PushRow, Go, read, flags, controller, Outputs, Booleans, Segments
<1>13. ASSUME Refused PROVE Outputs'
  BY <1>13 DEF Refused, Leave, Pause, Halt, ResetController, Outputs, Booleans, NoPid, Neutral,
         Segments
<1>14. ASSUME NEW place \in Places, Unreachable(place) PROVE Outputs'
  BY <1>14 DEF Unreachable, Cleared, Go, read, flags, Outputs, Booleans, NoPid, NoFrame, Segments
<1>15. ASSUME NEW place \in Places, NEW due \in SUBSET Joints, Step(place, due) PROVE Outputs'
  BY <1>15 DEF Step, Computed, Kept, Cleared, Mode, Recovers, Leaves, Reenters, Go, read, flags,
         Outputs, Booleans, NoPid, Segments
<1>16. ASSUME UNCHANGED collectorVars PROVE Outputs'
  BY <1>16 DEF collectorVars, read, flags, controller, Outputs, Booleans, Segments
<1> QED
  BY <1>1, <1>2, <1>3, <1>4, <1>5, <1>6, <1>7, <1>8, <1>9, <1>10, <1>11, <1>12, <1>13, <1>14, <1>15, <1>16 DEF CollectorNext

\* Whatever stops the PID resets it.
LEMMA OffStaysReset ==
    ASSUME Booleans, OffIsReset, [CollectorNext]_collectorVars
    PROVE  OffIsReset'
<1>1. ASSUME ReadInput PROVE OffIsReset'
  BY <1>1 DEF ReadInput, Packet, Pause, Halt, ResetController, Go, read, controller, Booleans,
         OffIsReset
<1>2. ASSUME Quit PROVE OffIsReset'
  BY <1>2 DEF Quit, Leave, Pause, Halt, ResetController, read, Booleans, OffIsReset
<1>3. ASSUME Fails PROVE OffIsReset'
  BY <1>3 DEF Fails, Leave, Pause, Halt, ResetController, Booleans, OffIsReset
<1>4. ASSUME WriterFails PROVE OffIsReset'
  BY <1>4 DEF WriterFails, read, flags, controller, Booleans, OffIsReset
<1>5. ASSUME WriteFails PROVE OffIsReset'
  BY <1>5 DEF WriteFails, Leave, Pause, Halt, ResetController, Booleans, OffIsReset
<1>6. ASSUME NEW opened \in BOOLEAN, NEW late \in BOOLEAN, NEW spoilt \in BOOLEAN, Serve(opened, late, spoilt) PROVE OffIsReset'
  BY <1>6 DEF Serve, Pauses, Pause, ResetController, Go, controller, Booleans, OffIsReset
<1>7. ASSUME NEW usable \in BOOLEAN, Decide(usable) PROVE OffIsReset'
  BY <1>7 DEF Decide, Stops, Starts, Ready, ResetController, Go, controller, Booleans, OffIsReset
<1>8. ASSUME Waits PROVE OffIsReset'
  BY <1>8 DEF Waits, Go, read, flags, controller, Booleans, OffIsReset
<1>9. ASSUME Interrupted PROVE OffIsReset'
  BY <1>9 DEF Interrupted, Pause, ResetController, Go, read, Booleans, OffIsReset
<1>10. ASSUME Guarded PROVE OffIsReset'
  BY <1>10 DEF Guarded, Go, read, flags, controller, Booleans, OffIsReset
<1>11. ASSUME Unguarded PROVE OffIsReset'
  BY <1>11 DEF Unguarded, Pause, ResetController, Go, read, Booleans, OffIsReset
<1>12. ASSUME PushRow PROVE OffIsReset'
  BY <1>12 DEF PushRow, Go, read, flags, controller, Booleans, OffIsReset
<1>13. ASSUME Refused PROVE OffIsReset'
  BY <1>13 DEF Refused, Leave, Pause, Halt, ResetController, Booleans, OffIsReset
<1>14. ASSUME NEW place \in Places, Unreachable(place) PROVE OffIsReset'
  BY <1>14 DEF Unreachable, Go, read, flags, Booleans, OffIsReset
<1>15. ASSUME NEW place \in Places, NEW due \in SUBSET Joints, Step(place, due) PROVE OffIsReset'
  BY <1>15 DEF Step, Go, read, flags, Booleans, OffIsReset
<1>16. ASSUME UNCHANGED collectorVars PROVE OffIsReset'
  BY <1>16 DEF collectorVars, read, flags, controller, Booleans, OffIsReset
<1> QED
  BY <1>1, <1>2, <1>3, <1>4, <1>5, <1>6, <1>7, <1>8, <1>9, <1>10, <1>11, <1>12, <1>13, <1>14, <1>15, <1>16 DEF CollectorNext

\* Decide stops a PID that lost what it needs; until the next read nothing takes it away.
LEMMA RunsStayReady ==
    ASSUME Booleans, RunsReady, [CollectorNext]_collectorVars
    PROVE  RunsReady'
<1>1. ASSUME ReadInput PROVE RunsReady'
  BY <1>1 DEF ReadInput, Packet, Pause, Halt, ResetController, Go, read, controller, Booleans,
         RunsReady, Ready
<1>2. ASSUME Quit PROVE RunsReady'
  BY <1>2 DEF Quit, Leave, Pause, Halt, ResetController, read, Booleans, RunsReady, Ready
<1>3. ASSUME Fails PROVE RunsReady'
  BY <1>3 DEF Fails, Leave, Pause, Halt, ResetController, read, Booleans, RunsReady, Ready
<1>4. ASSUME WriterFails PROVE RunsReady'
  BY <1>4 DEF WriterFails, read, flags, controller, Booleans, RunsReady, Ready
<1>5. ASSUME WriteFails PROVE RunsReady'
  BY <1>5 DEF WriteFails, Leave, Pause, Halt, ResetController, read, Booleans, RunsReady, Ready
<1>6. ASSUME NEW opened \in BOOLEAN, NEW late \in BOOLEAN, NEW spoilt \in BOOLEAN, Serve(opened, late, spoilt) PROVE RunsReady'
  BY <1>6 DEF Serve, Pause, ResetController, Go, read, controller, Booleans, RunsReady, Ready
<1>7. ASSUME NEW usable \in BOOLEAN, Decide(usable) PROVE RunsReady'
  BY <1>7 DEF Decide, Stops, Starts, ResetController, Go, read, controller, Booleans, RunsReady,
         Ready
<1>8. ASSUME Waits PROVE RunsReady'
  BY <1>8 DEF Waits, Go, read, flags, controller, Booleans, RunsReady, Ready
<1>9. ASSUME Interrupted PROVE RunsReady'
  BY <1>9 DEF Interrupted, Pause, ResetController, Go, read, Booleans, RunsReady, Ready
<1>10. ASSUME Guarded PROVE RunsReady'
  BY <1>10 DEF Guarded, Go, read, flags, controller, Booleans, RunsReady, Ready
<1>11. ASSUME Unguarded PROVE RunsReady'
  BY <1>11 DEF Unguarded, Pause, ResetController, Go, read, Booleans, RunsReady, Ready
<1>12. ASSUME PushRow PROVE RunsReady'
  BY <1>12 DEF PushRow, Go, read, flags, controller, Booleans, RunsReady, Ready
<1>13. ASSUME Refused PROVE RunsReady'
  BY <1>13 DEF Refused, Leave, Pause, Halt, ResetController, read, Booleans, RunsReady, Ready
<1>14. ASSUME NEW place \in Places, Unreachable(place) PROVE RunsReady'
  BY <1>14 DEF Unreachable, Go, read, flags, Booleans, RunsReady, Ready
<1>15. ASSUME NEW place \in Places, NEW due \in SUBSET Joints, Step(place, due) PROVE RunsReady'
  BY <1>15 DEF Step, Go, read, flags, Booleans, RunsReady, Ready
<1>16. ASSUME UNCHANGED collectorVars PROVE RunsReady'
  BY <1>16 DEF collectorVars, read, flags, controller, Booleans, RunsReady, Ready
<1> QED
  BY <1>1, <1>2, <1>3, <1>4, <1>5, <1>6, <1>7, <1>8, <1>9, <1>10, <1>11, <1>12, <1>13, <1>14, <1>15, <1>16 DEF CollectorNext

\* The controller recovers exactly while the history says the pose was out.
LEMMA RecoveryKeeps ==
    ASSUME Booleans, OffIsReset, Recovery, [CollectorNext]_collectorVars
    PROVE  Recovery'
<1>1. ASSUME ReadInput PROVE Recovery'
  BY <1>1 DEF ReadInput, Packet, Pause, Halt, ResetController, Go, read, controller, Booleans,
         OffIsReset, Recovery
<1>2. ASSUME Quit PROVE Recovery'
  BY <1>2 DEF Quit, Leave, Pause, Halt, ResetController, read, Booleans, OffIsReset, Recovery
<1>3. ASSUME Fails PROVE Recovery'
  BY <1>3 DEF Fails, Leave, Pause, Halt, ResetController, Booleans, OffIsReset, Recovery
<1>4. ASSUME WriterFails PROVE Recovery'
  BY <1>4 DEF WriterFails, read, flags, controller, Booleans, OffIsReset, Recovery
<1>5. ASSUME WriteFails PROVE Recovery'
  BY <1>5 DEF WriteFails, Leave, Pause, Halt, ResetController, Booleans, OffIsReset, Recovery
<1>6. ASSUME NEW opened \in BOOLEAN, NEW late \in BOOLEAN, NEW spoilt \in BOOLEAN, Serve(opened, late, spoilt) PROVE Recovery'
  BY <1>6 DEF Serve, Pauses, Pause, ResetController, Go, controller, Booleans, OffIsReset, Recovery
<1>7. ASSUME NEW usable \in BOOLEAN, Decide(usable) PROVE Recovery'
  BY <1>7 DEF Decide, Stops, Starts, Ready, ResetController, Go, controller, Booleans,
         OffIsReset, Recovery
<1>8. ASSUME Waits PROVE Recovery'
  BY <1>8 DEF Waits, Go, read, flags, controller, Booleans, OffIsReset, Recovery
<1>9. ASSUME Interrupted PROVE Recovery'
  BY <1>9 DEF Interrupted, Pause, ResetController, Go, read, Booleans, OffIsReset, Recovery
<1>10. ASSUME Guarded PROVE Recovery'
  BY <1>10 DEF Guarded, Go, read, flags, controller, Booleans, OffIsReset, Recovery
<1>11. ASSUME Unguarded PROVE Recovery'
  BY <1>11 DEF Unguarded, Pause, ResetController, Go, read, Booleans, OffIsReset, Recovery
<1>12. ASSUME PushRow PROVE Recovery'
  BY <1>12 DEF PushRow, Go, read, flags, controller, Booleans, OffIsReset, Recovery
<1>13. ASSUME Refused PROVE Recovery'
  BY <1>13 DEF Refused, Leave, Pause, Halt, ResetController, Booleans, OffIsReset, Recovery
<1>14. ASSUME NEW place \in Places, Unreachable(place) PROVE Recovery'
  BY <1>14 DEF Unreachable, Recovers, Leaves, Reenters, Go, read, flags, Booleans, OffIsReset,
         Recovery
<1>15. ASSUME NEW place \in Places, NEW due \in SUBSET Joints, Step(place, due) PROVE Recovery'
  BY <1>15 DEF Step, Mode, Recovers, Leaves, Reenters, Go, read, flags, Booleans, OffIsReset,
         Recovery
<1>16. ASSUME UNCHANGED collectorVars PROVE Recovery'
  BY <1>16 DEF collectorVars, read, flags, controller, Booleans, OffIsReset, Recovery
<1> QED
  BY <1>1, <1>2, <1>3, <1>4, <1>5, <1>6, <1>7, <1>8, <1>9, <1>10, <1>11, <1>12, <1>13, <1>14, <1>15, <1>16 DEF CollectorNext

\* An output of the other mode is never held over.
LEMMA HeldKeepsFitting ==
    ASSUME Booleans, Outputs, HeldFits, [CollectorNext]_collectorVars
    PROVE  HeldFits'
<1>1. ASSUME ReadInput PROVE HeldFits'
  BY <1>1 DEF ReadInput, Packet, Pause, Halt, ResetController, Go, read, controller, Booleans,
         Outputs, HeldFits, NoPid
<1>2. ASSUME Quit PROVE HeldFits'
  BY <1>2 DEF Quit, Leave, Pause, Halt, ResetController, read, Booleans, Outputs, HeldFits, NoPid
<1>3. ASSUME Fails PROVE HeldFits'
  BY <1>3 DEF Fails, Leave, Pause, Halt, ResetController, Booleans, Outputs, HeldFits, NoPid
<1>4. ASSUME WriterFails PROVE HeldFits'
  BY <1>4 DEF WriterFails, read, flags, controller, Booleans, Outputs, HeldFits
<1>5. ASSUME WriteFails PROVE HeldFits'
  BY <1>5 DEF WriteFails, Leave, Pause, Halt, ResetController, Booleans, Outputs, HeldFits, NoPid
<1>6. ASSUME NEW opened \in BOOLEAN, NEW late \in BOOLEAN, NEW spoilt \in BOOLEAN, Serve(opened, late, spoilt) PROVE HeldFits'
  BY <1>6 DEF Serve, Pauses, Pause, ResetController, Go, controller, Booleans, Outputs, HeldFits,
         NoPid
<1>7. ASSUME NEW usable \in BOOLEAN, Decide(usable) PROVE HeldFits'
  BY <1>7 DEF Decide, ResetController, Go, controller, Booleans, Outputs, HeldFits, NoPid
<1>8. ASSUME Waits PROVE HeldFits'
  BY <1>8 DEF Waits, Go, read, flags, controller, Booleans, Outputs, HeldFits, NoPid
<1>9. ASSUME Interrupted PROVE HeldFits'
  BY <1>9 DEF Interrupted, Pause, ResetController, Go, read, Booleans, Outputs, HeldFits, NoPid
<1>10. ASSUME Guarded PROVE HeldFits'
  BY <1>10 DEF Guarded, Go, read, flags, controller, Booleans, Outputs, HeldFits, NoPid
<1>11. ASSUME Unguarded PROVE HeldFits'
  BY <1>11 DEF Unguarded, Pause, ResetController, Go, read, Booleans, Outputs, HeldFits, NoPid
<1>12. ASSUME PushRow PROVE HeldFits'
  BY <1>12 DEF PushRow, Go, read, flags, controller, Booleans, Outputs, HeldFits
<1>13. ASSUME Refused PROVE HeldFits'
  BY <1>13 DEF Refused, Leave, Pause, Halt, ResetController, Booleans, Outputs, HeldFits, NoPid
<1>14. ASSUME NEW place \in Places, Unreachable(place) PROVE HeldFits'
  BY <1>14 DEF Unreachable, Cleared, Go, read, flags, Booleans, Outputs, HeldFits, NoPid
<1>15. ASSUME NEW place \in Places, NEW due \in SUBSET Joints, Step(place, due) PROVE HeldFits'
  BY <1>15 DEF Step, Computed, Kept, Fresh, Cleared, Mode, Recovers, Leaves, Reenters, Go, read,
         flags, Booleans, Outputs, HeldFits, NoPid
<1>16. ASSUME UNCHANGED collectorVars PROVE HeldFits'
  BY <1>16 DEF collectorVars, read, flags, controller, Booleans, Outputs, HeldFits
<1> QED
  BY <1>1, <1>2, <1>3, <1>4, <1>5, <1>6, <1>7, <1>8, <1>9, <1>10, <1>11, <1>12, <1>13, <1>14, <1>15, <1>16 DEF CollectorNext

\* The frame of the tick is made once and carried to the valves.
LEMMA FrameKeepsFitting ==
    ASSUME Booleans, Outputs, FrameFits, [CollectorNext]_collectorVars
    PROVE  FrameFits'
<1>1. ASSUME ReadInput PROVE FrameFits'
  BY <1>1 DEF ReadInput, Packet, Pause, Halt, ResetController, Go, read, controller, Booleans,
         Outputs, FrameFits, NoPid
<1>2. ASSUME Quit PROVE FrameFits'
  BY <1>2 DEF Quit, Leave, Pause, Halt, ResetController, read, Booleans, Outputs, FrameFits, NoPid
<1>3. ASSUME Fails PROVE FrameFits'
  BY <1>3 DEF Fails, Leave, Pause, Halt, ResetController, Booleans, Outputs, FrameFits, NoPid
<1>4. ASSUME WriterFails PROVE FrameFits'
  BY <1>4 DEF WriterFails, read, flags, controller, Booleans, Outputs, FrameFits, NoPid
<1>5. ASSUME WriteFails PROVE FrameFits'
  BY <1>5 DEF WriteFails, Leave, Pause, Halt, ResetController, Booleans, Outputs, FrameFits, NoPid
<1>6. ASSUME NEW opened \in BOOLEAN, NEW late \in BOOLEAN, NEW spoilt \in BOOLEAN, Serve(opened, late, spoilt) PROVE FrameFits'
  BY <1>6 DEF Serve, Pause, ResetController, Go, controller, Booleans, Outputs, FrameFits, NoPid
<1>7. ASSUME NEW usable \in BOOLEAN, Decide(usable) PROVE FrameFits'
  BY <1>7 DEF Decide, ResetController, Go, controller, Booleans, Outputs, FrameFits, NoPid
<1>8. ASSUME Waits PROVE FrameFits'
  BY <1>8 DEF Waits, Go, read, flags, controller, Booleans, Outputs, FrameFits, NoPid, NoFrame
<1>9. ASSUME Interrupted PROVE FrameFits'
  BY <1>9 DEF Interrupted, Pause, ResetController, Go, read, Booleans, Outputs, FrameFits, NoPid,
         NoFrame
<1>10. ASSUME Guarded PROVE FrameFits'
  BY <1>10 DEF Guarded, Go, read, flags, controller, Booleans, Outputs, FrameFits, NoPid
<1>11. ASSUME Unguarded PROVE FrameFits'
  BY <1>11 DEF Unguarded, Pause, ResetController, Go, read, Booleans, Outputs, FrameFits, NoPid
<1>12. ASSUME PushRow PROVE FrameFits'
  BY <1>12 DEF PushRow, Go, read, flags, controller, Booleans, Outputs, FrameFits, NoPid
<1>13. ASSUME Refused PROVE FrameFits'
  BY <1>13 DEF Refused, Leave, Pause, Halt, ResetController, Booleans, Outputs, FrameFits, NoPid
<1>14. ASSUME NEW place \in Places, Unreachable(place) PROVE FrameFits'
  BY <1>14 DEF Unreachable, Go, read, flags, Booleans, Outputs, FrameFits, NoPid, NoFrame
<1>15. ASSUME NEW place \in Places, NEW due \in SUBSET Joints, Step(place, due) PROVE FrameFits'
  BY <1>15 DEF Step, Go, read, flags, Booleans, Outputs, FrameFits, NoPid
<1>16. ASSUME UNCHANGED collectorVars PROVE FrameFits'
  BY <1>16 DEF collectorVars, read, flags, controller, Booleans, Outputs, FrameFits, NoPid
<1> QED
  BY <1>1, <1>2, <1>3, <1>4, <1>5, <1>6, <1>7, <1>8, <1>9, <1>10, <1>11, <1>12, <1>13, <1>14, <1>15, <1>16 DEF CollectorNext

\* The valves get what the frame carries or nothing.
LEMMA RecoveryKeepsHolding ==
    ASSUME CollectorInv, [CollectorNext]_collectorVars
    PROVE  RecoveryHolds'
<1>1. ASSUME ReadInput PROVE RecoveryHolds'
  BY <1>1 DEF ReadInput, Packet, Pause, Halt, ResetController, Go, read, controller, CollectorInv,
         Booleans, RecoveryHolds
<1>2. ASSUME Quit PROVE RecoveryHolds'
  BY <1>2 DEF Quit, Leave, Pause, Halt, ResetController, read, CollectorInv, Booleans, RecoveryHolds
<1>3. ASSUME Fails PROVE RecoveryHolds'
  BY <1>3 DEF Fails, Leave, Pause, Halt, ResetController, CollectorInv, Booleans, RecoveryHolds
<1>4. ASSUME WriterFails PROVE RecoveryHolds'
  BY <1>4 DEF WriterFails, read, flags, controller, CollectorInv, Booleans, RecoveryHolds
<1>5. ASSUME WriteFails PROVE RecoveryHolds'
  BY <1>5 DEF WriteFails, Leave, Pause, Halt, ResetController, CollectorInv, Booleans, RecoveryHolds
<1>6. ASSUME NEW opened \in BOOLEAN, NEW late \in BOOLEAN, NEW spoilt \in BOOLEAN, Serve(opened, late, spoilt) PROVE RecoveryHolds'
  BY <1>6 DEF Serve, Pause, ResetController, Go, controller, CollectorInv, Booleans, RecoveryHolds
<1>7. ASSUME NEW usable \in BOOLEAN, Decide(usable) PROVE RecoveryHolds'
  BY <1>7 DEF Decide, ResetController, Go, controller, CollectorInv, Booleans, RecoveryHolds
<1>8. ASSUME Waits PROVE RecoveryHolds'
  BY <1>8 DEF Waits, Go, read, flags, controller, CollectorInv, Booleans, RecoveryHolds
<1>9. ASSUME Interrupted PROVE RecoveryHolds'
  BY <1>9 DEF Interrupted, Pause, ResetController, Go, read, CollectorInv, Booleans, RecoveryHolds
<1>10. ASSUME Guarded PROVE RecoveryHolds'
  <2>1. at = "write" /\ left' = left
    BY <1>10 DEF Guarded, Go
  <2>2. \/ written' = Neutral
        \/ written' = [manual |-> sticks, overlay |-> frame.overlay, assist |-> frame.assist]
    BY <1>10 DEF Guarded
  <2>3. CASE written' = Neutral
    BY <2>3 DEF RecoveryHolds, Neutral, NoPid
  <2>4. CASE written' = [manual |-> sticks, overlay |-> frame.overlay, assist |-> frame.assist]
    <3>1. written'.manual = sticks /\ written'.overlay = frame.overlay /\ written'.assist = frame.assist
      BY <2>4
    <3>2. CASE frame.valid
      <4>1. /\ frame.assist = held /\ frame.overlay = overlay /\ ~sticks
            /\ left = recovering /\ (recovering => ~overlay)
            /\ \A j \in Joints : held[j] \in {"none", IF recovering THEN "recovery" ELSE "random"}
        BY <2>1, <3>2 DEF CollectorInv, FrameFits, RunsReady, Recovery, HeldFits
      <4> QED
        BY <2>1, <3>1, <4>1 DEF RecoveryHolds
    <3>3. CASE ~frame.valid
      <4>1. frame.assist = NoPid /\ ~frame.overlay
        BY <2>1, <3>3 DEF CollectorInv, FrameFits
      <4> QED
        BY <2>1, <3>1, <4>1 DEF RecoveryHolds, NoPid
    <3> QED
      BY <3>2, <3>3
  <2> QED
    BY <2>2, <2>3, <2>4
<1>11. ASSUME Unguarded PROVE RecoveryHolds'
  BY <1>11 DEF Unguarded, Neutral, NoPid, Pause, ResetController, Go, read, CollectorInv,
         Booleans, RecoveryHolds
<1>12. ASSUME PushRow PROVE RecoveryHolds'
  BY <1>12 DEF PushRow, Go, read, flags, controller, CollectorInv, Booleans, RecoveryHolds
<1>13. ASSUME Refused PROVE RecoveryHolds'
  BY <1>13 DEF Refused, Leave, Pause, Halt, ResetController, CollectorInv, Booleans, RecoveryHolds
<1>14. ASSUME NEW place \in Places, Unreachable(place) PROVE RecoveryHolds'
  BY <1>14 DEF Unreachable, Go, read, flags, CollectorInv, Booleans, RecoveryHolds
<1>15. ASSUME NEW place \in Places, NEW due \in SUBSET Joints, Step(place, due) PROVE RecoveryHolds'
  BY <1>15 DEF Step, Go, read, flags, CollectorInv, Booleans, RecoveryHolds
<1>16. ASSUME UNCHANGED collectorVars PROVE RecoveryHolds'
  BY <1>16 DEF collectorVars, read, flags, controller, CollectorInv, Booleans, RecoveryHolds
<1> QED
  BY <1>1, <1>2, <1>3, <1>4, <1>5, <1>6, <1>7, <1>8, <1>9, <1>10, <1>11, <1>12, <1>13, <1>14, <1>15, <1>16 DEF CollectorNext

\* Each step of a tick keeps the invariant, part by part.
LEMMA InvStep == CollectorInv /\ [CollectorNext]_collectorVars => CollectorInv'
<1> SUFFICES ASSUME CollectorInv, [CollectorNext]_collectorVars PROVE CollectorInv'
  OBVIOUS
<1>1. /\ Booleans /\ Controls /\ Outputs
      /\ OffIsReset /\ RunsReady /\ Recovery /\ HeldFits /\ FrameFits
  BY DEF CollectorInv
<1>2. Booleans' /\ Controls' /\ Outputs'
  BY <1>1, BooleansKeep, ControlsKeep, OutputsKeep
<1>3. OffIsReset' /\ RunsReady' /\ Recovery'
  BY <1>1, OffStaysReset, RunsStayReady, RecoveryKeeps
<1>4. HeldFits' /\ FrameFits' /\ RecoveryHolds'
  BY <1>1, HeldKeepsFitting, FrameKeepsFitting, RecoveryKeepsHolding
<1> QED
  BY <1>2, <1>3, <1>4 DEF CollectorInv

\* So it holds always.
LEMMA CollectorInvariant == CollectorSpec => []CollectorInv
BY InitInv, InvStep, PTL DEF CollectorSpec

\* Every variable of the collector's loop keeps its type, for any set of joints.
THEOREM CollectorTypes == CollectorSpec => []CollectorTypeOK
<1>1. CollectorInv => CollectorTypeOK
  BY TypeParts DEF CollectorInv
<1> QED
  BY <1>1, CollectorInvariant, PTL

\* At every step of every tick the collector runs only into a recording, stops
\* clean and recovers before it goes on, for any set of joints.
THEOREM CollectorStaysSafe == CollectorSpec => []CollectorIsSafe
<1>1. CollectorInv => CollectorIsSafe
  BY DEF CollectorInv, CollectorIsSafe, RunsReady, RunsRecorded, Ready
<1> QED
  BY <1>1, CollectorInvariant, PTL

-----------------------------------------------------------------------------
(* ImuParser.                                                              *)

\* A frame that is not refused has one of the lengths of frame_length.
LEMMA LengthBounds ==
    ASSUME NEW type, NEW count \in Bytes, FrameLength(type, count) # 0
    PROVE  FrameLength(type, count) \in 5 .. Longest
<1>1. MaxCount \in Nat /\ count \in Nat
  BY ByteAssumption, CountAssumption DEF Bytes
<1>2. CASE type = ControlType
  BY <1>1, <1>2 DEF FrameLength, Longest
<1>3. CASE type # ControlType
  <2>1. count \in 1 .. MaxCount
    BY <1>3 DEF FrameLength
  <2>2. FrameLength(type, count) \in {6 + count, 5 + count}
    BY <1>3, <2>1, TypeAssumption DEF FrameLength
  <2> QED
    BY <1>1, <2>1, <2>2 DEF Longest
<1> QED
  BY <1>2, <1>3

\* The parser never waits with a full buffer.
LEMMA IdleHasRoom ==
    ASSUME TypeOK, Idle
    PROVE  Len(buffer) < Longest /\ Len(buffer) < Capacity
<1>1. Len(buffer) \in Nat /\ Longest \in Nat /\ Longest >= 6
  BY ByteAssumption, CountAssumption DEF TypeOK, Longest, Bytes
<1>2. CASE Len(buffer) < 4
  BY <1>1, <1>2, CapacityAssumption
<1>3. CASE Len(buffer) >= 4
  <2>1. buffer[4] \in Bytes /\ Length # 0 /\ Len(buffer) < Length
    BY <1>1, <1>3 DEF Idle, TypeOK
  <2>2. Length \in 5 .. Longest
    BY <2>1, LengthBounds DEF Length
  <2> QED
    BY <1>1, <2>1, <2>2, CapacityAssumption
<1> QED
  BY <1>1, <1>2, <1>3

\* What parse looks at before it consumes anything.
LEMMA BusyBuffer ==
    ASSUME TypeOK, ~Idle
    PROVE  /\ Len(buffer) \in Nat /\ Len(buffer) >= 4
           /\ buffer[3] \in Bytes /\ buffer[4] \in Bytes
           /\ Length # 0 => Length \in 5 .. Longest
           /\ Complete => Length \in 5 .. Len(buffer) /\ buffer[5] \in Bytes
<1>1. Len(buffer) \in Nat /\ Len(buffer) >= 4
  BY DEF TypeOK, Idle
<1>2. buffer[3] \in Bytes /\ buffer[4] \in Bytes
  BY <1>1 DEF TypeOK
<1>3. Length # 0 => Length \in 5 .. Longest
  BY <1>2, LengthBounds DEF Length
<1>4. ASSUME Complete PROVE Length \in 5 .. Len(buffer) /\ buffer[5] \in Bytes
  <2>1. Synced /\ Length # 0 /\ ~(Len(buffer) < Length)
    BY <1>1, <1>4 DEF Complete, Idle
  <2>2. Length \in 5 .. Longest
    BY <1>3, <2>1
  <2>3. Length \in 5 .. Len(buffer)
    BY <1>1, <2>1, <2>2
  <2> QED
    BY <2>3 DEF TypeOK
<1> QED
  BY <1>1, <1>2, <1>3, <1>4

-----------------------------------------------------------------------------
(* The window.                                                             *)

\* The buffer and what is not fed yet are the end of what was sent.
Window ==
    /\ Passed \in Nat
    /\ \A k \in 1 .. Len(buffer) : buffer[k] = sent[Passed + k]
    /\ \A k \in 1 .. Len(unfed) : unfed[k] = sent[Passed + Len(buffer) + k]

LEMMA ConsumeWindow ==
    ASSUME TypeOK, Window, NEW n \in 0 .. Len(buffer), Consume(n), UNCHANGED <<unfed, sent>>
    PROVE  buffer' \in Seq(Bytes) /\ Window' /\ Passed' = Passed + n
<1>1. buffer \in Seq(Bytes) /\ Len(buffer) \in Nat /\ Len(unfed) \in Nat /\ Len(sent) \in Nat
  BY DEF TypeOK
<1>2. buffer' = SubSeq(buffer, n + 1, Len(buffer))
  BY DEF Consume
<1>3. /\ buffer' \in Seq(Bytes) /\ Len(buffer') = Len(buffer) - n
      /\ \A k \in 1 .. Len(buffer) - n : buffer'[k] = buffer[n + k]
  BY <1>1, <1>2
<1>4. Passed' = Passed + n /\ Passed' \in Nat
  BY <1>1, <1>3 DEF Passed, Window
<1>5. \A k \in 1 .. Len(buffer') : buffer'[k] = sent'[Passed' + k]
  <2> TAKE k \in 1 .. Len(buffer')
  <2>1. n + k \in 1 .. Len(buffer) /\ buffer'[k] = buffer[n + k]
    BY <1>1, <1>3
  <2>2. buffer[n + k] = sent[Passed + (n + k)]
    BY <2>1 DEF Window
  <2>3. Passed + (n + k) = Passed' + k
    BY <1>4 DEF Window
  <2> QED
    BY <2>1, <2>2, <2>3
<1>6. \A k \in 1 .. Len(unfed') : unfed'[k] = sent'[Passed' + Len(buffer') + k]
  <2>1. Passed' + Len(buffer') = Passed + Len(buffer)
    BY <1>1, <1>3, <1>4 DEF Window
  <2> QED
    BY <2>1 DEF Window
<1> QED
  BY <1>3, <1>4, <1>5, <1>6 DEF Window

\* A tick appends what it reads.
LEMMA ReadWindow ==
    ASSUME TypeOK, Window, Read
    PROVE  /\ unfed' \in Seq(Bytes) /\ sent' \in Seq(Bytes) /\ Window' /\ Passed' = Passed
           /\ Len(sent) \in Nat /\ Len(sent') >= Len(sent) /\ \A k \in 1 .. Len(sent) : sent'[k] = sent[k]
<1>1. PICK bytes \in Transmissions : unfed' = bytes /\ sent' = sent \o bytes
  BY DEF Read
<1>2. bytes \in Seq(Bytes) /\ sent \in Seq(Bytes) /\ Len(buffer) \in Nat /\ buffer' = buffer /\ unfed = <<>>
  BY TransmissionAssumption DEF TypeOK, Read
<1>3. /\ sent' \in Seq(Bytes) /\ Len(sent') = Len(sent) + Len(bytes)
      /\ \A k \in 1 .. Len(sent) : sent'[k] = sent[k]
      /\ \A k \in 1 .. Len(bytes) : sent'[Len(sent) + k] = bytes[k]
  BY <1>1, <1>2, ConcatProperties
<1>4. Passed = Len(sent) - Len(buffer) /\ Passed' = Passed /\ Len(sent) \in Nat /\ Len(bytes) \in Nat
  BY <1>1, <1>2, <1>3 DEF Passed
<1>5. \A k \in 1 .. Len(buffer') : buffer'[k] = sent'[Passed' + k]
  <2> TAKE k \in 1 .. Len(buffer')
  <2>1. Passed + k \in 1 .. Len(sent)
    BY <1>2, <1>4 DEF Window
  <2> QED
    BY <1>2, <1>3, <1>4, <2>1 DEF Window
<1>6. \A k \in 1 .. Len(unfed') : unfed'[k] = sent'[Passed' + Len(buffer') + k]
  <2>1. Passed' + Len(buffer') = Len(sent)
    BY <1>2, <1>4
  <2> QED
    BY <1>1, <1>3, <2>1
<1> QED
  BY <1>1, <1>2, <1>3, <1>4, <1>5, <1>6 DEF Window

\* A byte goes from what is not fed to the buffer, which has room for it.
LEMMA FeedWindow ==
    ASSUME TypeOK, Window, Feed
    PROVE  /\ buffer' \in Seq(Bytes) /\ unfed' \in Seq(Bytes) /\ Window' /\ Passed' = Passed
           /\ UNCHANGED <<invalid, sent>>
<1>1. unfed \in Seq(Bytes) /\ buffer \in Seq(Bytes) /\ unfed # <<>> /\ unfed' = Tail(unfed) /\ sent' = sent
  BY DEF TypeOK, Feed
<1>2. buffer' = Append(buffer, Head(unfed)) /\ UNCHANGED invalid
  BY <1>1, IdleHasRoom, CapacityAssumption DEF Feed
<1>3. Len(unfed) \in Nat \ {0} /\ Len(buffer) \in Nat /\ Len(sent) \in Nat
  BY <1>1 DEF TypeOK
<1>4. /\ unfed' \in Seq(Bytes) /\ Len(unfed') = Len(unfed) - 1
      /\ \A k \in 1 .. Len(unfed) - 1 : unfed'[k] = unfed[k + 1]
  BY <1>1, <1>3
<1>5. /\ buffer' \in Seq(Bytes) /\ Len(buffer') = Len(buffer) + 1
      /\ \A k \in 1 .. Len(buffer) : buffer'[k] = buffer[k]
      /\ buffer'[Len(buffer) + 1] = unfed[1]
  BY <1>1, <1>2, <1>3
<1>6. Passed' = Passed
  BY <1>1, <1>3, <1>4, <1>5 DEF Passed
<1>7. unfed[1] = sent[Passed + (Len(buffer) + 1)]
  <2>1. 1 \in 1 .. Len(unfed) /\ Passed + (Len(buffer) + 1) = Passed + Len(buffer) + 1
    BY <1>3 DEF Window
  <2> QED
    BY <2>1 DEF Window
<1>8. \A k \in 1 .. Len(buffer') : buffer'[k] = sent'[Passed' + k]
  <2> TAKE k \in 1 .. Len(buffer')
  <2>1. CASE k \in 1 .. Len(buffer)
    BY <1>1, <1>5, <1>6, <2>1 DEF Window
  <2>2. CASE k = Len(buffer) + 1
    BY <1>1, <1>5, <1>6, <1>7, <2>2
  <2> QED
    BY <1>3, <1>5, <2>1, <2>2
<1>9. \A k \in 1 .. Len(unfed') : unfed'[k] = sent'[Passed' + Len(buffer') + k]
  <2> TAKE k \in 1 .. Len(unfed')
  <2>1. k + 1 \in 1 .. Len(unfed) /\ unfed'[k] = unfed[k + 1]
    BY <1>3, <1>4
  <2>2. unfed[k + 1] = sent[Passed + Len(buffer) + (k + 1)]
    BY <2>1 DEF Window
  <2>3. Passed + Len(buffer) + (k + 1) = Passed' + Len(buffer') + k
    BY <1>3, <1>5, <1>6 DEF Window
  <2> QED
    BY <1>1, <2>1, <2>2, <2>3
<1> QED
  BY <1>1, <1>2, <1>4, <1>5, <1>6, <1>8, <1>9 DEF Window

\* An accepted frame is taken where it begins.
NewFrame(type) == [first |-> Passed + 1, type |-> type, count |-> buffer[4], good |-> Good]

LEMMA AcceptsFrame ==
    ASSUME TypeOK, Window, NEW type \in Types, Accepts(type)
    PROVE  /\ buffer' \in Seq(Bytes) /\ Window' /\ Passed' = Passed + Length
           /\ NewFrame(type) \in Frame /\ taken' = Append(taken, NewFrame(type)) /\ taken' \in Seq(Frame)
           /\ Length \in 5 .. Len(buffer) /\ buffer[5] \in Bytes
<1>1. ~Idle /\ Complete /\ Consume(Length) /\ UNCHANGED <<unfed, sent>>
  BY DEF Accepts, Complete
<1>2. Length \in 5 .. Len(buffer) /\ buffer[4] \in Bytes /\ buffer[5] \in Bytes /\ Len(buffer) \in Nat
  BY <1>1, BusyBuffer
<1>3. buffer' \in Seq(Bytes) /\ Window' /\ Passed' = Passed + Length
  BY <1>1, <1>2, ConsumeWindow
<1>4. taken' = Append(taken, NewFrame(type))
  BY DEF Accepts, NewFrame, Passed
<1>5. NewFrame(type) \in Frame
  BY <1>2 DEF NewFrame, Frame, Window, Good
<1> QED
  BY <1>2, <1>3, <1>4, <1>5 DEF TypeOK

\* The clock of the device moves forward in an epoch.
LEMMA DeltaType ==
    ASSUME TypeOK, buffer[5] \in Bytes
    PROVE  Delta \in Nat
<1>1. buffer[5] - previous \in Int /\ Base \in Nat /\ Base > 0
  BY ByteAssumption, SMTT(20) DEF TypeOK, Bytes
<1> QED
  BY <1>1 DEF Delta, Timestamp

LEMMA ParserTypesInit == Init => TypeOK /\ Window
<1> SUFFICES ASSUME Init PROVE TypeOK /\ Window
  OBVIOUS
<1>1. 0 \in Bytes
  BY ByteAssumption DEF Bytes
<1>2. unfed \in Seq(Bytes) /\ buffer \in Seq(Bytes) /\ sent \in Seq(Bytes)
      /\ taken \in Seq(Frame) /\ delivered \in Seq(Sample)
  BY DEF Init
<1>3. seen \in [valid : BOOLEAN, received : Nat, blocked : BOOLEAN, resets : Nat, invalid : Nat]
  BY DEF Init
<1>4. Passed = 0 /\ Len(buffer) = 0 /\ Len(unfed) = 0
  <2>1. Len(sent) = 0 /\ Len(buffer) = 0 /\ Len(unfed) = 0
    <3>1. sent = <<>> /\ buffer = <<>> /\ unfed = <<>>
      BY DEF Init
    <3> QED
      BY <3>1
  <2> QED
    BY <2>1 DEF Passed
<1>5. Window
  BY <1>4 DEF Window
<1>6. TypeOK
  BY <1>1, <1>2, <1>3 DEF Init, TypeOK
<1> QED
  BY <1>5, <1>6

LEMMA ConsumeTypes ==
    ASSUME TypeOK, Window, Skip \/ Unknown \/ Corrupt
    PROVE  TypeOK' /\ Window'
<1>1. ~Idle /\ UNCHANGED <<now, unfed, seen, sent>> /\ ParserUnchanged /\ invalid' \in {invalid, invalid + 1} /\ Consume(1)
  BY DEF Skip, Unknown, Corrupt, Complete
<1>2. 1 \in 0 .. Len(buffer)
  BY <1>1, BusyBuffer
<1>3. buffer' \in Seq(Bytes) /\ Window'
  BY <1>1, <1>2, ConsumeWindow
<1> QED
  BY <1>1, <1>3 DEF TypeOK, ParserUnchanged, sample, clock

LEMMA ReadTypes ==
    ASSUME TypeOK, Window, Read
    PROVE  TypeOK' /\ Window'
<1>1. seen' \in [valid : BOOLEAN, received : Nat, blocked : BOOLEAN, resets : Nat, invalid : Nat]
  BY DEF Read, View, TypeOK
<1> QED
  BY <1>1, ReadWindow, SMTT(20) DEF Read, TypeOK, sample, clock

LEMMA FeedTypes ==
    ASSUME TypeOK, Window, Feed
    PROVE  TypeOK' /\ Window'
BY FeedWindow DEF Feed, ParserUnchanged, TypeOK, sample, clock

LEMMA DataTypes ==
    ASSUME TypeOK, Window, Data
    PROVE  TypeOK' /\ Window'
<1>1. /\ buffer' \in Seq(Bytes) /\ Window' /\ taken' \in Seq(Frame) /\ buffer[5] \in Bytes
      /\ UNCHANGED <<now, unfed, seen, sent>>
  BY AcceptsFrame DEF Data, Accepts, Types
<1>2. extended' \in Nat /\ previous' \in Bytes /\ anchored' \in BOOLEAN
  BY <1>1, DeltaType, ByteAssumption, SMTT(20) DEF Data, Timestamp, Jumps, TypeOK, Bytes
<1>3. resets' \in Nat /\ invalid' \in Nat /\ valid' \in BOOLEAN /\ blocked' \in BOOLEAN /\ received' \in Nat
      /\ device' \in Nat /\ epoch' \in Nat
  <2>1. valid' = Usable /\ Usable \in BOOLEAN
    BY DEF Data, Usable
  <2> QED
    BY <1>2, <2>1 DEF Data, TypeOK
<1>4. delivered' \in Seq(Sample)
  <2>1. [device |-> device', epoch |-> epoch'] \in Sample
    BY <1>3 DEF Sample
  <2> QED
    BY <2>1 DEF Data, TypeOK
<1> QED
  BY <1>1, <1>2, <1>3, <1>4 DEF TypeOK

LEMMA EndTypes ==
    ASSUME TypeOK, Window, Control \/ Descriptor \/ Report
    PROVE  TypeOK' /\ Window'
<1>1. /\ buffer' \in Seq(Bytes) /\ Window' /\ taken' \in Seq(Frame)
      /\ UNCHANGED <<now, unfed, seen, sent>> /\ EndsStream
  BY AcceptsFrame DEF Control, Descriptor, Report, Accepts, Types
<1>2. anchored' \in BOOLEAN /\ UNCHANGED <<previous, extended>>
  BY DEF Control, Descriptor, Report, clock, TypeOK
<1>3. blocked' \in BOOLEAN
  BY DEF Control, Descriptor, Report, TypeOK
<1>4. resets' \in Nat /\ UNCHANGED <<received, device, epoch, invalid, delivered>>
  BY <1>1 DEF EndsStream, TypeOK
<1>5. valid' \in BOOLEAN
  BY <1>1, Zenon DEF EndsStream
<1> QED
  BY <1>1, <1>2, <1>3, <1>4, <1>5 DEF TypeOK

LEMMA ParserTypesStep == TypeOK /\ Window /\ [Next]_vars => (TypeOK /\ Window)'
<1>1. TypeOK /\ Window /\ UNCHANGED vars => (TypeOK /\ Window)'
  BY DEF vars, sample, clock, history, TypeOK, Window, Passed
<1> QED
  BY <1>1, ConsumeTypes, ReadTypes, FeedTypes, DataTypes, EndTypes DEF Next, Parse

-----------------------------------------------------------------------------
(* What a tick shows.                                                      *)

\* Counters only grow; what was delivered is of an earlier epoch or of the clock's past.
Counters == seen.resets <= resets /\ seen.invalid <= invalid
DeliveredIsPast ==
    \A i \in DOMAIN delivered :
        \/ delivered[i].epoch < resets
        \/ delivered[i].epoch = resets /\ anchored /\ delivered[i].device <= extended
TickInv == TypeOK /\ Window /\ Counters /\ DeliveredIsPast /\ LoopSees /\ BlockedIsSeen /\ EpochsGrow

LEMMA TickInit == Init => TickInv
<1> SUFFICES ASSUME Init PROVE TickInv
  OBVIOUS
<1>1. Counters /\ LoopSees
  <2>1. ~seen.valid /\ seen.received = 0 /\ ~seen.blocked /\ seen.resets = 0 /\ seen.invalid = 0
    BY DEF Init
  <2>2. ~valid /\ received = 0 /\ ~blocked /\ resets = 0 /\ invalid = 0
    BY DEF Init
  <2>3. seen.valid = valid /\ seen.blocked = blocked
    BY DEF Init
  <2> QED
    BY <2>1, <2>2, <2>3 DEF Counters, LoopSees
<1>2. DOMAIN delivered = {} /\ DOMAIN taken = {}
  BY DEF Init
<1> QED
  BY <1>1, <1>2, ParserTypesInit DEF TickInv, DeliveredIsPast, BlockedIsSeen, EpochsGrow

\* A step that accepts no frame.
LEMMA NothingTaken ==
    ASSUME TickInv, TypeOK', Window',
           UNCHANGED <<sample, blocked, resets, clock, taken, delivered, now, seen>>, invalid' \in {invalid, invalid + 1}
    PROVE  TickInv'
<1>1. Counters' /\ LoopSees'
  BY SMTT(20) DEF TickInv, TypeOK, Counters, LoopSees, sample
<1>2. DeliveredIsPast' /\ BlockedIsSeen' /\ EpochsGrow'
  BY DEF TickInv, DeliveredIsPast, BlockedIsSeen, EpochsGrow, clock
<1> QED
  BY <1>1, <1>2 DEF TickInv

LEMMA ReadTick ==
    ASSUME TickInv, TypeOK', Window', Read
    PROVE  TickInv'
<1>1. UNCHANGED <<valid, received, blocked, resets, invalid, clock, taken, delivered>> /\ seen' = View
  BY DEF Read, sample
<1>2. Counters' /\ LoopSees'
  BY <1>1 DEF TickInv, TypeOK, Counters, LoopSees, View
<1>3. DeliveredIsPast' /\ BlockedIsSeen' /\ EpochsGrow'
  BY <1>1 DEF TickInv, DeliveredIsPast, BlockedIsSeen, EpochsGrow, clock
<1> QED
  BY <1>2, <1>3 DEF TickInv

\* The frame that is accepted is the last of those taken.
LEMMA TakenLast ==
    ASSUME TypeOK, NEW f \in Frame, taken' = Append(taken, f)
    PROVE  /\ DOMAIN taken' = 1 .. Len(taken) + 1 /\ Len(taken') = Len(taken) + 1 /\ Len(taken) \in Nat
           /\ taken'[Len(taken) + 1] = f /\ \A i \in DOMAIN taken : taken'[i] = taken[i]
           /\ DOMAIN taken = 1 .. Len(taken)
BY DEF TypeOK

\* A frame that does not block leaves what was seen.
LEMMA StillSeen ==
    ASSUME TickInv, NEW f \in Frame, taken' = Append(taken, f), ~blocked' => ~blocked,
           f.type = ControlType /\ f.count \in Blocking => blocked'
    PROVE  BlockedIsSeen'
<1> SUFFICES ASSUME ~blocked', NEW i \in DOMAIN taken', taken'[i].type = ControlType, taken'[i].count \in Blocking
             PROVE  \E j \in i + 1 .. Len(taken') : taken'[j].type = ReportType /\ taken'[j].good
  BY DEF BlockedIsSeen
<1>1. /\ DOMAIN taken' = 1 .. Len(taken) + 1 /\ Len(taken') = Len(taken) + 1 /\ Len(taken) \in Nat
      /\ taken'[Len(taken) + 1] = f /\ \A k \in DOMAIN taken : taken'[k] = taken[k]
      /\ DOMAIN taken = 1 .. Len(taken)
  BY TakenLast DEF TickInv
<1>2. i # Len(taken) + 1
  BY <1>1
<1>3. i \in DOMAIN taken /\ taken[i].type = ControlType /\ taken[i].count \in Blocking
  BY <1>1, <1>2
<1>4. PICK j \in i + 1 .. Len(taken) : taken[j].type = ReportType /\ taken[j].good
  BY <1>3 DEF TickInv, BlockedIsSeen
<1>5. j \in i + 1 .. Len(taken') /\ taken'[j] = taken[j]
  BY <1>1, <1>3, <1>4
<1> QED
  BY <1>4, <1>5

LEMMA DeliveredTypes ==
    ASSUME TypeOK
    PROVE  \A i \in DOMAIN delivered : delivered[i].epoch \in Nat /\ delivered[i].device \in Nat
<1>1. \A i \in DOMAIN delivered : delivered[i] \in Sample
  BY DEF TypeOK
<1> QED
  BY <1>1 DEF Sample

LEMMA DataTick ==
    ASSUME TickInv, TypeOK', Window', Data
    PROVE  TickInv'
<1>1. TypeOK /\ Window /\ Accepts(DataType) /\ DataType \in Types
  BY DEF TickInv, Data, Types
<1>2. taken' = Append(taken, NewFrame(DataType)) /\ NewFrame(DataType) \in Frame /\ buffer[5] \in Bytes
  BY <1>1, AcceptsFrame
<1>3. BlockedIsSeen'
  BY <1>2, StillSeen, TypeAssumption DEF Data, NewFrame
<1>4. UNCHANGED <<now, seen, blocked>>
  BY DEF Data, Accepts
<1>5. Counters'
  BY <1>4, SMTT(20) DEF Data, TickInv, TypeOK, Counters
<1>6. LoopSees'
  <2>1. CASE Usable
    BY <1>4, <2>1 DEF Data, Usable, TickInv, LoopSees
  <2>2. CASE ~Usable
    <3>1. invalid' = invalid + 1 /\ valid' = FALSE
      BY <2>2 DEF Data
    <3> QED
      BY <1>4, <3>1 DEF TickInv, TypeOK, Counters, LoopSees
  <2> QED
    BY <2>1, <2>2
<1>7. Delta \in Nat /\ extended \in Nat /\ resets \in Nat
  BY <1>1, <1>2, DeltaType DEF TypeOK
<1>8. \A i \in DOMAIN delivered : delivered[i].epoch \in Nat /\ delivered[i].device \in Nat
  BY <1>1, DeliveredTypes
<1>9. CASE Jumps
  <2>1. resets' = resets + 1 /\ delivered' = delivered
    BY <1>9 DEF Data, Usable
  <2> QED
    BY <1>3, <1>5, <1>6, <1>7, <1>8, <2>1 DEF TickInv, DeliveredIsPast, EpochsGrow
<1>10. CASE ~Jumps
  <2>1. /\ resets' = resets /\ anchored' = TRUE
        /\ \A i \in DOMAIN delivered :
              delivered[i].epoch < resets \/ (delivered[i].epoch = resets /\ delivered[i].device < extended')
    <3>1. CASE anchored
      <4>1. Delta > 0 /\ extended' = extended + Delta
        BY <1>7, <1>10, <3>1 DEF Data, Jumps
      <4>2. resets' = resets /\ anchored' = TRUE
        BY <1>10 DEF Data
      <4> QED
        BY <1>7, <1>8, <3>1, <4>1, <4>2 DEF TickInv, DeliveredIsPast
    <3>2. CASE ~anchored
      BY <1>10, <3>2 DEF Data, TickInv, DeliveredIsPast
    <3> QED
      BY <1>1, <3>1, <3>2 DEF TypeOK
  <2>2. CASE ~Usable
    <3>1. delivered' = delivered
      BY <2>2 DEF Data
    <3>2. extended' \in Nat
      BY DEF TypeOK
    <3> QED
      BY <1>3, <1>5, <1>6, <1>7, <1>8, <2>1, <3>1, <3>2 DEF TickInv, DeliveredIsPast, EpochsGrow
  <2>3. CASE Usable
    <3> DEFINE new == [device |-> extended', epoch |-> resets]
    <3>1. delivered' = Append(delivered, new) /\ extended' \in Nat
      BY <2>1, <2>3 DEF Data, TypeOK
    <3>2. delivered \in Seq(Sample) /\ new \in Sample
      BY <1>1, <1>7, <3>1 DEF TypeOK, Sample
    <3>3. /\ DOMAIN delivered = 1 .. Len(delivered) /\ Len(delivered) \in Nat
          /\ DOMAIN delivered' = 1 .. Len(delivered) + 1 /\ delivered'[Len(delivered) + 1] = new
          /\ \A i \in DOMAIN delivered : delivered'[i] = delivered[i]
      BY <3>1, <3>2
    <3>4. new.epoch = resets /\ new.device = extended'
      OBVIOUS
    <3> HIDE DEF new
    <3>5. DeliveredIsPast'
      BY <1>7, <1>8, <2>1, <3>1, <3>3, <3>4 DEF DeliveredIsPast
    <3>6. EpochsGrow'
      <4> SUFFICES ASSUME NEW i \in DOMAIN delivered', NEW j \in DOMAIN delivered', i < j
                   PROVE  \/ delivered'[i].epoch < delivered'[j].epoch
                          \/ /\ delivered'[i].epoch = delivered'[j].epoch
                             /\ delivered'[i].device < delivered'[j].device
        BY DEF EpochsGrow
      <4>1. i \in DOMAIN delivered /\ delivered'[i] = delivered[i]
        BY <3>3
      <4>2. CASE j \in DOMAIN delivered
        BY <3>3, <4>1, <4>2 DEF TickInv, EpochsGrow
      <4>3. CASE j = Len(delivered) + 1
        BY <2>1, <3>3, <3>4, <4>1, <4>3
      <4> QED
        BY <3>3, <4>2, <4>3
    <3> QED
      BY <1>3, <1>5, <1>6, <3>5, <3>6 DEF TickInv
  <2> QED
    BY <2>2, <2>3
<1> QED
  BY <1>9, <1>10

LEMMA EndTick ==
    ASSUME TickInv, TypeOK', Window', Control \/ Descriptor \/ Report
    PROVE  TickInv'
<1>1. TypeOK /\ Window /\ EndsStream /\ UNCHANGED <<now, seen>>
  BY DEF TickInv, Control, Descriptor, Report, Accepts
<1>2. Counters' /\ LoopSees'
  BY <1>1, SMTT(20) DEF TickInv, EndsStream, TypeOK, Counters, LoopSees
<1>3. DeliveredIsPast' /\ EpochsGrow'
  <2>1. \A i \in DOMAIN delivered : delivered[i].epoch \in Nat /\ delivered[i].device \in Nat
    BY <1>1, DeliveredTypes
  <2>2. delivered' = delivered /\ resets' = resets + 1 /\ resets \in Nat
    BY <1>1 DEF EndsStream, TypeOK
  <2>3. \A i \in DOMAIN delivered : delivered[i].epoch <= resets
    BY <2>1, <2>2 DEF TickInv, DeliveredIsPast
  <2> QED
    BY <2>1, <2>2, <2>3 DEF TickInv, DeliveredIsPast, EpochsGrow
<1>4. BlockedIsSeen'
  <2>1. CASE Control
    <3>1. taken' = Append(taken, NewFrame(ControlType)) /\ NewFrame(ControlType) \in Frame
      BY <1>1, <2>1, AcceptsFrame DEF Control, Types
    <3>2. (~blocked' => ~blocked) /\ (NewFrame(ControlType).count \in Blocking => blocked')
      BY <2>1 DEF Control, NewFrame
    <3> QED
      BY <3>1, <3>2, StillSeen
  <2>2. CASE Descriptor
    <3>1. taken' = Append(taken, NewFrame(DescriptorType)) /\ NewFrame(DescriptorType) \in Frame
      BY <1>1, <2>2, AcceptsFrame DEF Descriptor, Types
    <3>2. (~blocked' => ~blocked) /\ NewFrame(DescriptorType).type # ControlType
      BY <2>2, TypeAssumption DEF Descriptor, NewFrame
    <3> QED
      BY <3>1, <3>2, StillSeen
  <2>3. CASE Report
    <3> DEFINE f == NewFrame(ReportType)
    <3>1. taken' = Append(taken, f) /\ f \in Frame
      BY <1>1, <2>3, AcceptsFrame DEF Report, Types
    <3>2. (~blocked' => f.good) /\ f.type = ReportType /\ ReportType # ControlType
      BY <2>3, TypeAssumption DEF Report, NewFrame
    <3> HIDE DEF f
    <3>3. /\ DOMAIN taken' = 1 .. Len(taken) + 1 /\ Len(taken') = Len(taken) + 1 /\ Len(taken) \in Nat
          /\ taken'[Len(taken) + 1] = f
      BY <1>1, <3>1, TakenLast
    <3> QED
      BY <3>2, <3>3 DEF BlockedIsSeen
  <2> QED
    BY <2>1, <2>2, <2>3
<1> QED
  BY <1>2, <1>3, <1>4 DEF TickInv

LEMMA TickStep == TickInv /\ [Next]_vars => TickInv'
<1> SUFFICES ASSUME TickInv, [Next]_vars PROVE TickInv'
  OBVIOUS
<1>1. TypeOK' /\ Window'
  BY ParserTypesStep DEF TickInv
<1>2. CASE UNCHANGED vars
  BY <1>1, <1>2, NothingTaken DEF vars, sample, clock, history
<1>3. CASE Read
  BY <1>1, <1>3, ReadTick
<1>4. CASE Feed
  <2>1. UNCHANGED invalid
    BY <1>4, FeedWindow DEF TickInv
  <2> QED
    BY <1>1, <1>4, <2>1, NothingTaken DEF Feed, ParserUnchanged
<1>5. CASE Skip \/ Unknown \/ Corrupt
  BY <1>1, <1>5, NothingTaken DEF Skip, Unknown, Corrupt, ParserUnchanged
<1>6. CASE Data
  BY <1>1, <1>6, DataTick
<1>7. CASE Control \/ Descriptor \/ Report
  BY <1>1, <1>7, EndTick
<1> QED
  BY <1>2, <1>3, <1>4, <1>5, <1>6, <1>7 DEF Next, Parse

\* What the control loop relies on when a tick counts no reset and no invalid frame, what
\* it may not take for a running device, and a clock that only grows in an epoch, for all
\* bytes a device may send (ImuParser, LiveController::tick).
THEOREM TicksAreSeen == Spec => []TickIsSeen
<1>1. TickInv => TickIsSeen
  BY DEF TickInv, TickIsSeen
<1> QED
  BY <1>1, TickInit, TickStep, PTL DEF Spec

-----------------------------------------------------------------------------
(* No frame is lost.                                                       *)

\* The length that the bytes sent from p on announce, and what makes them no frame
\* whatever follows: no mark, no such frame, a sum that does not hold.
Announced(p) == FrameLength(sent[p + 2], sent[p + 3])
NoFrameAt(p) ==
    \/ ~(sent[p] = Sync[1] /\ sent[p + 1] = Sync[2])
    \/ Announced(p) = 0
    \/ /\ p + Announced(p) - 1 <= Len(sent)
       /\ Sum(SubSeq(sent, p + 2, p + Announced(p) - 2)) # sent[p + Announced(p) - 1]
RefusedAt(p) == p + 3 <= Len(sent) /\ NoFrameAt(p)
Decided(p) == RefusedAt(p) \/ \E i \in DOMAIN taken : Covers(taken[i], p)
LossInv == TypeOK /\ Window /\ \A p \in 1 .. Passed : Decided(p)

LEMMA NotWhole ==
    ASSUME NEW p, RefusedAt(p)
    PROVE  ~Whole(p)
BY DEF RefusedAt, NoFrameAt, Announced, Whole

\* What is in the buffer was sent from Passed + 1 on.
LEMMA BufferWasSent ==
    ASSUME TypeOK, Window, ~Idle
    PROVE  /\ Passed + 1 + 3 <= Len(sent) /\ Announced(Passed + 1) = Length
           /\ sent[Passed + 1] = buffer[1] /\ sent[Passed + 1 + 1] = buffer[2]
<1>1. Len(buffer) \in Nat /\ Len(buffer) >= 4 /\ Passed \in Nat
  BY BusyBuffer DEF Window
<1>2. 1 \in 1 .. Len(buffer) /\ 2 \in 1 .. Len(buffer) /\ 3 \in 1 .. Len(buffer) /\ 4 \in 1 .. Len(buffer)
  BY <1>1
<1>3. buffer[1] = sent[Passed + 1] /\ buffer[2] = sent[Passed + 2] /\ buffer[3] = sent[Passed + 3] /\ buffer[4] = sent[Passed + 4]
  BY <1>2 DEF Window
<1>4. Passed + 1 + 1 = Passed + 2 /\ Passed + 1 + 2 = Passed + 3 /\ Passed + 1 + 3 = Passed + 4
  BY <1>1
<1>5. Passed + 4 <= Len(sent)
  <2>1. Len(sent) \in Nat /\ Len(unfed) \in Nat
    BY DEF TypeOK
  <2> QED
    BY <1>1, <2>1 DEF Passed
<1> QED
  BY <1>3, <1>4, <1>5 DEF Announced, Length

\* The sum of a frame in the buffer is the sum of the bytes as they were sent.
LEMMA SumWasSent ==
    ASSUME TypeOK, Window, Complete
    PROVE  /\ Passed + 1 + Length - 1 <= Len(sent)
           /\ SubSeq(sent, Passed + 1 + 2, Passed + 1 + Length - 2) = SubSeq(buffer, 3, Length - 1)
           /\ sent[Passed + 1 + Length - 1] = buffer[Length]
<1>1. Len(buffer) \in Nat /\ Passed \in Nat /\ Length \in 5 .. Len(buffer)
  BY BusyBuffer DEF Complete, Window
<1>2. Len(sent) \in Nat /\ Len(unfed) \in Nat /\ Passed + Len(buffer) <= Len(sent)
  BY <1>1 DEF TypeOK, Passed
<1> DEFINE n == Length
           q == Passed
           s == SubSeq(sent, q + 3, q + n - 1)
           b == SubSeq(buffer, 3, n - 1)
<1>3. n \in 5 .. Len(buffer) /\ q \in Nat /\ q + Len(buffer) <= Len(sent) /\ \A k \in 1 .. Len(buffer) : buffer[k] = sent[q + k]
  BY <1>1, <1>2 DEF Window
<1>4. sent \in Seq(Bytes) /\ buffer \in Seq(Bytes)
  BY DEF TypeOK
<1> HIDE DEF n, q
<1>5. s \in Seq(Bytes) /\ Len(s) = n - 3 /\ \A k \in 1 .. n - 3 : s[k] = sent[q + 3 + k - 1]
  <2>1. \A k \in q + 3 .. q + n - 1 : sent[k] \in Bytes
    BY <1>1, <1>2, <1>3, <1>4, SMTT(20)
  <2>2. q + 3 \in Int /\ q + n - 1 \in Int /\ q + 3 <= q + n - 1 /\ (q + n - 1) - (q + 3) + 1 = n - 3
    BY <1>1, <1>3
  <2>3. /\ s \in Seq(Bytes) /\ Len(s) = IF q + 3 <= q + n - 1 THEN (q + n - 1) - (q + 3) + 1 ELSE 0
        /\ \A k \in 1 .. (q + n - 1) - (q + 3) + 1 : s[k] = sent[q + 3 + k - 1]
    BY <2>1, <2>2, SubSeqProperties
  <2> QED
    BY <2>2, <2>3
<1>6. b \in Seq(Bytes) /\ Len(b) = n - 3 /\ \A k \in 1 .. n - 3 : b[k] = buffer[3 + k - 1]
  <2>1. \A k \in 3 .. n - 1 : buffer[k] \in Bytes
    BY <1>1, <1>3, <1>4
  <2>2. 3 \in Int /\ n - 1 \in Int /\ 3 <= n - 1 /\ (n - 1) - 3 + 1 = n - 3
    BY <1>1, <1>3
  <2>3. /\ b \in Seq(Bytes) /\ Len(b) = IF 3 <= n - 1 THEN (n - 1) - 3 + 1 ELSE 0
        /\ \A k \in 1 .. (n - 1) - 3 + 1 : b[k] = buffer[3 + k - 1]
    BY <2>1, <2>2, SubSeqProperties
  <2> QED
    BY <2>2, <2>3
<1>7. s = b
  <2> HIDE DEF s, b
  <2>1. \A k \in 1 .. n - 3 : s[k] = b[k]
    <3> TAKE k \in 1 .. n - 3
    <3>1. 3 + k - 1 \in 1 .. Len(buffer) /\ q + (3 + k - 1) = q + 3 + k - 1
      BY <1>1, <1>3
    <3> QED
      BY <1>3, <1>5, <1>6, <3>1
  <2> QED
    BY <1>5, <1>6, <2>1, SeqEqual
<1>8. buffer[n] = sent[q + n]
  BY <1>1, <1>3
<1>9. q + 1 + 2 = q + 3 /\ q + 1 + n - 2 = q + n - 1 /\ q + 1 + n - 1 = q + n /\ q + n <= Len(sent)
  BY <1>1, <1>2, <1>3
<1>10. SubSeq(sent, q + 1 + 2, q + 1 + n - 2) = b /\ sent[q + 1 + n - 1] = buffer[n] /\ q + 1 + n - 1 <= Len(sent)
  BY <1>7, <1>8, <1>9
<1> QED
  BY <1>10 DEF n, q, b

\* A place that was decided stays decided when more is sent.
LEMMA StaysDecided ==
    ASSUME TypeOK, Window, Read, NEW p \in 1 .. Passed, Decided(p)
    PROVE  Decided(p)'
<1>1. /\ Len(sent) \in Nat /\ Len(sent') >= Len(sent) /\ sent' \in Seq(Bytes) /\ sent \in Seq(Bytes)
      /\ \A k \in 1 .. Len(sent) : sent'[k] = sent[k]
  BY ReadWindow DEF TypeOK
<1>2. UNCHANGED taken
  BY DEF Read
<1>3. p \in Nat /\ p >= 1
  BY DEF Window
<1>4. ASSUME RefusedAt(p) PROVE RefusedAt(p)'
  <2>1. p + 3 <= Len(sent) /\ p \in 1 .. Len(sent) /\ p + 1 \in 1 .. Len(sent) /\ p + 2 \in 1 .. Len(sent) /\ p + 3 \in 1 .. Len(sent)
    BY <1>1, <1>3, <1>4 DEF RefusedAt
  <2>2. sent'[p] = sent[p] /\ sent'[p + 1] = sent[p + 1] /\ Announced(p)' = Announced(p)
    BY <1>1, <2>1 DEF Announced
  <2>3. p + 3 <= Len(sent')
    BY <1>1, <1>3, <2>1
  <2>4. CASE ~(sent[p] = Sync[1] /\ sent[p + 1] = Sync[2]) \/ Announced(p) = 0
    BY <2>2, <2>3, <2>4 DEF RefusedAt, NoFrameAt
  <2>5. CASE Announced(p) # 0 /\ NoFrameAt(p) /\ sent[p] = Sync[1] /\ sent[p + 1] = Sync[2]
    <3> DEFINE n == Announced(p)
    <3>1. n \in 5 .. Longest /\ Longest \in Int
      <4>1. sent[p + 3] \in Bytes
        BY <1>1, <2>1
      <4> QED
        BY <2>5, <4>1, LengthBounds, ByteAssumption, CountAssumption DEF Announced, Longest, Bytes
    <3>2. p + n - 1 <= Len(sent) /\ Sum(SubSeq(sent, p + 2, p + n - 2)) # sent[p + n - 1]
      BY <2>5 DEF NoFrameAt
    <3> HIDE DEF n
    <3>3. \A k \in p + 2 .. p + n - 2 : sent'[k] = sent[k]
      BY <1>1, <1>3, <3>1, <3>2, SMTT(20)
    <3>4. SubSeq(sent', p + 2, p + n - 2) = SubSeq(sent, p + 2, p + n - 2)
      BY <1>1, <1>3, <3>1, <3>2, <3>3
    <3>5. sent'[p + n - 1] = sent[p + n - 1] /\ p + n - 1 <= Len(sent')
      BY <1>1, <1>3, <3>1, <3>2
    <3>6. Announced(p)' = n
      BY <2>2 DEF n
    <3> QED
      BY <2>3, <3>2, <3>4, <3>5, <3>6 DEF RefusedAt, NoFrameAt
  <2> QED
    BY <1>4, <2>4, <2>5 DEF RefusedAt
<1> QED
  BY <1>2, <1>4 DEF Decided, Covers

\* A byte is given up only where no frame begins.
LEMMA SkippedIsRefused ==
    ASSUME TypeOK, Window, Skip \/ Unknown \/ Corrupt
    PROVE  RefusedAt(Passed + 1)
<1>1. ~Idle
  BY DEF Skip, Unknown, Corrupt, Complete
<1>2. CASE Skip \/ Unknown
  BY <1>1, <1>2, BufferWasSent DEF Skip, Unknown, Synced, RefusedAt, NoFrameAt
<1>3. CASE Corrupt
  <2>1. Complete /\ ~SumHolds
    BY <1>3 DEF Corrupt
  <2>2. Sum(SubSeq(buffer, 3, Length - 1)) # buffer[Length]
    BY <2>1 DEF SumHolds
  <2> QED
    BY <1>1, <2>1, <2>2, BufferWasSent, SumWasSent DEF RefusedAt, NoFrameAt
<1> QED
  BY <1>2, <1>3

LEMMA LossStep == LossInv /\ [Next]_vars => LossInv'
<1> SUFFICES ASSUME LossInv, [Next]_vars PROVE LossInv'
  OBVIOUS
<1>1. TypeOK /\ Window /\ TypeOK' /\ Window' /\ Passed \in Nat
  BY ParserTypesStep DEF LossInv, Window
<1>2. CASE UNCHANGED vars
  BY <1>1, <1>2 DEF vars, history, LossInv, Passed, Decided, RefusedAt, NoFrameAt, Announced, Covers
<1>3. CASE Read
  <2>1. Passed' = Passed
    BY <1>1, <1>3, ReadWindow
  <2> QED
    BY <1>1, <1>3, <2>1, StaysDecided DEF LossInv
<1>4. CASE Feed
  <2>1. Passed' = Passed /\ UNCHANGED <<sent, taken>>
    BY <1>1, <1>4, FeedWindow DEF Feed, ParserUnchanged
  <2> QED
    BY <1>1, <2>1 DEF LossInv, Decided, RefusedAt, NoFrameAt, Announced, Covers
<1>5. CASE Skip \/ Unknown \/ Corrupt
  <2>1. ~Idle /\ Consume(1) /\ UNCHANGED <<unfed, sent, taken>>
    BY <1>5 DEF Skip, Unknown, Corrupt, Complete, ParserUnchanged
  <2>2. 1 \in 0 .. Len(buffer)
    BY <1>1, <2>1, BusyBuffer
  <2>3. Passed' = Passed + 1
    BY <1>1, <2>1, <2>2, ConsumeWindow
  <2>4. \A p \in 1 .. Passed + 1 : Decided(p)
    <3>1. Decided(Passed + 1)
      BY <1>1, <1>5, SkippedIsRefused DEF Decided
    <3> QED
      BY <1>1, <3>1 DEF LossInv
  <2>5. ASSUME NEW p \in 1 .. Passed + 1 PROVE Decided(p)'
    BY <2>1, <2>4 DEF Decided, RefusedAt, NoFrameAt, Announced, Covers
  <2> QED
    BY <1>1, <2>3, <2>5 DEF LossInv
<1>6. ASSUME NEW type \in Types, Accepts(type) PROVE LossInv'
  <2> DEFINE f == NewFrame(type)
  <2>1. Passed' = Passed + Length /\ taken' = Append(taken, f) /\ f \in Frame /\ Length \in 5 .. Len(buffer)
    BY <1>1, <1>6, AcceptsFrame
  <2>2. f.first = Passed + 1 /\ FrameLength(f.type, f.count) = Length
    BY <1>6 DEF Accepts, NewFrame, Length
  <2>3. UNCHANGED sent
    BY <1>6 DEF Accepts
  <2> HIDE DEF f
  <2>4. /\ DOMAIN taken' = 1 .. Len(taken) + 1 /\ Len(taken) \in Nat /\ taken'[Len(taken) + 1] = f
        /\ \A i \in DOMAIN taken : taken'[i] = taken[i] /\ i \in DOMAIN taken'
    BY <1>1, <2>1, TakenLast
  <2>5. ASSUME NEW p \in 1 .. Passed PROVE Decided(p)'
    <3>1. Decided(p)
      BY <2>5 DEF LossInv
    <3>2. CASE RefusedAt(p)
      BY <2>3, <3>2 DEF Decided, RefusedAt, NoFrameAt, Announced
    <3>3. CASE \E i \in DOMAIN taken : Covers(taken[i], p)
      BY <2>4, <3>3 DEF Decided, Covers
    <3> QED
      BY <3>1, <3>2, <3>3 DEF Decided
  <2>6. ASSUME NEW p \in Passed + 1 .. Passed + Length PROVE Decided(p)'
    <3>1. f.first <= p /\ p < f.first + FrameLength(f.type, f.count)
      BY <1>1, <2>1, <2>2
    <3>2. Covers(taken'[Len(taken) + 1], p)
      BY <2>4, <3>1 DEF Covers
    <3>3. Len(taken) + 1 \in DOMAIN taken'
      BY <2>4
    <3> QED
      BY <3>2, <3>3 DEF Decided, Covers
  <2>7. \A p \in 1 .. Passed' : p \in 1 .. Passed \/ p \in Passed + 1 .. Passed + Length
    BY <1>1, <2>1
  <2> QED
    BY <1>1, <2>5, <2>6, <2>7 DEF LossInv
<1>7. CASE Data \/ Control \/ Descriptor \/ Report
  BY <1>6, <1>7 DEF Data, Control, Descriptor, Report, Types
<1> QED
  BY <1>2, <1>3, <1>4, <1>5, <1>7 DEF Next, Parse

\* Resynchronisation loses no frame, whatever the device sends and however it is cut into
\* reads, and the parser never waits with a full buffer (ImuParser::feed, parse).
THEOREM NothingGetsLost == Spec => []NothingIsLost
<1>1. Init => LossInv
  <2> SUFFICES ASSUME Init PROVE \A p \in 1 .. Passed : Decided(p)
    BY ParserTypesInit DEF LossInv
  <2>1. sent = <<>> /\ buffer = <<>> /\ unfed = <<>>
    BY DEF Init
  <2>2. Len(sent) = 0 /\ Len(buffer) = 0 /\ Len(unfed) = 0
    BY <2>1
  <2>3. Passed = 0
    BY <2>2 DEF Passed
  <2> QED
    BY <2>3
<1>2. LossInv => NothingIsLost
  <2> SUFFICES ASSUME LossInv PROVE NothingIsLost
    OBVIOUS
  <2>1. NeverFull
    BY IdleHasRoom DEF LossInv, NeverFull
  <2>2. NoFrameLost
    BY NotWhole DEF LossInv, NoFrameLost, Decided
  <2> QED
    BY <2>1, <2>2 DEF NothingIsLost
<1> QED
  BY <1>1, <1>2, LossStep, PTL DEF Spec

-----------------------------------------------------------------------------
(* ImuReader.                                                              *)

\* The slot of the last publication; a frame of one publication.
Shown == IF core1 = "publish" THEN 1 - slot ELSE slot
IsFrame(f, n) == f.a = n /\ f.b = n /\ f.sequence = n

\* What each step of a publication has done, and that the other slot is of another one.
Publication ==
    /\ core1 \in {"fill", "number", "switch", "publish"} => published < MaxFrames
    /\ core1 \in {"fill", "number", "switch"} => writing = 1 - slot /\ slots[writing].a = published + 1
    /\ core1 \in {"number", "switch"} => slots[writing].b = published + 1
    /\ core1 = "switch" => slots[writing].sequence = published + 1
    /\ core1 = "publish" => writing = slot /\ IsFrame(slots[slot], published + 1)
    /\ IsFrame(slots[Shown], published)
    /\ published = 0 \/ slots[1 - Shown].sequence # published
\* While nothing was published since core 0 began to copy, what it has is of one publication.
Transport ==
    /\ main \in {"index", "copy", "rest", "confirm"} => sequence # 0 /\ sequence <= published
    /\ main = "rest" /\ published = sequence /\ index = Shown => copy.a = sequence
    /\ main = "confirm" /\ published = sequence /\ copy.sequence = sequence => IsFrame(copy, sequence)
    /\ main = "send" => IsFrame(copy, copy.sequence)
    /\ WholeFrames
\* The age of a value is bounded by the failures and repeats that were counted.
GuardCounts ==
    core1 # "parked" =>
        \A s \in Sensors : /\ bad[s] < LostReads /\ same[s] < StuckReads
                           /\ age[s] <= same[s] * LostReads + bad[s]
NoneFrozen ==
    /\ \A i \in {0, 1} : \A s \in Sensors : slots[i].age[s] < Frozen
    /\ \A s \in Sensors : copy.age[s] < Frozen
    /\ FrozenIsBounded
\* Core 1 is launched once.
Startup == main \in {"usb", "init", "calibrate", "launch"} => core1 = "off"
FramesInv == ReaderTypeOK /\ Startup /\ Publication /\ Transport /\ GuardCounts /\ NoneFrozen

LEMMA FrozenIs ==
    /\ LostReads \in Nat /\ StuckReads \in Nat /\ LostReads > 0 /\ StuckReads > 0
    /\ Frozen \in Nat /\ Frozen > 0
<1>1. LostReads \in Nat /\ StuckReads \in Nat /\ LostReads > 0 /\ StuckReads > 0
  BY GuardAssumption
<1>2. \A m, n \in Nat : m > 0 /\ n > 0 => m * n \in Nat /\ m * n > 0
  BY Z3
<1> QED
  BY <1>1, <1>2 DEF Frozen

\* Fewer repeats and fewer failures than the guard allows keep a value young.
LEMMA YoungValue ==
    ASSUME NEW b \in Nat, NEW m \in Nat, NEW n \in Nat, b < LostReads, m < StuckReads, n <= m * LostReads + b
    PROVE  n < Frozen
<1>1. LostReads \in Nat /\ StuckReads \in Nat
  BY GuardAssumption
<1>2. \A x, y, z \in Nat : x + 1 <= y => x * z + z <= y * z
  BY Z3
<1>3. m * LostReads + LostReads <= StuckReads * LostReads /\ m * LostReads \in Nat
  BY <1>1, <1>2
<1>4. StuckReads * LostReads = Frozen
  BY <1>1 DEF Frozen
<1> QED
  BY <1>1, <1>3, <1>4

LEMMA EmptySlot == Empty \in Slot /\ IsFrame(Empty, 0) /\ \A s \in Sensors : Empty.age[s] = 0
BY ReaderAssumption, FrozenIs DEF Empty, Slot, IsFrame, Numbers

LEMMA FramesInit == ReaderInit => FramesInv
<1> SUFFICES ASSUME ReaderInit PROVE FramesInv
  OBVIOUS
<1>1. ReaderTypeOK
  BY EmptySlot, FrozenIs, ReaderAssumption DEF ReaderInit, ReaderTypeOK, Numbers, Attempts, Transporting
<1>2. \A i \in {0, 1} : slots[i] = Empty
  BY DEF ReaderInit
<1>3. slot = 0 /\ core1 = "off" /\ published = 0 /\ main = "usb" /\ host = Empty /\ copy = Empty
  BY DEF ReaderInit
<1>4. Publication
  BY <1>2, <1>3, EmptySlot DEF Publication, Shown, IsFrame
<1>5. Transport
  BY <1>3, EmptySlot DEF Transport, WholeFrames, IsFrame
<1>6. GuardCounts
  BY FrozenIs DEF ReaderInit, GuardCounts
<1>7. NoneFrozen
  BY <1>2, <1>3, EmptySlot, FrozenIs DEF NoneFrozen, FrozenIsBounded
<1> QED
  BY <1>1, <1>3, <1>4, <1>5, <1>6, <1>7 DEF FramesInv, Startup

\* Core 1 publishes nothing and reads no sensor.
LEMMA BridgeRests ==
    ASSUME FramesInv, UNCHANGED <<guard, bridge, writing, core1>>
    PROVE  Publication' /\ GuardCounts' /\ (\A i \in {0, 1} : \A s \in Sensors : (slots'[i]).age[s] < Frozen) /\ Shown' = Shown
BY DEF FramesInv, guard, bridge, Publication, GuardCounts, NoneFrozen, Shown, IsFrame

LEMMA StartSteps ==
    ASSUME FramesInv, Connect \/ Initialize \/ Calibrate \/ Look \/ Wait
    PROVE  FramesInv'
<1>1. /\ UNCHANGED <<transport, dead, guard, core1, writing, bridge>>
      /\ main' \notin {"index", "copy", "rest", "confirm", "send"}
  BY DEF Connect, Initialize, Calibrate, Look, Wait, Goes, CoreOneUnchanged
<1>2. ReaderTypeOK'
  <2>1. main' \in {"usb", "init", "calibrate", "report", "launch", "failed", "lost"} \cup Transporting
    BY DEF Connect, Initialize, Calibrate, Look, Wait, Goes, Transporting, FramesInv, ReaderTypeOK
  <2>2. attempt' \in Attempts
    BY ReaderAssumption DEF Connect, Initialize, Calibrate, Look, Wait, FramesInv, ReaderTypeOK, Attempts
  <2> QED
    BY <1>1, <2>1, <2>2 DEF FramesInv, ReaderTypeOK, transport, guard, bridge
<1>3. Publication' /\ GuardCounts' /\ (\A i \in {0, 1} : \A s \in Sensors : (slots'[i]).age[s] < Frozen) /\ Shown' = Shown
  BY <1>1, BridgeRests
<1>4. Transport'
  BY <1>1, <1>3 DEF FramesInv, transport, Transport, WholeFrames
<1>5. NoneFrozen'
  BY <1>1, <1>3 DEF FramesInv, transport, NoneFrozen, FrozenIsBounded
<1>6. Startup'
  BY <1>1 DEF Connect, Initialize, Calibrate, Look, Wait, Goes, FramesInv, Startup
<1> QED
  BY <1>2, <1>3, <1>4, <1>5, <1>6 DEF FramesInv

\* Core 1 goes to another step without a publication.
LEMMA CoreOneSteps ==
    ASSUME FramesInv, SensorDies \/ NotDue \/ Wedge \/ Launch
    PROVE  FramesInv'
<1>1. /\ UNCHANGED <<transport, guard, writing, bridge>>
      /\ core1' \in {core1, "read", "wedged"} /\ (core1' # core1 => core1 \in {"off", "due", "read"})
      /\ main' \in {main, "look"}
  <2>1. CASE SensorDies
    BY <2>1 DEF SensorDies
  <2>2. CASE NotDue \/ Wedge
    BY <2>2 DEF NotDue, Wedge, CoreZeroUnchanged
  <2>3. CASE Launch
    BY <2>3 DEF Launch, Goes, FramesInv, Startup
  <2> QED
    BY <2>1, <2>2, <2>3
<1>2. ReaderTypeOK'
  <2>1. attempt' \in Attempts /\ dead' \subseteq Sensors
    BY ReaderAssumption DEF SensorDies, NotDue, Wedge, Launch, CoreZeroUnchanged, FramesInv, ReaderTypeOK, Attempts
  <2> QED
    BY <1>1, <2>1 DEF FramesInv, ReaderTypeOK, transport, guard, bridge, Transporting
<1>3. Publication' /\ Shown' = Shown
  BY <1>1 DEF FramesInv, bridge, Publication, Shown, IsFrame
<1>4. Transport'
  BY <1>1, <1>3 DEF FramesInv, transport, bridge, Transport, WholeFrames, IsFrame
<1>5. GuardCounts' /\ NoneFrozen'
  BY <1>1 DEF FramesInv, transport, bridge, guard, GuardCounts, NoneFrozen, FrozenIsBounded
<1>6. Startup'
  BY DEF SensorDies, NotDue, Wedge, Launch, CoreZeroUnchanged, Goes, FramesInv, Startup
<1> QED
  BY <1>2, <1>3, <1>4, <1>5, <1>6 DEF FramesInv

\* The counts of one sensor after a read.
LEMMA CountsAfterRead ==
    ASSUME NEW b \in Nat, NEW m \in Nat, NEW n \in Nat, b < LostReads, m < StuckReads, n <= m * LostReads + b,
           NEW outcome \in {"new", "same", "bad"}, NEW b2, NEW m2, NEW n2,
           b2 = IF outcome = "bad" THEN b + 1 ELSE 0, m2 = Repeats(outcome, m),
           n2 = IF outcome = "new" THEN 0 ELSE IF n < Frozen THEN n + 1 ELSE Frozen
    PROVE  /\ b2 \in 0 .. LostReads /\ m2 \in 0 .. StuckReads /\ n2 \in 0 .. Frozen
           /\ n2 <= m2 * LostReads + b2
<1>1. LostReads \in Nat /\ LostReads > 0 /\ StuckReads \in Nat /\ StuckReads > 0 /\ Frozen \in Nat
  BY FrozenIs
<1>2. n < Frozen
  BY YoungValue
<1>3. CASE outcome = "new"
  BY <1>1, <1>3 DEF Repeats
<1>4. CASE outcome = "bad"
  <2>1. b2 = b + 1 /\ m2 = m /\ n2 = n + 1
    BY <1>2, <1>4 DEF Repeats
  <2>2. m * LostReads \in Nat
    BY <1>1, Z3
  <2> HIDE DEF Frozen
  <2> QED
    BY <1>1, <1>2, <2>1, <2>2
<1>5. CASE outcome = "same"
  <2>1. b2 = 0 /\ m2 = m + 1 /\ n2 = n + 1
    BY <1>2, <1>5 DEF Repeats
  <2>2. m * LostReads \in Nat /\ (m + 1) * LostReads = m * LostReads + LostReads
    BY <1>1, Z3
  <2> QED
    BY <1>1, <1>2, <2>1, <2>2
<1> QED
  BY <1>3, <1>4, <1>5

LEMMA ReadStep ==
    ASSUME FramesInv, ReadSensors
    PROVE  FramesInv'
<1>1. PICK r \in Reads :
        /\ bad' = [s \in Sensors |-> IF r[s] = "bad" THEN bad[s] + 1 ELSE 0]
        /\ same' = [s \in Sensors |-> Repeats(r[s], same[s])]
        /\ have' = [s \in Sensors |-> have[s] \/ r[s] # "bad"]
        /\ age' = [s \in Sensors |-> IF r[s] = "new" THEN 0 ELSE IF age[s] < Frozen THEN age[s] + 1 ELSE Frozen]
  BY DEF ReadSensors
<1>2. /\ core1 = "read" /\ lost' = Lost(bad', same') /\ core1' = IF lost' # {} THEN "parked" ELSE "due"
      /\ UNCHANGED <<writing, bridge, main, attempt, transport, dead>>
  BY DEF ReadSensors, CoreZeroUnchanged
<1>3. ASSUME NEW s \in Sensors
      PROVE  /\ bad'[s] \in 0 .. LostReads /\ same'[s] \in 0 .. StuckReads /\ age'[s] \in 0 .. Frozen
             /\ age'[s] <= same'[s] * LostReads + bad'[s]
  <2>1. r[s] \in {"new", "same", "bad"}
    BY DEF Reads
  <2>2. bad[s] \in Nat /\ same[s] \in Nat /\ age[s] \in Nat
    BY FrozenIs DEF FramesInv, ReaderTypeOK
  <2>3. bad[s] < LostReads /\ same[s] < StuckReads /\ age[s] <= same[s] * LostReads + bad[s]
    BY <1>2 DEF FramesInv, GuardCounts
  <2>4. /\ bad'[s] = (IF r[s] = "bad" THEN bad[s] + 1 ELSE 0) /\ same'[s] = Repeats(r[s], same[s])
        /\ age'[s] = (IF r[s] = "new" THEN 0 ELSE IF age[s] < Frozen THEN age[s] + 1 ELSE Frozen)
    BY <1>1
  <2> QED
    BY <2>1, <2>2, <2>3, <2>4, CountsAfterRead
<1>4. ReaderTypeOK'
  <2>1. bad' \in [Sensors -> 0 .. LostReads] /\ same' \in [Sensors -> 0 .. StuckReads] /\ age' \in [Sensors -> 0 .. Frozen]
    BY <1>1, <1>3
  <2>2. have' \in [Sensors -> BOOLEAN] /\ lost' \subseteq Sensors /\ core1' \in {"parked", "due"}
    BY <1>1, <1>2 DEF FramesInv, ReaderTypeOK, Lost
  <2> QED
    BY <1>2, <2>1, <2>2 DEF FramesInv, ReaderTypeOK, transport, bridge
<1>5. Publication' /\ Transport'
  BY <1>2 DEF FramesInv, transport, bridge, Publication, Transport, WholeFrames, Shown, IsFrame
<1>6. GuardCounts'
  <2> SUFFICES ASSUME core1' # "parked", NEW s \in Sensors
               PROVE  bad'[s] < LostReads /\ same'[s] < StuckReads /\ age'[s] <= same'[s] * LostReads + bad'[s]
    BY DEF GuardCounts
  <2>1. s \notin Lost(bad', same')
    BY <1>2
  <2>2. bad'[s] < LostReads /\ same'[s] < StuckReads
    BY <1>3, <2>1, FrozenIs DEF Lost
  <2> QED
    BY <1>3, <2>2
<1>7. NoneFrozen'
  BY <1>2 DEF FramesInv, transport, bridge, NoneFrozen, FrozenIsBounded
<1> QED
  BY <1>2, <1>4, <1>5, <1>6, <1>7 DEF FramesInv, Startup

\* What a step of a publication leaves alone.
LEMMA PublishingRests ==
    ASSUME FramesInv, core1 \in {"due", "fill", "number", "switch", "publish"},
           UNCHANGED <<main, attempt, transport, dead, guard>>,
           core1' \in {"read", "fill", "number", "switch", "publish"},
           writing' \in {0, 1}, slots' \in [{0, 1} -> Slot], published' \in Numbers, slot' \in {0, 1}
    PROVE  ReaderTypeOK' /\ Startup' /\ GuardCounts'
<1>1. Startup'
  BY DEF FramesInv, Startup
<1>2. GuardCounts'
  BY DEF FramesInv, guard, GuardCounts
<1>3. ReaderTypeOK'
  BY DEF FramesInv, ReaderTypeOK, guard, transport
<1> QED
  BY <1>1, <1>2, <1>3

\* A step that writes a slot that is not shown.
LEMMA WritesOther ==
    ASSUME FramesInv, UNCHANGED <<main, transport, published, slot>>, Shown' = Shown
    PROVE  Transport' /\ (\A s \in Sensors : copy'.age[s] < Frozen) /\ FrozenIsBounded'
BY DEF FramesInv, transport, Transport, WholeFrames, IsFrame, NoneFrozen, FrozenIsBounded

LEMMA SlotTypes ==
    ASSUME ReaderTypeOK
    PROVE  /\ slots[0] \in Slot /\ slots[1] \in Slot /\ DOMAIN slots = {0, 1}
           /\ slot \in {0, 1} /\ 1 - slot \in {0, 1} /\ 1 - slot # slot /\ published \in Nat
BY ReaderAssumption DEF ReaderTypeOK, Numbers

LEMMA BeginStep ==
    ASSUME FramesInv, Begin
    PROVE  FramesInv'
<1>1. /\ core1 = "due" /\ published < MaxFrames /\ core1' = "fill" /\ writing' = 1 - slot
      /\ slots' = [slots EXCEPT ![1 - slot].a = published + 1]
      /\ UNCHANGED <<guard, published, slot, main, attempt, transport, dead>>
  BY DEF Begin, NextSlot, CoreZeroUnchanged
<1>2. /\ slots[0] \in Slot /\ slots[1] \in Slot /\ DOMAIN slots = {0, 1}
      /\ slot \in {0, 1} /\ 1 - slot \in {0, 1} /\ 1 - slot # slot /\ published \in Nat
  BY SlotTypes DEF FramesInv
<1>3. published + 1 \in Numbers
  BY <1>1, <1>2, ReaderAssumption DEF Numbers
<1> DEFINE other == 1 - slot
           old == slots[other]
           new == [old EXCEPT !.a = published + 1]
<1>4. old \in Slot /\ new \in Slot /\ new.a = published + 1 /\ new.sequence = old.sequence /\ new.age = old.age
  BY <1>2, <1>3 DEF Slot
<1>5. slots' = [slots EXCEPT ![other] = new]
  BY <1>1
<1> HIDE DEF new, old
<1>6. slots' \in [{0, 1} -> Slot] /\ slots'[other] = new /\ slots'[slot] = slots[slot]
  BY <1>2, <1>4, <1>5 DEF FramesInv, ReaderTypeOK
<1>7. Shown = slot /\ Shown' = slot
  BY <1>1 DEF Shown
<1>8. Publication'
  BY <1>1, <1>2, <1>4, <1>6, <1>7 DEF FramesInv, Publication, IsFrame, old
<1>9. NoneFrozen'
  <2>1. \A s \in Sensors : (slots'[other]).age[s] < Frozen /\ (slots'[slot]).age[s] < Frozen
    BY <1>2, <1>4, <1>6 DEF FramesInv, NoneFrozen, old
  <2>2. \A i \in {0, 1} : i = slot \/ i = other
    BY <1>2
  <2> QED
    BY <1>1, <1>7, <2>1, <2>2, WritesOther DEF NoneFrozen
<1> QED
  BY <1>1, <1>2, <1>6, <1>7, <1>8, <1>9, PublishingRests, WritesOther DEF FramesInv, ReaderTypeOK

LEMMA FillStep ==
    ASSUME FramesInv, Fill
    PROVE  FramesInv'
<1>1. /\ core1 = "fill" /\ core1' = "number" /\ writing = 1 - slot
      /\ slots' = [slots EXCEPT ![writing].b = published + 1, ![writing].age = age]
      /\ UNCHANGED <<guard, writing, published, slot, main, attempt, transport, dead>>
  BY DEF Fill, CoreZeroUnchanged, FramesInv, Publication
<1>2. /\ slots[0] \in Slot /\ slots[1] \in Slot /\ DOMAIN slots = {0, 1}
      /\ slot \in {0, 1} /\ 1 - slot \in {0, 1} /\ 1 - slot # slot /\ published \in Nat
  BY SlotTypes DEF FramesInv
<1>3. published + 1 \in Numbers
  BY <1>1, <1>2, ReaderAssumption DEF Numbers, FramesInv, Publication
<1>4. age \in [Sensors -> 0 .. Frozen] /\ \A s \in Sensors : age[s] < Frozen
  <2>1. age \in [Sensors -> 0 .. Frozen] /\ bad \in [Sensors -> 0 .. LostReads] /\ same \in [Sensors -> 0 .. StuckReads]
    BY DEF FramesInv, ReaderTypeOK
  <2>2. ASSUME NEW s \in Sensors PROVE age[s] < Frozen
    <3>1. bad[s] \in Nat /\ same[s] \in Nat /\ age[s] \in Nat
      BY <2>1, FrozenIs
    <3>2. bad[s] < LostReads /\ same[s] < StuckReads /\ age[s] <= same[s] * LostReads + bad[s]
      BY <1>1 DEF FramesInv, GuardCounts
    <3> QED
      BY <3>1, <3>2, YoungValue
  <2> QED
    BY <2>1, <2>2
<1> DEFINE other == 1 - slot
           old == slots[other]
           mid == [old EXCEPT !.b = published + 1]
           new == [mid EXCEPT !.age = age]
<1>5. old \in Slot /\ mid \in Slot /\ mid.a = old.a /\ mid.b = published + 1 /\ mid.sequence = old.sequence
  BY <1>2, <1>3 DEF Slot
<1>6. slots' = [slots EXCEPT ![other] = new]
  BY <1>1, <1>2
<1> HIDE DEF mid, old
<1>7. new \in Slot /\ new.a = old.a /\ new.b = published + 1 /\ new.sequence = old.sequence /\ new.age = age
  BY <1>4, <1>5 DEF Slot
<1> HIDE DEF new
<1>8. slots' \in [{0, 1} -> Slot] /\ slots'[other] = new /\ slots'[slot] = slots[slot]
  BY <1>2, <1>6, <1>7 DEF FramesInv, ReaderTypeOK
<1>9. Shown = slot /\ Shown' = slot
  BY <1>1 DEF Shown
<1>10. Publication'
  BY <1>1, <1>2, <1>7, <1>8, <1>9 DEF FramesInv, Publication, IsFrame, old
<1>11. NoneFrozen'
  <2>1. \A s \in Sensors : (slots'[other]).age[s] < Frozen /\ (slots'[slot]).age[s] < Frozen
    BY <1>2, <1>4, <1>7, <1>8 DEF FramesInv, NoneFrozen
  <2>2. \A i \in {0, 1} : i = slot \/ i = other
    BY <1>2
  <2> QED
    BY <1>1, <1>9, <2>1, <2>2, WritesOther DEF NoneFrozen
<1> QED
  BY <1>1, <1>2, <1>8, <1>9, <1>10, <1>11, PublishingRests, WritesOther DEF FramesInv, ReaderTypeOK

LEMMA NumberStep ==
    ASSUME FramesInv, Number
    PROVE  FramesInv'
<1>1. /\ core1 = "number" /\ core1' = "switch" /\ writing = 1 - slot
      /\ slots' = [slots EXCEPT ![writing].sequence = published + 1]
      /\ UNCHANGED <<guard, writing, published, slot, main, attempt, transport, dead>>
  BY DEF Number, CoreZeroUnchanged, FramesInv, Publication
<1>2. /\ slots[0] \in Slot /\ slots[1] \in Slot /\ DOMAIN slots = {0, 1}
      /\ slot \in {0, 1} /\ 1 - slot \in {0, 1} /\ 1 - slot # slot /\ published \in Nat
  BY SlotTypes DEF FramesInv
<1>3. published + 1 \in Numbers
  BY <1>1, <1>2, ReaderAssumption DEF Numbers, FramesInv, Publication
<1> DEFINE other == 1 - slot
           old == slots[other]
           new == [old EXCEPT !.sequence = published + 1]
<1>4. old \in Slot /\ new \in Slot /\ new.a = old.a /\ new.b = old.b /\ new.sequence = published + 1 /\ new.age = old.age
  BY <1>2, <1>3 DEF Slot
<1>5. slots' = [slots EXCEPT ![other] = new]
  BY <1>1
<1> HIDE DEF new, old
<1>6. slots' \in [{0, 1} -> Slot] /\ slots'[other] = new /\ slots'[slot] = slots[slot]
  BY <1>2, <1>4, <1>5 DEF FramesInv, ReaderTypeOK
<1>7. Shown = slot /\ Shown' = slot
  BY <1>1 DEF Shown
<1>8. Publication'
  BY <1>1, <1>2, <1>4, <1>6, <1>7 DEF FramesInv, Publication, IsFrame, old
<1>9. NoneFrozen'
  <2>1. \A s \in Sensors : (slots'[other]).age[s] < Frozen /\ (slots'[slot]).age[s] < Frozen
    BY <1>2, <1>4, <1>6 DEF FramesInv, NoneFrozen, old
  <2>2. \A i \in {0, 1} : i = slot \/ i = other
    BY <1>2
  <2> QED
    BY <1>1, <1>7, <2>1, <2>2, WritesOther DEF NoneFrozen
<1> QED
  BY <1>1, <1>2, <1>6, <1>7, <1>8, <1>9, PublishingRests, WritesOther DEF FramesInv, ReaderTypeOK

LEMMA SwitchStep ==
    ASSUME FramesInv, Switch
    PROVE  FramesInv'
<1>1. /\ core1 = "switch" /\ core1' = "publish" /\ writing = 1 - slot /\ slot' = 1 - slot
      /\ UNCHANGED <<guard, writing, slots, published, main, attempt, transport, dead>>
  BY DEF Switch, CoreZeroUnchanged, FramesInv, Publication
<1>2. /\ slot \in {0, 1} /\ 1 - slot \in {0, 1} /\ 1 - (1 - slot) = slot /\ 1 - slot # slot /\ published \in Nat
  BY SlotTypes DEF FramesInv
<1>3. Shown = slot /\ Shown' = slot
  BY <1>1, <1>2 DEF Shown
<1>4. Publication'
  BY <1>1, <1>2, <1>3 DEF FramesInv, Publication, IsFrame
<1>5. Transport'
  BY <1>1, <1>3 DEF FramesInv, transport, Transport, WholeFrames, IsFrame
<1>6. NoneFrozen'
  BY <1>1 DEF FramesInv, transport, NoneFrozen, FrozenIsBounded
<1> QED
  BY <1>1, <1>2, <1>4, <1>5, <1>6, PublishingRests DEF FramesInv, ReaderTypeOK

LEMMA PublishStep ==
    ASSUME FramesInv, Publish
    PROVE  FramesInv'
<1>1. /\ core1 = "publish" /\ core1' = "read" /\ published' = published + 1 /\ published < MaxFrames
      /\ UNCHANGED <<guard, writing, slots, slot, main, attempt, transport, dead>>
  BY DEF Publish, CoreZeroUnchanged, FramesInv, Publication
<1>2. slot \in {0, 1} /\ 1 - slot \in {0, 1} /\ 1 - (1 - slot) = slot /\ published \in Nat
  BY SlotTypes DEF FramesInv
<1>3. Shown = 1 - slot /\ Shown' = slot /\ published + 1 \in Numbers
  BY <1>1, <1>2, ReaderAssumption DEF Shown, Numbers
<1>4. Publication'
  BY <1>1, <1>2, <1>3 DEF FramesInv, Publication, IsFrame
<1>5. Transport'
  <2>1. sequence \in Nat
    BY ReaderAssumption DEF FramesInv, ReaderTypeOK, Numbers
  <2> QED
    BY <1>1, <1>2, <2>1 DEF FramesInv, transport, Transport, WholeFrames, IsFrame
<1>6. NoneFrozen'
  BY <1>1 DEF FramesInv, transport, NoneFrozen, FrozenIsBounded
<1> QED
  BY <1>1, <1>3, <1>4, <1>5, <1>6, PublishingRests DEF FramesInv, ReaderTypeOK

\* Core 0 touches nothing of core 1.
LEMMA CopyingRests ==
    ASSUME FramesInv, UNCHANGED <<dead, guard, core1, writing, bridge, attempt>>,
           main \in Transporting, main' \in Transporting \cup {"lost"},
           last' \in Numbers, sequence' \in Numbers, index' \in {0, 1}, copy' \in Slot, host' \in Slot
    PROVE  /\ ReaderTypeOK' /\ Startup' /\ Publication' /\ GuardCounts' /\ Shown' = Shown
           /\ (\A i \in {0, 1} : \A s \in Sensors : (slots'[i]).age[s] < Frozen)
<1>1. ReaderTypeOK'
  BY DEF FramesInv, ReaderTypeOK, guard, bridge
<1>2. Startup'
  BY DEF Startup, Transporting
<1> QED
  BY <1>1, <1>2, BridgeRests

LEMMA LoadStep ==
    ASSUME FramesInv, Load
    PROVE  FramesInv'
<1>1. /\ main = "load" /\ UNCHANGED <<attempt, last, index, copy, host, dead, guard, core1, writing, bridge>>
      /\ \/ main' = "wait" /\ sequence' = sequence
         \/ main' = "index" /\ sequence' = published /\ published # 0
  BY DEF Load, CoreOneUnchanged
<1>2. sequence' \in Numbers /\ published \in Nat
  BY <1>1, ReaderAssumption DEF FramesInv, ReaderTypeOK, Numbers
<1>3. ReaderTypeOK' /\ Startup' /\ Publication' /\ GuardCounts' /\ (\A i \in {0, 1} : \A s \in Sensors : (slots'[i]).age[s] < Frozen)
  BY <1>1, <1>2, CopyingRests DEF Transporting, FramesInv, ReaderTypeOK
<1>4. Transport'
  BY <1>1, <1>2 DEF FramesInv, Transport, WholeFrames, bridge
<1>5. NoneFrozen'
  BY <1>1, <1>3 DEF FramesInv, NoneFrozen, FrozenIsBounded
<1> QED
  BY <1>3, <1>4, <1>5 DEF FramesInv

LEMMA IndexStep ==
    ASSUME FramesInv, Index
    PROVE  FramesInv'
<1>1. /\ main = "index" /\ main' = "copy" /\ index' = slot
      /\ UNCHANGED <<attempt, last, sequence, copy, host, dead, guard, core1, writing, bridge>>
  BY DEF Index, Goes, CoreOneUnchanged
<1>2. ReaderTypeOK' /\ Startup' /\ Publication' /\ GuardCounts' /\ (\A i \in {0, 1} : \A s \in Sensors : (slots'[i]).age[s] < Frozen)
  BY <1>1, CopyingRests DEF Transporting, FramesInv, ReaderTypeOK
<1>3. Transport'
  BY <1>1 DEF FramesInv, Transport, WholeFrames, bridge
<1>4. NoneFrozen'
  BY <1>1, <1>2 DEF FramesInv, NoneFrozen, FrozenIsBounded
<1> QED
  BY <1>2, <1>3, <1>4 DEF FramesInv

LEMMA CopyStep ==
    ASSUME FramesInv, Copy
    PROVE  FramesInv'
<1>1. /\ main = "copy" /\ main' = "rest" /\ copy' = [Empty EXCEPT !.a = slots[index].a]
      /\ UNCHANGED <<attempt, last, sequence, index, host, dead, guard, core1, writing, bridge>>
  BY DEF Copy, Goes, CoreOneUnchanged
<1>2. slots[index] \in Slot /\ slots[index].a \in Numbers
  BY DEF FramesInv, ReaderTypeOK, Slot
<1>3. copy' \in Slot /\ copy'.a = slots[index].a /\ copy'.age = Empty.age
  <2> HIDE DEF Empty
  <2>1. Empty \in Slot
    BY EmptySlot
  <2> QED
    BY <1>1, <1>2, <2>1 DEF Slot
<1>4. /\ ReaderTypeOK' /\ Startup' /\ Publication' /\ GuardCounts' /\ Shown' = Shown
      /\ (\A i \in {0, 1} : \A s \in Sensors : (slots'[i]).age[s] < Frozen)
  BY <1>1, <1>3, CopyingRests DEF Transporting, FramesInv, ReaderTypeOK
<1>5. Transport'
  <2>1. slots[Shown].a = published
    BY DEF FramesInv, Publication, IsFrame
  <2> QED
    BY <1>1, <1>3, <1>4, <2>1 DEF FramesInv, Transport, WholeFrames, bridge
<1>6. NoneFrozen'
  BY <1>1, <1>3, <1>4, EmptySlot, FrozenIs DEF FramesInv, NoneFrozen, FrozenIsBounded
<1> QED
  BY <1>4, <1>5, <1>6 DEF FramesInv

LEMMA CopyRestStep ==
    ASSUME FramesInv, CopyRest
    PROVE  FramesInv'
<1>1. /\ main = "rest" /\ main' = "confirm" /\ copy' = [slots[index] EXCEPT !.a = copy.a]
      /\ UNCHANGED <<attempt, last, sequence, index, host, dead, guard, core1, writing, bridge>>
  BY DEF CopyRest, Goes, CoreOneUnchanged
<1> DEFINE shown == slots[index]
<1>2. shown \in Slot /\ copy.a \in Numbers
  BY DEF FramesInv, ReaderTypeOK, Slot
<1>3. copy' = [shown EXCEPT !.a = copy.a]
  BY <1>1
<1> HIDE DEF shown
<1>4. copy' \in Slot /\ copy'.a = copy.a /\ copy'.b = shown.b /\ copy'.sequence = shown.sequence /\ copy'.age = shown.age
  BY <1>2, <1>3 DEF Slot
<1>5. /\ ReaderTypeOK' /\ Startup' /\ Publication' /\ GuardCounts' /\ Shown' = Shown
      /\ (\A i \in {0, 1} : \A s \in Sensors : (slots'[i]).age[s] < Frozen)
  BY <1>1, <1>4, CopyingRests DEF Transporting, FramesInv, ReaderTypeOK
<1>6. Transport'
  <2>1. sequence # 0 /\ sequence <= published
    BY <1>1 DEF FramesInv, Transport
  <2>2. ASSUME published = sequence, shown.sequence = sequence
        PROVE  copy.a = sequence /\ shown.b = sequence
    <3>1. Shown \in {0, 1} /\ index \in {0, 1}
      BY SlotTypes DEF FramesInv, ReaderTypeOK, Shown
    <3>2. slots[1 - Shown].sequence # published /\ IsFrame(slots[Shown], published)
      BY <2>1, <2>2 DEF FramesInv, Publication
    <3>3. index = Shown
      BY <2>2, <3>1, <3>2 DEF shown
    <3>4. copy.a = sequence
      BY <1>1, <2>2, <3>3 DEF FramesInv, Transport
    <3> QED
      BY <2>2, <3>2, <3>3, <3>4 DEF shown, IsFrame
  <2>3. IsFrame(copy', sequence) <=> copy.a = sequence /\ shown.b = sequence /\ shown.sequence = sequence
    BY <1>4 DEF IsFrame
  <2>4. published' = published /\ sequence' = sequence /\ host' = host /\ copy'.sequence = shown.sequence /\ main' = "confirm"
    BY <1>1, <1>4 DEF bridge
  <2>5. WholeFrames'
    BY <2>4 DEF FramesInv, Transport, WholeFrames
  <2> QED
    BY <2>1, <2>2, <2>3, <2>4, <2>5 DEF Transport
<1>7. NoneFrozen'
  <2>1. \A s \in Sensors : shown.age[s] < Frozen
    BY DEF FramesInv, NoneFrozen, shown, ReaderTypeOK
  <2> QED
    BY <1>1, <1>4, <1>5, <2>1 DEF FramesInv, NoneFrozen, FrozenIsBounded
<1> QED
  BY <1>5, <1>6, <1>7 DEF FramesInv

LEMMA ConfirmStep ==
    ASSUME FramesInv, Confirm
    PROVE  FramesInv'
<1>1. /\ main = "confirm" /\ sequence' = 0 /\ index' = 0
      /\ UNCHANGED <<attempt, host, dead, guard, core1, writing, bridge>>
      /\ \/ main' = "send" /\ last' = sequence /\ copy' = copy /\ published = sequence /\ copy.sequence = sequence
         \/ main' = "load" /\ last' = last /\ copy' = Empty
  BY DEF Confirm, Confirmed, CoreOneUnchanged
<1>2. copy' \in Slot /\ last' \in Numbers /\ sequence' \in Numbers
  BY <1>1, EmptySlot, ReaderAssumption DEF FramesInv, ReaderTypeOK, Numbers
<1>3. ReaderTypeOK' /\ Startup' /\ Publication' /\ GuardCounts' /\ (\A i \in {0, 1} : \A s \in Sensors : (slots'[i]).age[s] < Frozen)
  BY <1>1, <1>2, CopyingRests DEF Transporting, FramesInv, ReaderTypeOK
<1>4. Transport'
  <2>1. main' = "send" => IsFrame(copy', copy'.sequence)
    BY <1>1 DEF FramesInv, Transport
  <2> QED
    BY <1>1, <2>1 DEF FramesInv, Transport, WholeFrames
<1>5. NoneFrozen'
  <2>1. \A s \in Sensors : copy'.age[s] < Frozen
    BY <1>1, EmptySlot, FrozenIs DEF FramesInv, NoneFrozen
  <2> QED
    BY <1>1, <1>3, <2>1 DEF FramesInv, NoneFrozen, FrozenIsBounded
<1> QED
  BY <1>3, <1>4, <1>5 DEF FramesInv

LEMMA SendStep ==
    ASSUME FramesInv, Send
    PROVE  FramesInv'
<1>1. /\ main = "send" /\ main' = "look" /\ host' \in {host, copy} /\ copy' = Empty
      /\ UNCHANGED <<attempt, last, sequence, index, dead, guard, core1, writing, bridge>>
  BY DEF Send, Goes, CoreOneUnchanged
<1>2. copy' \in Slot /\ host' \in Slot
  BY <1>1, EmptySlot DEF FramesInv, ReaderTypeOK
<1>3. ReaderTypeOK' /\ Startup' /\ Publication' /\ GuardCounts' /\ (\A i \in {0, 1} : \A s \in Sensors : (slots'[i]).age[s] < Frozen)
  BY <1>1, <1>2, CopyingRests DEF Transporting, FramesInv, ReaderTypeOK
<1>4. Transport'
  <2>1. WholeFrames'
    BY <1>1 DEF FramesInv, Transport, WholeFrames, IsFrame
  <2> QED
    BY <1>1, <2>1 DEF Transport
<1>5. NoneFrozen'
  <2>1. \A s \in Sensors : copy'.age[s] < Frozen
    BY <1>1, EmptySlot, FrozenIs
  <2>2. FrozenIsBounded'
    BY <1>1 DEF FramesInv, NoneFrozen, FrozenIsBounded
  <2> QED
    BY <1>3, <2>1, <2>2 DEF NoneFrozen
<1> QED
  BY <1>3, <1>4, <1>5 DEF FramesInv

LEMMA FramesStep == FramesInv /\ [ReaderNext]_reader => FramesInv'
<1> SUFFICES ASSUME FramesInv, [ReaderNext]_reader PROVE FramesInv'
  OBVIOUS
<1>1. CASE CoreZero
  BY <1>1, StartSteps, CoreOneSteps, LoadStep, IndexStep, CopyStep, CopyRestStep, ConfirmStep, SendStep DEF CoreZero
<1>2. CASE CoreOne
  BY <1>2, ReadStep, CoreOneSteps, BeginStep, FillStep, NumberStep, SwitchStep, PublishStep DEF CoreOne
<1>3. CASE SensorDies \/ Wedge
  BY <1>3, CoreOneSteps
<1>4. CASE UNCHANGED reader
  <2>1. UNCHANGED <<main, attempt, dead, guard, core1, writing, bridge, transport>>
    BY <1>4 DEF reader
  <2>2. ReaderTypeOK' /\ Startup'
    BY <2>1 DEF FramesInv, ReaderTypeOK, Startup, guard, bridge, transport
  <2>3. Publication' /\ GuardCounts' /\ (\A i \in {0, 1} : \A s \in Sensors : (slots'[i]).age[s] < Frozen) /\ Shown' = Shown
    BY <2>1, BridgeRests
  <2>4. Transport' /\ NoneFrozen'
    BY <2>1, <2>3 DEF FramesInv, transport, bridge, Transport, WholeFrames, IsFrame, NoneFrozen, FrozenIsBounded
  <2> QED
    BY <2>2, <2>3, <2>4 DEF FramesInv
<1> QED
  BY <1>1, <1>2, <1>3, <1>4 DEF ReaderNext

\* What the firmware sends is one publication, whole, and none of its values is older
\* than the guard allows: whatever core 1 writes while core 0 copies, and however
\* failed and repeated reads take turns.
THEOREM FramesAreSound == ReaderSpec => []SoundFrames
<1>1. FramesInv => SoundFrames
  BY DEF FramesInv, Transport, NoneFrozen, SoundFrames
<1> QED
  BY <1>1, FramesInit, FramesStep, PTL DEF ReaderSpec
=============================================================================
