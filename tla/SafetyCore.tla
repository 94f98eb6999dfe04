----------------------------- MODULE SafetyCore -----------------------------
(***************************************************************************)
(* The safety state machine of the control service: ControlCore of         *)
(* native_stack/src/core.cpp and the packet decoder in front of it, as     *)
(* operators on a record with the fields of the class.  The service loop   *)
(* that calls them is ControlService.                                      *)
(*                                                                         *)
(* Times are natural numbers of one unit; 0 in an optional time field      *)
(* means "absent", as in the wire format.  A command is a function from    *)
(* valve axes to integers.  Interpolation divides by the row time and the  *)
(* decay divides by its duration, so computed commands are kept in units   *)
(* of 1/(RowTime * DecayScale) of a packet's unit and stay exact.          *)
(***************************************************************************)
EXTENDS Integers, Sequences

CONSTANTS
    Axes,              \* the valve axes a command addresses
    EnabledAxes,       \* the axes not masked by enable_slew / enable_tracks
    Full,              \* full scale of an axis (1.0 in the code)
    Centre,            \* largest magnitude still counted as centred (0.01)
    RowTime,           \* 1/fps, the time between two rows of a plan
    ArmDuration,       \* arm_duration: how long the centred hold lasts
    Lease,             \* command_lease: how long one drive packet authorises motion
    Decay,             \* decay: how long valve commands fade after the lease
    MaxPacketAge,      \* max_packet_age
    Tolerance,         \* how far ahead of the loop's clock a packet's times may be
    MaxObservationAge, \* max_observation_age
    MaxHorizon         \* max_horizon

ASSUME AxesAssumption == EnabledAxes \subseteq Axes
ASSUME ScaleAssumption == Full \in Nat /\ Centre \in Nat /\ Centre <= Full
ASSUME TimeAssumption ==
    /\ RowTime \in Nat \ {0}
    /\ ArmDuration \in Nat /\ Lease \in Nat /\ Decay \in Nat
    /\ MaxPacketAge \in Nat /\ Tolerance \in Nat
    /\ MaxObservationAge \in Nat /\ MaxHorizon \in Nat

Row == [Axes -> Int]
Zero == [a \in Axes |-> 0]
Abs(x) == IF x < 0 THEN -x ELSE x
Clamp(x, lo, hi) == IF x < lo THEN lo ELSE IF x > hi THEN hi ELSE x

SafetyState == {"disarmed", "arming", "armed", "decaying", "fault"}
Operation == {"drive", "disarm", "estop", "status"}

\* What a peer puts on the wire, its times as ages relative to the tick that
\* reads it; a negative age is a time ahead of that tick.  timed and observed
\* say whether the start and the observation time are present (not 0).
Shape == [op : Operation, wellformed : BOOLEAN, deadman : BOOLEAN, arm : BOOLEAN,
          pump : BOOLEAN, rows : Seq(Row), sent : Int,
          timed : BOOLEAN, t0 : Int, observed : BOOLEAN, observation : Int]

\* The part of a packet that core.plan_ keeps and the core reads.
Plan == [rows : Seq(Row), t0 : Int, observation : Int]
NoPlan == [rows |-> <<>>, t0 |-> 0, observation |-> 0]

-----------------------------------------------------------------------------
(* decode_packet.                                                          *)

Start(s, now) == IF s.timed THEN now - s.t0 ELSE 0
Observation(s, now) == IF s.observed THEN now - s.observation ELSE 0

InRange(rows) == \A i \in DOMAIN rows : \A a \in Axes : Abs(rows[i][a]) <= Full

Decodes(s, now) ==
    /\ s.wellformed
    /\ s.sent <= MaxPacketAge /\ -s.sent <= Tolerance
    /\ IF s.op # "drive" THEN s.rows = <<>>
       ELSE /\ s.rows # <<>>
            /\ Len(s.rows) > 1 \/ Observation(s, now) > 0 =>
                   /\ Observation(s, now) > 0
                   /\ now - Observation(s, now) <= MaxObservationAge
                   /\ Observation(s, now) - now <= Tolerance
            /\ Start(s, now) > 0 =>
                   /\ Start(s, now) - now <= Tolerance
                   /\ now - Start(s, now) <= MaxHorizon
            /\ (Len(s.rows) - 1) * RowTime <= MaxHorizon
            /\ InRange(s.rows)

\* The plan a decoded drive packet carries; an absent start is the receiving tick.
PlanOf(s, now) ==
    [rows |-> s.rows,
     t0 |-> IF Start(s, now) <= 0 THEN now ELSE Start(s, now),
     observation |-> Observation(s, now)]

-----------------------------------------------------------------------------
(* ControlCore.                                                            *)

CoreType ==
    [state : SafetyState, pump : BOOLEAN, arm_started : Nat, updated : Nat,
     decay_started : Nat, plan : Plan, previous : Row, decay_from : Row]

CoreInit ==
    [state |-> "disarmed", pump |-> FALSE, arm_started |-> 0, updated |-> 0,
     decay_started |-> 0, plan |-> NoPlan, previous |-> Zero, decay_from |-> Zero]

\* halt keeps the packet but empties it: plan_.count = 0.  The reason string it
\* records is only reported, never read, and is left out.
Halt(c, state) ==
    [c EXCEPT !.state = state, !.pump = FALSE, !.previous = Zero, !.plan.rows = <<>>]
Fault(c) == Halt(c, "fault")
Disarm(c) == Halt(c, "disarmed")

PumpOn(c) == c.state = "armed" /\ c.pump

Centred(rows) == Len(rows) = 1 /\ \A a \in Axes : Abs(rows[1][a]) <= Centre

\* The accepting tail of receive: arming starts or completes, then the plan,
\* the lease and the pump authorisation are replaced.
Accept(c, s, now) ==
    LET started == IF c.state \in {"arming", "armed"} THEN c.arm_started ELSE now
        held == c.state = "armed" \/ now - started >= ArmDuration
    IN  [c EXCEPT !.state = IF held THEN "armed" ELSE "arming",
                  !.arm_started = started,
                  !.plan = PlanOf(s, now),
                  !.updated = now,
                  !.pump = s.pump]

\* Mutant of ReceiveDrive: only a decaying core ignores drive packets.
ReceiveDrive_UnlatchesFault(c, s, now, healthy) ==
    IF c.state = "decaying" THEN c
    ELSE IF ~s.deadman THEN Disarm(c)
    ELSE IF ~healthy THEN Fault(c)
    ELSE IF c.state # "armed" /\ ~(s.arm /\ Centred(s.rows)) THEN Disarm(c)
    ELSE Accept(c, s, now)
\* Mutant of ReceiveDrive: a producer that returns during the decay resumes.
ReceiveDrive_Resumes(c, s, now, healthy) ==
    IF c.state = "fault" THEN c
    ELSE IF ~s.deadman THEN Disarm(c)
    ELSE IF ~healthy THEN Fault(c)
    ELSE IF c.state = "decaying" THEN Accept([c EXCEPT !.state = "armed"], s, now)
    ELSE IF c.state # "armed" /\ ~(s.arm /\ Centred(s.rows)) THEN Disarm(c)
    ELSE Accept(c, s, now)
ReceiveDrive(c, s, now, healthy) ==
    IF c.state \in {"fault", "decaying"} THEN c
    ELSE IF ~s.deadman THEN Disarm(c)
    ELSE IF ~healthy THEN Fault(c)
    ELSE IF c.state # "armed" /\ ~(s.arm /\ Centred(s.rows)) THEN Disarm(c)
    ELSE Accept(c, s, now)

\* evaluate, in units of 1/RowTime: linear interpolation between the two rows
\* around now, the masked axes zero.
Evaluate(plan, now) ==
    LET last == Len(plan.rows) - 1
        pos == Clamp(now - plan.t0, 0, last * RowTime)
        i == pos \div RowTime
        next == IF i < last THEN i + 1 ELSE last
    IN  IF plan.rows = <<>> THEN Zero
        ELSE [a \in Axes |->
                IF a \in EnabledAxes
                THEN plan.rows[i + 1][a] * RowTime
                     + (plan.rows[next + 1][a] - plan.rows[i + 1][a]) * (pos - i * RowTime)
                ELSE 0]

\* Mutant of Expired: the lease is not checked.
Expired_Never(c, now) == FALSE
Expired(c, now) == now - c.updated > Lease
\* Mutant of Exhausted: a plan ends one row time after its last row.
Exhausted_HoldsLastRow(c, now) ==
    Len(c.plan.rows) > 1 /\ now > c.plan.t0 + Len(c.plan.rows) * RowTime
Exhausted(c, now) ==
    Len(c.plan.rows) > 1 /\ now > c.plan.t0 + (Len(c.plan.rows) - 1) * RowTime
StaleObservation(c, now) ==
    c.plan.observation > 0 /\ now - c.plan.observation > MaxObservationAge

StartDecay(c, now) ==
    [c EXCEPT !.state = "decaying", !.decay_from = c.previous, !.decay_started = now,
              !.pump = FALSE]

\* The remaining share of the decay, in units of 1/DecayScale.
DecayScale == IF Decay > 0 THEN Decay ELSE 1
DecayLeft(c, now) == IF Decay > 0 THEN Clamp(Decay - (now - c.decay_started), 0, Decay) ELSE 0

EndDecay(c, now) == IF DecayLeft(c, now) = 0 THEN Fault(c) ELSE c

Tick(c, now, healthy) ==
    IF c.state = "armed" /\ StaleObservation(c, now) THEN Fault(c)
    ELSE IF c.state \in {"armed", "arming", "decaying"} /\ ~healthy THEN Fault(c)
    ELSE IF c.state = "arming" /\ Expired(c, now) THEN Disarm(c)
    ELSE IF c.state = "armed" /\ ~Expired(c, now) /\ ~Exhausted(c, now)
         THEN [c EXCEPT !.previous = Evaluate(c.plan, now)]
    ELSE IF c.state = "armed" THEN EndDecay(StartDecay(c, now), now)
    ELSE IF c.state = "decaying" THEN EndDecay(c, now)
    ELSE c

\* What tick returns, read off the state it leaves.
Command(c, now) ==
    IF c.state = "armed" THEN [a \in Axes |-> c.previous[a] * DecayScale]
    ELSE IF c.state = "decaying" THEN [a \in Axes |-> c.decay_from[a] * DecayLeft(c, now)]
    ELSE Zero
=============================================================================
