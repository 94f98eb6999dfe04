------------------------- MODULE SafetyCore_proofs --------------------------
(***************************************************************************)
(* Lemmas about the operators of SafetyCore: their types, and what each of *)
(* them keeps of the core it is given.                                     *)
(***************************************************************************)
EXTENDS SafetyCore, TLAPS

\* The row index of evaluate never leaves the plan.
LEMMA RowIndex ==
    ASSUME NEW last \in Nat, NEW pos \in 0 .. last * RowTime
    PROVE  pos \div RowTime \in 0 .. last
<1>1. RowTime \in Nat /\ RowTime > 0
  BY TimeAssumption
<1>2. pos \in Int /\ pos >= 0 /\ pos <= last * RowTime
  BY <1>1
<1> DEFINE q == pos \div RowTime
<1>3. q \in Int /\ RowTime * q <= pos /\ pos < RowTime * (q + 1)
  BY <1>1, <1>2, Z3
<1>4. q <= last
  <2> SUFFICES ASSUME q >= last + 1 PROVE FALSE
    BY <1>3
  <2>1. RowTime * q >= RowTime * (last + 1)
    BY <1>1, <1>3, Z3
  <2>2. RowTime * (last + 1) = last * RowTime + RowTime
    BY <1>1, Z3
  <2> QED
    BY <1>1, <1>2, <1>3, <2>1, <2>2
<1>5. q >= 0
  <2> SUFFICES ASSUME q <= -1 PROVE FALSE
    BY <1>3
  <2>1. RowTime * (q + 1) <= 0
    BY <1>1, <1>3, Z3
  <2>2. RowTime * (q + 1) \in Int
    BY <1>1, <1>3
  <2> QED
    BY <1>2, <1>3, <2>1, <2>2, Z3
<1> QED
  BY <1>3, <1>4, <1>5

LEMMA ZeroType == Zero \in Row
BY DEF Zero, Row

\* Interpolating between rows of integers yields integers.
LEMMA EvaluateType ==
    ASSUME NEW plan \in Plan, NEW now \in Nat
    PROVE  Evaluate(plan, now) \in Row
<1>1. CASE plan.rows = <<>>
  BY <1>1, ZeroType DEF Evaluate
<1>2. CASE plan.rows # <<>>
  <2> DEFINE last == Len(plan.rows) - 1
             pos == Clamp(now - plan.t0, 0, last * RowTime)
             i == pos \div RowTime
             next == IF i < last THEN i + 1 ELSE last
  <2>1. plan.rows \in Seq(Row) /\ plan.t0 \in Int
    BY DEF Plan
  <2>2. last \in Nat /\ DOMAIN plan.rows = 1 .. last + 1
    BY <1>2, <2>1
  <2>3. RowTime \in Nat /\ last * RowTime \in Nat
    BY <2>2, TimeAssumption
  <2>4. pos \in 0 .. last * RowTime
    BY <2>1, <2>3 DEF Clamp
  <2>5. i \in 0 .. last
    BY <2>2, <2>4, RowIndex
  <2>6. i + 1 \in DOMAIN plan.rows /\ next + 1 \in DOMAIN plan.rows
    BY <2>2, <2>5
  <2>7. plan.rows[i + 1] \in Row /\ plan.rows[next + 1] \in Row
    BY <2>1, <2>6
  <2> DEFINE value(a) == plan.rows[i + 1][a] * RowTime
                         + (plan.rows[next + 1][a] - plan.rows[i + 1][a]) * (pos - i * RowTime)
  <2>8. ASSUME NEW a \in Axes PROVE value(a) \in Int
    <3>1. plan.rows[i + 1][a] \in Int /\ plan.rows[next + 1][a] \in Int
      BY <2>7, <2>8 DEF Row
    <3>2. pos - i * RowTime \in Int
      BY <2>3, <2>4, <2>5
    <3> HIDE DEF i, next, pos, last
    <3> QED
      BY <2>3, <3>1, <3>2
  <2>9. Evaluate(plan, now) = [a \in Axes |-> IF a \in EnabledAxes THEN value(a) ELSE 0]
    BY <1>2 DEF Evaluate
  <2> HIDE DEF value
  <2> QED
    BY <2>8, <2>9 DEF Row
<1> QED
  BY <1>1, <1>2

LEMMA PlanOfType ==
    ASSUME NEW s \in Shape, NEW now \in Nat
    PROVE  PlanOf(s, now) \in Plan
BY DEF PlanOf, Plan, Shape, Start, Observation

\* Stopping keeps the type and every timestamp.
LEMMA HaltType ==
    ASSUME NEW c \in CoreType, NEW state \in SafetyState
    PROVE  /\ Halt(c, state) \in CoreType
           /\ Halt(c, state).state = state
<1> DEFINE emptied == [c.plan EXCEPT !.rows = <<>>]
<1>1. c.plan \in Plan
  BY DEF CoreType
<1>2. emptied \in Plan
  <2>1. <<>> \in Seq(Row)
    OBVIOUS
  <2> QED
    BY <1>1, <2>1 DEF Plan
<1>3. Halt(c, state) =
        [c EXCEPT !.state = state, !.pump = FALSE, !.previous = Zero, !.plan = emptied]
  BY DEF Halt, CoreType
<1> HIDE DEF emptied
<1> QED
  BY <1>2, <1>3, ZeroType DEF CoreType

LEMMA AcceptType ==
    ASSUME NEW c \in CoreType, NEW s \in Shape, NEW now \in Nat
    PROVE  Accept(c, s, now) \in CoreType
BY PlanOfType DEF Accept, CoreType, SafetyState, Shape

LEMMA ReceiveDriveType ==
    ASSUME NEW c \in CoreType, NEW s \in Shape, NEW now \in Nat,
           NEW healthy \in BOOLEAN
    PROVE  ReceiveDrive(c, s, now, healthy) \in CoreType
BY HaltType, AcceptType DEF ReceiveDrive, Fault, Disarm, SafetyState

LEMMA TickType ==
    ASSUME NEW c \in CoreType, NEW now \in Nat, NEW healthy \in BOOLEAN
    PROVE  Tick(c, now, healthy) \in CoreType
<1>1. Evaluate(c.plan, now) \in Row
  BY EvaluateType DEF CoreType
<1>2. StartDecay(c, now) \in CoreType
  BY DEF StartDecay, CoreType, SafetyState
<1>3. ASSUME NEW d \in CoreType PROVE EndDecay(d, now) \in CoreType
  BY HaltType DEF EndDecay, Fault, SafetyState
<1>4. [c EXCEPT !.previous = Evaluate(c.plan, now)] \in CoreType
  BY <1>1 DEF CoreType
<1> QED
  BY <1>2, <1>3, <1>4, HaltType DEF Tick, Fault, Disarm, SafetyState

-----------------------------------------------------------------------------
\* What tick leaves live, and with which timers: only a healthy IMU keeps the
\* core live, arming never completes by itself, and a decay is never prolonged.
LEMMA TickEffect ==
    ASSUME NEW c \in CoreType, NEW now \in Nat, NEW healthy \in BOOLEAN,
           NEW d, d = Tick(c, now, healthy), d.state \in {"arming", "armed", "decaying"}
    PROVE  /\ healthy /\ d.arm_started = c.arm_started /\ d.updated = c.updated
           /\ d.state = "arming" => c.state = "arming"
           /\ d.state = "armed" => c.state = "armed" /\ now - c.updated <= Lease
           /\ d.state = "decaying" =>
                 \/ c.state = "armed" /\ d.decay_started = now /\ 0 < Decay
                 \/ /\ c.state = "decaying" /\ d.decay_started = c.decay_started
                    /\ now - c.decay_started < Decay
<1>1. \A e \in CoreType : Fault(e).state = "fault" /\ Disarm(e).state = "disarmed"
  BY HaltType DEF Fault, Disarm, SafetyState
<1>2. /\ c.state \in SafetyState /\ c.updated \in Nat /\ c.decay_started \in Nat
      /\ Lease \in Nat /\ Decay \in Nat
  BY TimeAssumption DEF CoreType
<1>3. CASE c.state = "arming"
  <2>1. d = c /\ healthy
    BY <1>1, <1>3 DEF Tick
  <2> QED
    BY <1>3, <2>1
<1>4. CASE c.state = "armed"
  <2>1. healthy
    BY <1>1, <1>4 DEF Tick
  <2>2. CASE ~Expired(c, now) /\ ~Exhausted(c, now)
    <3>1. d = [c EXCEPT !.previous = Evaluate(c.plan, now)]
      BY <1>1, <1>4, <2>1, <2>2 DEF Tick
    <3>2. /\ d.state = c.state /\ d.arm_started = c.arm_started /\ d.updated = c.updated
      BY <3>1 DEF CoreType
    <3>3. now - c.updated <= Lease
      BY <1>2, <2>2 DEF Expired
    <3> QED
      BY <1>4, <2>1, <3>2, <3>3
  <2>3. CASE Expired(c, now) \/ Exhausted(c, now)
    <3> DEFINE e == StartDecay(c, now)
    <3>1. /\ e \in CoreType /\ e.state = "decaying" /\ e.decay_started = now
          /\ e.arm_started = c.arm_started /\ e.updated = c.updated
      BY DEF StartDecay, CoreType, SafetyState
    <3>2. d = EndDecay(e, now)
      BY <1>1, <1>4, <2>1, <2>3 DEF Tick
    <3>3. d = e /\ DecayLeft(e, now) # 0
      BY <1>1, <3>1, <3>2 DEF EndDecay
    <3>4. 0 < Decay
      BY <1>2, <3>3 DEF DecayLeft
    <3> QED
      BY <1>4, <2>1, <3>1, <3>3, <3>4
  <2> QED
    BY <2>2, <2>3
<1>5. CASE c.state = "decaying"
  <2>1. healthy
    BY <1>1, <1>5 DEF Tick
  <2>2. d = EndDecay(c, now)
    BY <1>1, <1>5, <2>1 DEF Tick
  <2>3. d = c /\ DecayLeft(c, now) # 0
    BY <1>1, <2>2 DEF EndDecay
  <2>4. now - c.decay_started < Decay
    BY <1>2, <2>3 DEF DecayLeft, Clamp
  <2> QED
    BY <1>5, <2>1, <2>3, <2>4
<1>6. CASE c.state \in {"disarmed", "fault"}
  BY <1>6 DEF Tick
<1> QED
  BY <1>2, <1>3, <1>4, <1>5, <1>6 DEF SafetyState

\* What receive leaves live after a drive packet: a decay it ignored, or a core
\* whose lease starts now and whose arming started now or was already running.
LEMMA ReceiveDriveEffect ==
    ASSUME NEW c \in CoreType, NEW s \in Shape, NEW now \in Nat,
           NEW healthy \in BOOLEAN,
           NEW d, d = ReceiveDrive(c, s, now, healthy),
           d.state \in {"arming", "armed", "decaying"}
    PROVE  \/ c.state = "decaying" /\ d = c
           \/ /\ d.state \in {"arming", "armed"} /\ d.updated = now
              /\ \/ c.state \in {"arming", "armed"} /\ d.arm_started = c.arm_started
                 \/ c.state = "disarmed" /\ d.arm_started = now
              /\ d.state = "armed" => c.state = "armed" \/ now - d.arm_started >= ArmDuration
<1>1. \A e \in CoreType : Fault(e).state = "fault" /\ Disarm(e).state = "disarmed"
  BY HaltType DEF Fault, Disarm, SafetyState
<1>2. CASE c.state \in {"fault", "decaying"}
  BY <1>2 DEF ReceiveDrive
<1>3. CASE c.state \notin {"fault", "decaying"}
  <2>1. d = Accept(c, s, now)
    BY <1>1, <1>3 DEF ReceiveDrive
  <2>2. c.state \in {"disarmed", "arming", "armed"}
    BY <1>3 DEF CoreType, SafetyState
  <2> DEFINE started == IF c.state \in {"arming", "armed"} THEN c.arm_started ELSE now
             held == c.state = "armed" \/ now - started >= ArmDuration
  <2>3. /\ d.state = IF held THEN "armed" ELSE "arming"
        /\ d.arm_started = started /\ d.updated = now
    BY <2>1 DEF Accept, CoreType
  <2> QED
    BY <2>2, <2>3
<1> QED
  BY <1>2, <1>3

\* What tick leaves armed runs a plan that is neither past its end nor planned
\* from too old an observation.
LEMMA TickLicence ==
    ASSUME NEW c \in CoreType, NEW now \in Nat, NEW healthy \in BOOLEAN,
           NEW d, d = Tick(c, now, healthy), d.state = "armed"
    PROVE  d.plan = c.plan /\ ~Exhausted(c, now) /\ ~StaleObservation(c, now)
<1>1. \A e \in CoreType : Fault(e).state = "fault" /\ Disarm(e).state = "disarmed"
  BY HaltType DEF Fault, Disarm, SafetyState
<1>2. c.state = "armed" /\ healthy
  BY TickEffect
<1>3. ~StaleObservation(c, now)
  BY <1>1, <1>2 DEF Tick
<1>4. CASE ~Expired(c, now) /\ ~Exhausted(c, now)
  <2>1. d = [c EXCEPT !.previous = Evaluate(c.plan, now)]
    BY <1>2, <1>3, <1>4 DEF Tick
  <2>2. d.plan = c.plan
    BY <2>1 DEF CoreType
  <2> QED
    BY <1>3, <1>4, <2>2
<1>5. CASE Expired(c, now) \/ Exhausted(c, now)
  <2>1. StartDecay(c, now) \in CoreType /\ StartDecay(c, now).state = "decaying"
    BY DEF StartDecay, CoreType, SafetyState
  <2>2. d = EndDecay(StartDecay(c, now), now)
    BY <1>2, <1>3, <1>5 DEF Tick
  <2> QED
    BY <1>1, <2>1, <2>2 DEF EndDecay
<1> QED
  BY <1>4, <1>5

\* A core that decays or is stopped never comes back to life by a tick, and a
\* decay that goes on keeps where it began.
LEMMA TickOfStopped ==
    ASSUME NEW c \in CoreType, NEW now \in Nat, NEW healthy \in BOOLEAN,
           NEW d, d = Tick(c, now, healthy)
    PROVE  /\ c.state = "decaying" => d.state = "fault" \/ d = c
           /\ c.state \in {"disarmed", "fault"} => d = c
<1>1. \A e \in CoreType : Fault(e).state = "fault" /\ Disarm(e).state = "disarmed"
  BY HaltType DEF Fault, Disarm, SafetyState
<1>2. CASE c.state = "decaying"
  <2>1. d = Fault(c) \/ d = EndDecay(c, now)
    BY <1>2 DEF Tick
  <2> QED
    BY <1>1, <1>2, <2>1 DEF EndDecay
<1>3. CASE c.state \in {"disarmed", "fault"}
  BY <1>3 DEF Tick
<1> QED
  BY <1>2, <1>3

\* A drive packet never ends a fault and never touches a decay.
LEMMA ReceiveOfStopped ==
    ASSUME NEW c, NEW s, NEW now, NEW healthy, c.state \in {"fault", "decaying"}
    PROVE  ReceiveDrive(c, s, now, healthy) = c
BY DEF ReceiveDrive
=============================================================================
