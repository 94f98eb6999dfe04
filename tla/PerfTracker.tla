---------------------------- MODULE PerfTracker ----------------------------
(***************************************************************************)
(* The performance trackers of reference/modules/perf_tracker.py.  A loop  *)
(* thread reports its ticks and their stages; another thread resets the    *)
(* tracker and switches it on and off.  One lock guards the statistics and *)
(* the reset, but not the time stamps of the tick in progress: those are   *)
(* read and written one at a time here.  The three classes share this      *)
(* shape and most of the fields; class says which one a behaviour is of.   *)
(* period is what a tick is measured against: a LoopPerfTracker is told it *)
(* at the end of each tick, and 0 stands for none, which is all that the   *)
(* PWM controller tells.                                                   *)
(*                                                                         *)
(* A running statistic holds its mean times Scale and its m2 times the     *)
(* square of Scale, both exact.  The rate window and the share of the      *)
(* processor decide nothing and are left out.                              *)
(***************************************************************************)
EXTENDS Integers, SequencesExt

CONSTANTS
    Target,  \* the period that a loop aims at
    Buffer,  \* length of the ring buffers
    Scale,   \* see ScaleAssumption
    MaxSamples, MaxTime, MaxCalls \* bounds: ticks since a reset, the clock, calls of the other thread

ASSUME ScaleAssumption == Scale \in Nat \ {0} /\ \A n \in 1 .. MaxSamples : Scale % n = 0
ASSUME TrackerAssumption == Target \in Nat \ {0} /\ Buffer \in Nat \ {0} /\ MaxTime \in Nat /\ MaxCalls \in Nat

VARIABLES
    now, class, period, enabled,
    last, current, stage,   \* _last_tick_start, _current_tick_start, _stage_starts
    loop, proc, head,       \* running statistics
    loopTimes, computeTimes, stageTimes, \* ring buffers
    total, violations, missed, \* _total_count, _violation_count, _deadline_miss_count
    pc, t, x,               \* the loop thread: its step, its now, the duration it records
    calls,                  \* of the other thread so far
    samples, origin, disturbed \* history: the intervals since a reset, and from where on; a reset in this call

stamps == <<last, current, stage>>
intervals == <<loop, loopTimes, missed>>
durations == <<proc, head, computeTimes, total, violations>>
thread == <<pc, t, x>>
history == <<samples, origin, disturbed>>
vars == <<now, class, period, enabled, stamps, intervals, durations, stageTimes, thread, calls, history>>

None == -1
NoStat == [n |-> 0, mean |-> 0, m2 |-> 0, min |-> MaxTime + 1, max |-> 0]
\* The headroom can be negative.
NoHeadroom == [NoStat EXCEPT !.max = -MaxTime - 1]

Init ==
    /\ now = 0 /\ class \in {"loop", "interval", "control"} /\ enabled \in BOOLEAN
    /\ period \in {0, Target} /\ (class # "loop" => period = Target)
    /\ last = None /\ current = None /\ stage = None
    /\ loop = NoStat /\ proc = NoStat /\ head = NoHeadroom
    /\ loopTimes = <<>> /\ computeTimes = <<>> /\ stageTimes = <<>>
    /\ total = 0 /\ violations = 0 /\ missed = 0
    /\ pc = "idle" /\ t = 0 /\ x = 0 /\ calls = 0
    /\ samples = <<>> /\ origin = None /\ disturbed = FALSE

Tick ==
    /\ now < MaxTime /\ now' = now + 1
    /\ UNCHANGED <<class, period, enabled, stamps, intervals, durations, stageTimes, thread, calls, history>>

-----------------------------------------------------------------------------
(* What is kept of the samples.                                            *)

\* Welford's step.
Add(stat, sample) ==
    LET n == stat.n + 1
        delta == Scale * sample - stat.mean
        mean == stat.mean + delta \div n
    IN  [n |-> n, mean |-> mean, m2 |-> stat.m2 + delta * (Scale * sample - mean),
         min |-> IF sample < stat.min THEN sample ELSE stat.min,
         max |-> IF sample > stat.max THEN sample ELSE stat.max]

\* A deque with a maximal length.
Push(ring, sample) == IF Len(ring) < Buffer THEN Append(ring, sample) ELSE Append(Tail(ring), sample)
\* Whether it is longer than the period, if there is one.
Over(sample) == IF period > 0 /\ sample > period THEN 1 ELSE 0

\* What an interval of the loop adds, under the lock.
Record(sample) ==
    /\ samples' = Append(samples, sample)
    /\ IF class = "control"
       THEN loopTimes' = Push(loopTimes, sample) /\ missed' = missed + Over(sample) /\ UNCHANGED loop
       ELSE loop' = Add(loop, sample) /\ UNCHANGED <<loopTimes, missed>>

-----------------------------------------------------------------------------
(* The loop thread: tick_start, record_sample and loop_start.              *)

Goto(from, to) == pc = from /\ pc' = to
Returns(to) == pc' = to /\ t' = 0 /\ x' = 0
\* An access to what a reset has taken away raises TypeError or KeyError.
Raises == Returns("raised")
OnlyStep == UNCHANGED <<now, class, period, enabled, stamps, intervals, durations, stageTimes, calls, history>>

Start ==
    /\ pc = "idle" /\ Len(samples) < MaxSamples /\ total < MaxSamples
    /\ pc' = IF enabled THEN "check" ELSE "working"
    /\ t' = IF enabled THEN now ELSE 0
    /\ disturbed' = FALSE
    /\ UNCHANGED <<now, class, period, enabled, stamps, intervals, durations, stageTimes, x, calls, samples, origin>>
Check ==
    /\ pc = "check" /\ pc' = IF last = None THEN "mark" ELSE "subtract"
    /\ UNCHANGED <<t, x>> /\ OnlyStep
Subtract ==
    /\ pc = "subtract"
    /\ IF last = None THEN Raises
       ELSE /\ x' = t - last /\ pc' = IF t > last THEN "add" ELSE "mark"
            /\ UNCHANGED t
    /\ OnlyStep
AddInterval ==
    /\ Goto("add", "mark") /\ Record(x)
    /\ origin' = IF samples = <<>> THEN t - x ELSE origin
    /\ UNCHANGED <<now, class, period, enabled, stamps, durations, stageTimes, t, x, calls, disturbed>>
Mark ==
    /\ pc = "mark" /\ last' = t
    /\ IF class = "interval" THEN Returns("working") ELSE pc' = "current" /\ UNCHANGED <<t, x>>
    /\ origin' = IF samples = <<>> THEN t ELSE origin
    /\ UNCHANGED <<now, class, period, enabled, current, stage, intervals, durations, stageTimes, calls, samples, disturbed>>
MarkCurrent ==
    /\ pc = "current" /\ current' = t /\ Returns("working")
    /\ UNCHANGED <<now, class, period, enabled, last, stage, intervals, durations, stageTimes, calls, history>>

-----------------------------------------------------------------------------
(* The loop thread: stage_start and stage_end.                             *)

StageStart ==
    /\ pc = "working" /\ class = "control" /\ enabled /\ Len(stageTimes) < Buffer
    /\ stage' = now /\ disturbed' = FALSE
    /\ UNCHANGED <<now, class, period, enabled, last, current, intervals, durations, stageTimes, thread, calls, samples, origin>>
StageEnd ==
    /\ Goto("working", "stage") /\ class = "control" /\ enabled /\ stage # None
    /\ x' = now - stage /\ disturbed' = FALSE
    /\ UNCHANGED <<now, class, period, enabled, stamps, intervals, durations, stageTimes, t, calls, samples, origin>>
AddStage ==
    /\ Goto("stage", "delete") /\ stageTimes' = Push(stageTimes, x)
    /\ UNCHANGED <<now, class, period, enabled, stamps, intervals, durations, t, x, calls, history>>
DeleteStage ==
    /\ pc = "delete" /\ stage' = None
    /\ IF stage = None THEN Raises ELSE Returns("working")
    /\ UNCHANGED <<now, class, period, enabled, last, current, intervals, durations, stageTimes, calls, history>>

-----------------------------------------------------------------------------
(* The loop thread: tick_end and loop_end.  An IntervalTracker has neither.*)

End ==
    /\ pc = "working"
    /\ pc' = IF class # "interval" /\ enabled /\ current # None THEN "elapsed" ELSE "idle"
    /\ t' = IF pc' = "elapsed" THEN now ELSE 0
    /\ disturbed' = FALSE
    /\ UNCHANGED <<now, class, period, enabled, stamps, intervals, durations, stageTimes, x, calls, samples, origin>>
\* The controller refuses the command of this tick and returns before its tick_end.
EndsEarly ==
    /\ Goto("working", "idle") /\ class = "loop"
    /\ UNCHANGED <<t, x>> /\ OnlyStep
Elapsed ==
    /\ pc = "elapsed"
    /\ IF current = None THEN Raises ELSE x' = t - current /\ pc' = "record" /\ UNCHANGED t
    /\ OnlyStep
RecordTick ==
    /\ Goto("record", "clear")
    /\ total' = total + 1 /\ violations' = violations + Over(x)
    /\ IF class = "control" THEN computeTimes' = Push(computeTimes, x) /\ UNCHANGED <<proc, head>>
       ELSE /\ proc' = Add(proc, x) /\ UNCHANGED computeTimes
            /\ head' = IF period > 0 THEN Add(head, period - x) ELSE head
    /\ UNCHANGED <<now, class, period, enabled, stamps, intervals, stageTimes, t, x, calls, history>>
Clear ==
    /\ pc = "clear" /\ current' = None /\ Returns("idle")
    /\ UNCHANGED <<now, class, period, enabled, last, stage, intervals, durations, stageTimes, calls, history>>

-----------------------------------------------------------------------------
(* The other thread.                                                       *)

\* Mutant of Reset: the intervals of the ring buffer are kept.
Reset_KeepsTimes ==
    /\ last' = None /\ current' = None /\ stage' = None
    /\ loop' = NoStat /\ proc' = NoStat /\ head' = NoHeadroom
    /\ computeTimes' = <<>> /\ stageTimes' = <<>> /\ UNCHANGED loopTimes
    /\ total' = 0 /\ violations' = 0 /\ missed' = 0
Reset ==
    /\ last' = None /\ current' = None /\ stage' = None
    /\ loop' = NoStat /\ proc' = NoStat /\ head' = NoHeadroom
    /\ loopTimes' = <<>> /\ computeTimes' = <<>> /\ stageTimes' = <<>>
    /\ total' = 0 /\ violations' = 0 /\ missed' = 0
CallReset ==
    /\ calls < MaxCalls /\ calls' = calls + 1 /\ Reset
    /\ samples' = <<>> /\ origin' = None /\ disturbed' = TRUE
    /\ UNCHANGED <<now, class, period, enabled, thread>>
SetEnabled ==
    /\ calls < MaxCalls /\ calls' = calls + 1 /\ enabled' = ~enabled
    /\ UNCHANGED <<now, class, period, stamps, intervals, durations, stageTimes, thread, history>>

Ticks == Start \/ Check \/ Subtract \/ AddInterval \/ Mark \/ MarkCurrent \/ End \/ EndsEarly \/ Elapsed \/ RecordTick \/ Clear
Stages == StageStart \/ StageEnd \/ AddStage \/ DeleteStage
Next == Tick \/ Ticks \/ Stages \/ CallReset \/ SetEnabled
Spec == Init /\ [][Next]_vars

-----------------------------------------------------------------------------
(* get_stats: what a caller is told, under the lock.                       *)

Summary(stat) ==
    [n |-> stat.n, mean |-> stat.mean, m2 |-> stat.m2,
     min |-> IF stat.n = 0 THEN 0 ELSE stat.min, max |-> IF stat.n = 0 THEN 0 ELSE stat.max]
LoopStats == [loop |-> Summary(loop), proc |-> Summary(proc), headroom |-> Summary(head), violations |-> violations]

Longer(times) == Len(SelectSeq(times, LAMBDA d : Over(d) = 1))
Sorted(times) == SortSeq(times, <)
\* The sample at that share of the sorted ones.
Percentile(times, percent) ==
    LET n == Len(times) IN Sorted(times)[1 + (IF (n * percent) \div 100 < n - 1 THEN (n * percent) \div 100 ELSE n - 1)]
\* Without an interval everything is reported as zero, what tick ends counted too.
ControlStats ==
    IF loopTimes = <<>>
    THEN [samples |-> 0, p95 |-> 0, p99 |-> 0, max |-> 0, missed |-> 0, missedRecent |-> 0, violations |-> 0, violationsRecent |-> 0]
    ELSE [samples |-> Len(loopTimes), p95 |-> Percentile(loopTimes, 95), p99 |-> Percentile(loopTimes, 99),
          max |-> Percentile(loopTimes, 100), missed |-> missed, missedRecent |-> Longer(loopTimes),
          violations |-> violations, violationsRecent |-> Longer(computeTimes)]

-----------------------------------------------------------------------------
(* Properties.                                                             *)

Total(s) == FoldSeq(+, 0, s)
Squares(s) == FoldSeq(LAMBDA d, sum : sum + d * d, 0, s)

\* The statistics are those of the intervals recorded after the last reset, the
\* first of which may have been measured before it; none is lost or counted twice
\* in whatever step of a tick the reset came.  Welford's mean and deviation are the
\* exact ones, the ring buffer has the newest, the recent counts are part of the
\* cumulative ones, and the intervals add up to the time between the first tick and
\* the last.  Headroom and violations are those of the ticks that were told a
\* period, and there are none without it (tick_start, tick_end, loop_start,
\* record_sample, reset).
StatsMatch ==
    /\ class = "control" =>
          /\ Len(loopTimes) = IF Len(samples) < Buffer THEN Len(samples) ELSE Buffer
          /\ loopTimes = SubSeq(samples, Len(samples) - Len(loopTimes) + 1, Len(samples))
          /\ missed = Longer(samples)
          /\ ControlStats.missedRecent <= ControlStats.missed /\ ControlStats.violationsRecent <= ControlStats.violations
          /\ ControlStats.p95 <= ControlStats.p99 /\ ControlStats.p99 <= ControlStats.max
    /\ class # "control" =>
          /\ loop.n = Len(samples) /\ loop.n * loop.mean = Scale * Total(samples)
          /\ loop.n * loop.m2 = Scale * Scale * (loop.n * Squares(samples) - Total(samples) * Total(samples))
          /\ \A i \in DOMAIN samples : samples[i] \in LoopStats.loop.min .. LoopStats.loop.max
          /\ period > 0 /\ total > 0 => LoopStats.headroom.min + LoopStats.proc.max = period
    /\ pc # "mark" /\ last # None => Total(samples) = last - origin
    /\ violations <= total /\ (period = 0 => violations = 0)
    /\ class = "loop" => proc.n = total /\ head.n = (IF period > 0 THEN total ELSE 0)

\* A call of the loop thread raises only when a reset came during that call, which
\* is less than what LoopPerfTracker says of itself: "Thread-safe with a single
\* lock" (perf_tracker.py:42).
RaisesOnlyOnReset == pc = "raised" => disturbed

\* The tracker neither miscounts nor disturbs the loop it measures.
TrackerIsSound == StatsMatch /\ RaisesOnlyOnReset
=============================================================================
