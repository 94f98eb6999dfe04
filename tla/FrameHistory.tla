----------------------------- MODULE FrameHistory -----------------------------
(***************************************************************************)
(* The bounded history of raw frames of policy_runtime/history.py, in the  *)
(* loop of policy_probe.py that fills it and saves observations from it:   *)
(* one view after the other is read while the cameras go on publishing,    *)
(* and then a frame for every view and offset is selected at one time.     *)
(* The history forgets by age and by memory, and a frame is never to be    *)
(* another one because of it.                                              *)
(*                                                                         *)
(* A frame is told by its time and its sequence, which is counted in ticks *)
(* since its camera began.  All frames of a view are equally large; a      *)
(* change of their format raises like a restart does.                      *)
(* The history of the live policy is another one (PolicyLoop).             *)
(***************************************************************************)
EXTENDS Integers, Sequences, FiniteSetsExt, SequencesExt

CONSTANTS
    Views,          \* the number of cameras
    Offsets,        \* offsets_ms and 0, the longest first
    NearBy,         \* tolerance_ms
    Slack,          \* what is kept beyond the longest offset and the tolerance (500 ms)
    MaxAge, MaxSkew, \* max_age_ms, max_skew_ms
    Pixels,         \* pixel_bytes of a frame of each view
    Budgets,        \* values of max_bytes
    ClockLimit, MaxRenewals \* bounds: the clock; restarts of the cameras

ViewIds == 1 .. Views

ASSUME ViewAssumption ==
    /\ Views \in Nat \ {0} /\ Pixels \in [ViewIds -> Nat \ {0}] /\ Budgets \subseteq Nat \ {0}
ASSUME OffsetAssumption ==
    /\ Len(Offsets) > 0 /\ Offsets[Len(Offsets)] = 0
    /\ \A i \in DOMAIN Offsets : Offsets[i] \in 0 .. Offsets[1]
    /\ {NearBy, MaxAge, MaxSkew} \subseteq Nat \ {0} /\ Slack \in Nat

VARIABLES
    clock, renewals,
    shown, began,           \* the newest frame of each camera, sequence 0: none; its beginning
    max_bytes, queues,      \* FrameHistory
    evicted,                \* evictions # 0
    step, view, slots,      \* the loop: its step, the view it reads next, the selected frames
    last_sequences,         \* those of the last observation saved
    seen                    \* history: every frame ever pushed

cameras == <<clock, renewals, shown, began>>
store == <<max_bytes, queues, evicted, seen>>
results == <<slots, last_sequences>>
probe == <<cameras, store, step, view, results>>

ProbeInit ==
    /\ clock = 1 /\ renewals = 0
    /\ shown = [v \in ViewIds |-> [seq |-> 0, time |-> 0]] /\ began = [v \in ViewIds |-> 0]
    /\ max_bytes \in Budgets /\ queues = [v \in ViewIds |-> <<>>] /\ evicted = FALSE
    /\ step = "read" /\ view = 1 /\ slots = <<>> /\ last_sequences = <<>>
    /\ seen = [v \in ViewIds |-> {}]
-----------------------------------------------------------------------------
(* The cameras and time go on at any step. *)

ClockTicks ==
    /\ step # "ended" /\ clock < ClockLimit /\ clock' = clock + 1
    /\ UNCHANGED <<shown, began, renewals, store, step, view, results>>
Publishes(v) ==
    /\ step # "ended" /\ shown[v].time < clock
    /\ shown' = [shown EXCEPT ![v] = [seq |-> clock - began[v], time |-> clock]]
    /\ UNCHANGED <<clock, began, renewals, store, step, view, results>>
Renews(v) ==
    /\ step # "ended" /\ renewals < MaxRenewals /\ shown[v].seq > 0
    /\ shown' = [shown EXCEPT ![v].seq = 0] /\ began' = [began EXCEPT ![v] = shown[v].time]
    /\ renewals' = renewals + 1
    /\ UNCHANGED <<clock, store, step, view, results>>
-----------------------------------------------------------------------------
(* FrameHistory.push *)

\* Mutant: the other views are not allowed for.
Retention_OwnView == Offsets[1] + NearBy
Retention == Offsets[1] + NearBy + Slack
\* A queue without what is too old at this time; its newest frame stays.
Recent(q, time) ==
    SelectSeq(q, LAMBDA f : time - f.time <= Retention \/ f = Last(q))

\* The bytes from this frame on, of all views; of equally old ones the first view's goes first.
BytesFrom(qs, v, f) ==
    MapThenSumSet(LAMBDA w : Pixels[w] * Cardinality({i \in DOMAIN qs[w] :
                      qs[w][i].time > f.time \/ (qs[w][i].time = f.time /\ w >= v)}), ViewIds)
\* The newest frames that the budget has room for.
Fitting(qs) ==
    [v \in ViewIds |-> SelectSeq(qs[v], LAMBDA f : BytesFrom(qs, v, f) <= max_bytes)]

Repeated(v, f) == queues[v] # <<>> /\ f = Last(queues[v])
Refuses(v, f) ==
    \/ Pixels[v] > max_bytes
    \/ queues[v] # <<>> /\ (f.time <= Last(queues[v]).time \/ f.seq <= Last(queues[v]).seq)
PushFrame(v, f) ==
    LET all == [queues EXCEPT ![v] = Append(@, f)]
        recent == [w \in ViewIds |-> Recent(all[w], f.time)]
    IN /\ queues' = Fitting(recent)
       /\ evicted' = (evicted \/ Fitting(recent) # recent)
       /\ seen' = [seen EXCEPT ![v] = @ \cup {f}]
       /\ UNCHANGED max_bytes
-----------------------------------------------------------------------------
(* FrameHistory.select *)

\* The newest frame that is no newer than the target, if there is one.
Matches(q, offset) == {i \in DOMAIN q : q[i].time <= Last(q).time - offset}
Match(q, offset) == q[Max(Matches(q, offset))]
Matched(q, offset) ==
    /\ Matches(q, offset) # {}
    /\ Last(q).time - offset - Match(q, offset).time <= NearBy
Current == \A v \in ViewIds : queues[v] # <<>> /\ clock - Last(queues[v]).time <= MaxAge
Slot(offset) == [v \in ViewIds |-> Match(queues[v], offset)]
Spread(slot) == Max({slot[v].time : v \in ViewIds}) - Min({slot[v].time : v \in ViewIds})
Ready ==
    /\ Current
    /\ \A i \in DOMAIN Offsets :
          /\ \A v \in ViewIds : Matched(queues[v], Offsets[i])
          /\ Spread(Slot(Offsets[i])) <= MaxSkew
Selection == [i \in DOMAIN Offsets |-> Slot(Offsets[i])]
SequencesOf(selection) == [v \in ViewIds |-> selection[Len(Offsets)][v].seq]
-----------------------------------------------------------------------------
(* The loop of capture. *)

GoOn ==
    IF view = Views THEN view' = 1 /\ step' = "select" ELSE view' = view + 1 /\ UNCHANGED step
ReadView ==
    /\ step = "read"
    /\ LET f == shown[view]
       IN IF f.seq = 0 \/ clock - f.time > MaxAge \/ Repeated(view, f)
          THEN GoOn /\ UNCHANGED store
          ELSE IF Refuses(view, f)
          THEN step' = "ended" /\ UNCHANGED <<view, store>>
          ELSE PushFrame(view, f) /\ GoOn
    /\ UNCHANGED <<cameras, results>>

\* NotReady: the loop goes on.
NotReady == step' = "read" /\ slots' = <<>> /\ UNCHANGED <<view, last_sequences>>
\* The next sample is not due.
Early ==
    /\ step = "select" /\ step' = "read"
    /\ UNCHANGED <<view, cameras, store, results>>
SelectFrames ==
    /\ step = "select"
    /\ IF Ready /\ SequencesOf(Selection) # last_sequences
       THEN slots' = Selection /\ step' = "state" /\ UNCHANGED <<view, last_sequences>>
       ELSE NotReady
    /\ UNCHANGED <<cameras, store>>
\* The controller's state is read, and may be unfit or too old; the frames age meanwhile.
Aged == \E v \in ViewIds : clock - slots[Len(Offsets)][v].time > MaxAge
ReadState ==
    /\ step = "state"
    /\ \/ NotReady
       \/ /\ ~Aged
          /\ last_sequences' = SequencesOf(slots)
          /\ slots' = <<>> /\ step' = "read" /\ UNCHANGED view
    /\ UNCHANGED <<cameras, store>>
\* A signal, the end of the duration, no observation for too long, or an error in the state or
\* while saving.
CaptureEnds ==
    /\ step \in {"read", "state"} /\ (step = "read" => view = 1) /\ step' = "ended" /\ slots' = <<>>
    /\ UNCHANGED <<view, cameras, store, last_sequences>>

ProbeNext ==
    \/ ClockTicks \/ (\E v \in ViewIds : Publishes(v) \/ Renews(v))
    \/ ReadView \/ Early \/ SelectFrames \/ ReadState \/ CaptureEnds
ProbeSpec == ProbeInit /\ [][ProbeNext]_probe
-----------------------------------------------------------------------------
(* Properties. *)

\* The frame that a history without bounds would give: of all ever pushed, the newest that is
\* no newer than the target.
Newest(frames) == CHOOSE f \in frames : \A g \in frames : g.time <= f.time
UpTo(v, offset) ==
    {f \in seen[v] : f.time <= Newest(seen[v]).time - offset}
Known(v, offset) ==
    UpTo(v, offset) # {} /\ Newest(seen[v]).time - offset - Newest(UpTo(v, offset)).time <= NearBy

\* What is forgotten never makes another frame stand for the one that is asked for, and, as
\* long as the memory lasts, never makes one missing: a view that is late, though no later
\* than an observation may be, still has its past when a faster one has moved on
\* (FrameHistory.push, select).
HistoryIsTrue ==
    step = "select" /\ Current => \A v \in ViewIds, i \in DOMAIN Offsets :
        LET offset == Offsets[i]
        IN /\ Matched(queues[v], offset) =>
                 Known(v, offset) /\ Match(queues[v], offset) = Newest(UpTo(v, offset))
           /\ Known(v, offset) /\ ~evicted /\ MaxAge <= Slack => Matched(queues[v], offset)
=============================================================================
