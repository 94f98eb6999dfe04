------------------------------ MODULE PolicyLoop ------------------------------
(***************************************************************************)
(* What the live policy infers from and how its chunks follow each other:  *)
(* Observer (vla_observe.py), the frame history and the committed rows of  *)
(* a GR00T policy (vla_groot.py), and the loop of run_live that joins them *)
(* (vla_live.py).  The sources are read one after the other while cameras  *)
(* and IMU go on; a chunk continues the plan that ran when it was begun,   *)
(* for as many rows as its inference is expected to take.                  *)
(*                                                                         *)
(* The unit of time is one row of a plan, so that every position in a plan *)
(* is a row.  An encode is told by the capture times of its frames, a row  *)
(* by one command.  The prompts and the threads are in LiveRunner.         *)
(***************************************************************************)
EXTENDS Integers, Sequences, FiniteSetsExt, SequencesExt

CONSTANTS
    FrameAge, CameraSkew, ImuAge, StateSkew, \* limits of an observation
    Lag, Tolerance,                          \* of the past frame
    MaxDelay, Margin, Window,                \* committed rows: cap, dispatch margin, latencies kept
    Horizon, Commands,                       \* rows of a chunk; what a free row may be
    Bundles,                                 \* what the models need: a past frame, committed rows
    MaxTime, MaxRestarts, MaxSwitches        \* bounds: the clock for each bundle, of the cameras, of the mode

ASSUME ObservationAssumption == {FrameAge, CameraSkew, ImuAge, StateSkew} \subseteq Nat
ASSUME HistoryAssumption == Lag \in Nat /\ Tolerance \in Nat
ASSUME DelayAssumption == MaxDelay \in Nat /\ Margin \in Nat /\ Window \in Nat \ {0} /\ Horizon \in Nat \ {0}

ASSUME BundleAssumption == Bundles \subseteq SUBSET {"history", "rtc"}

VARIABLES
    bundle,               \* one of Bundles
    now, cams, started,   \* the clock; when the newest frame of each camera was taken, and the first of all
    at, warming,          \* the loop: its step, whether it only keeps the history warm
    metas, last_seq,      \* the frames read, Observer.last_seq
    entries,              \* History.entries
    lat, chunk,           \* RtcDelay.lat; what is being inferred
    mode, since, plan,    \* of the Supervisor
    sent,                 \* the plan that the controller executes
    armed, restarts, switches,
    encoded               \* history: every image time ever encoded

sources == <<bundle, now, cams, started, restarts>>
observer == <<warming, metas, last_seq>>
supervisor == <<mode, since, plan, sent, switches>>
vars == <<sources, at, observer, entries, lat, chunk, supervisor, armed, encoded>>

Cameras == {1, 2}
None == <<>>
Distance(a, b) == IF a < b THEN b - a ELSE a - b

\* A bundle with two frames a camera takes its past frame from the history.
UsesHistory == "history" \in bundle
UsesRtc == "rtc" \in bundle

Init ==
    /\ bundle \in Bundles
    /\ now = 0 /\ restarts = 0 /\ switches = 0
    /\ cams = [k \in Cameras |-> 0] /\ started = 0
    /\ at = "cam1" /\ warming = FALSE /\ metas = None /\ last_seq = None
    /\ entries = <<>> /\ lat = <<>> /\ chunk = None
    /\ mode \in {"model", "manual"} /\ since = 0 /\ plan = None /\ sent = None
    /\ armed = FALSE /\ encoded = {}

-----------------------------------------------------------------------------
(* The sources and the operator.                                           *)

\* The supervisor passes more than once a row: it has sent what it was offered, and
\* has given up a plan that is exhausted.
Exhausted(p) == now >= p.t0 + Horizon - 1
UpToDate == sent = plan /\ (plan # None => ~Exhausted(plan))
\* A camera takes a frame a row; any of them may be late or lost.
Tick ==
    /\ now < MaxTime[bundle] /\ now' = now + 1 /\ UpToDate
    /\ \E fresh \in SUBSET Cameras : cams' = [k \in Cameras |-> IF k \in fresh THEN now + 1 ELSE cams[k]]
    /\ UNCHANGED <<bundle, started, restarts, at, observer, entries, lat, chunk, supervisor, armed, encoded>>
\* Both cameras are streams of one process; its numbers start again.
Restart ==
    /\ restarts < MaxRestarts /\ restarts' = restarts + 1
    /\ cams' = [k \in Cameras |-> now] /\ started' = now
    /\ UNCHANGED <<bundle, now, at, observer, entries, lat, chunk, supervisor, armed, encoded>>

\* set_mode, by the pad or by a plan that cannot go on.
SetMode(m) == mode' = m /\ since' = now /\ plan' = None
Switch ==
    /\ armed /\ switches < MaxSwitches /\ switches' = switches + 1
    /\ SetMode(IF mode = "model" THEN "manual" ELSE "model")
    /\ UNCHANGED <<sources, at, observer, entries, lat, chunk, sent, armed, encoded>>
GiveUp ==
    /\ plan # None /\ Exhausted(plan) /\ SetMode("manual")
    /\ UNCHANGED <<sources, at, observer, entries, lat, chunk, sent, switches, armed, encoded>>
\* A pass sends the newest plan, or what holds the machine.
Dispatch ==
    /\ sent # plan /\ (plan # None => ~Exhausted(plan)) /\ sent' = plan
    /\ UNCHANGED <<sources, at, observer, entries, lat, chunk, mode, since, plan, switches, armed, encoded>>

-----------------------------------------------------------------------------
(* Observer.__call__.                                                      *)

Wanted == ~armed \/ mode = "model"
\* FrameReader.read gives fresh frames only; it is repeated until there is one.
Fresh(k) == now - cams[k] <= FrameAge
\* Before the first one the loop has looked at the mode: in manual mode a history is kept warm.
ReadCamera(k) ==
    /\ IF k = 1 THEN at = "cam1" /\ (Wanted \/ UsesHistory) /\ warming' = ~Wanted
       ELSE at = "cam2" /\ UNCHANGED warming
    /\ Fresh(k)
    /\ metas' = Append(metas, [seq |-> cams[k] - started, at |-> cams[k]]) /\ at' = IF k = 1 THEN "cam2" ELSE "status"
    /\ UNCHANGED <<sources, last_seq, entries, lat, chunk, supervisor, armed, encoded>>

Stale(k) == now - metas[k].at > FrameAge
Backwards(k) == last_seq # None /\ metas[k].seq < last_seq[k].seq
\* The first camera that fails is the one reported.
Restarted == \E k \in Cameras : Backwards(k) /\ \A j \in 1 .. k : ~Stale(j) /\ (j < k => ~Backwards(j))
Captured == {metas[k].at : k \in Cameras}
Coherent(imu) ==
    /\ \A k \in Cameras : ~Stale(k) /\ ~Backwards(k)
    /\ Max(Captured) - Min(Captured) <= CameraSkew
    /\ now - imu <= ImuAge
    /\ \A k \in Cameras : Distance(imu, metas[k].at) <= StateSkew
\* No fresh frame, or a snapshot that is refused: the IMU may be unhealthy at any time.
Incoherent ==
    /\ at \in {"cam1", "cam2", "status"}
    /\ at' = "cam1" /\ warming' = FALSE /\ metas' = None
    /\ last_seq' = IF at = "status" /\ Restarted THEN None ELSE last_seq
    /\ UNCHANGED <<sources, entries, lat, chunk, supervisor, armed, encoded>>
frame_ns == Min(Captured)

-----------------------------------------------------------------------------
(* History.                                                                *)

\* An entry is its frames; its time is the oldest of them.
ImageTime(frames) == Min({frames[k].at : k \in Cameras})
\* Mutant of Gone: an entry within the tolerance is thrown away.
Gone_Early(t, entry) == t - ImageTime(entry) > Lag
Gone(t, entry) == t - ImageTime(entry) > Lag + Tolerance
\* Entries are in the order of their times: what is gone is at the front.
Push(t, frames) ==
    IF entries # <<>> /\ t <= ImageTime(entries[Len(entries)]) THEN entries
    ELSE LET all == Append(entries, frames)
         IN  SubSeq(all, Min({i \in DOMAIN all : ~Gone(t, all[i])}), Len(all))
FromLag(t, image) == Distance(t - image, Lag)
\* The entry closest to the lag, the older of two.
Closest(t) == entries[Min({i \in DOMAIN entries : \A j \in DOMAIN entries :
    FromLag(t, ImageTime(entries[i])) <= FromLag(t, ImageTime(entries[j]))})]
Found(t) == UsesHistory /\ entries # <<>> /\ FromLag(t, ImageTime(Closest(t))) <= Tolerance

-----------------------------------------------------------------------------
(* RtcDelay and committed_rows.                                            *)

Add(latency) == IF Len(lat) < Window THEN Append(lat, latency) ELSE Append(Tail(lat), latency)
Expected == IF lat = <<>> THEN MaxDelay + 1 ELSE Max(ToSet(lat)) + Margin
want == IF ~UsesRtc THEN 0 ELSE IF Expected > MaxDelay THEN MaxDelay ELSE Expected

Clamped(i) == IF i < 0 THEN 0 ELSE IF i > Horizon - 1 THEN Horizon - 1 ELSE i
RowAt(p, t) == p.rows[1 + Clamped(t - p.t0)]
\* Mutant of committed_rows: the first rows of the running plan.
committed_rows_FromStart(t0) ==
    IF plan = None \/ t0 < plan.t0 THEN <<>>
    ELSE LET left == plan.t0 + Horizon - t0
         IN  [i \in 1 .. (IF left < 0 THEN 0 ELSE IF left < want THEN left ELSE want) |-> plan.rows[i]]
\* The rows of the running plan from t0 on, as many as are wanted and exist.
committed_rows(t0) ==
    IF plan = None \/ t0 < plan.t0 THEN <<>>
    ELSE LET left == plan.t0 + Horizon - t0
         IN  [i \in 1 .. (IF left < 0 THEN 0 ELSE IF left < want THEN left ELSE want) |-> RowAt(plan, t0 + i - 1)]

-----------------------------------------------------------------------------
(* The loop of run_live, and its warm-up before arming.                    *)

Accept(imu) ==
    /\ at = "status" /\ Coherent(imu)
    /\ last_seq' = metas /\ metas' = None /\ warming' = FALSE
    /\ IF UsesHistory THEN entries' = Push(frame_ns, metas) /\ encoded' = encoded \cup {frame_ns}
       ELSE UNCHANGED <<entries, encoded>>
Infer(imu) ==
    /\ Accept(imu) /\ ~warming /\ at' = "picked"
    /\ LET t0 == Min(Captured \cup {imu})
       IN  chunk' = [t0 |-> t0, begun |-> now, prefix |-> committed_rows(t0),
                     expected |-> Expected,
                     frames |-> metas, past |-> IF Found(frame_ns) THEN Closest(frame_ns) ELSE None]
    /\ UNCHANGED <<sources, lat, supervisor, armed>>
\* Manual mode: keep_warm.
KeepWarm(imu) ==
    /\ Accept(imu) /\ warming /\ at' = "cam1"
    /\ UNCHANGED <<sources, lat, chunk, supervisor, armed>>
\* Without a past frame the encode is stored and no plan comes of this observation.
HistoryFilling ==
    /\ at = "picked" /\ chunk.past = None /\ UsesHistory /\ at' = "cam1" /\ chunk' = None
    /\ UNCHANGED <<sources, observer, entries, lat, supervisor, armed, encoded>>
Condition ==
    /\ at = "picked" /\ (chunk.past # None \/ ~UsesHistory) /\ at' = "infer"
    /\ chunk' = [chunk EXCEPT !.frames = None, !.past = None]
    /\ UNCHANGED <<sources, observer, entries, lat, supervisor, armed, encoded>>

\* The model gives the committed rows back and is free in the others.
Rows(command) == [i \in 1 .. Horizon |-> IF i <= Len(chunk.prefix) THEN chunk.prefix[i] ELSE command]
\* Without committed rows nothing tells commands apart.
Free == IF UsesRtc THEN Commands ELSE {CHOOSE command \in Commands : TRUE}
Refused == mode # "model" \/ chunk.t0 <= since \/ (plan # None /\ chunk.t0 <= plan.t0)
\* An inference takes longer than a pass of the supervisor.  The one of the warm-up
\* makes no plan: after it the supervisor is made and armed.
Offer ==
    /\ at = "infer" /\ chunk.begun < now
    /\ at' = "cam1" /\ chunk' = None
    /\ lat' = Add(now - chunk.t0)
    /\ IF ~armed THEN armed' = TRUE /\ since' = now /\ UNCHANGED plan
       ELSE /\ UNCHANGED <<armed, since>>
            /\ IF Refused THEN UNCHANGED plan
               ELSE \E command \in Free :
                       plan' = [t0 |-> chunk.t0, rows |-> Rows(command), expected |-> chunk.expected]
    /\ UNCHANGED <<sources, observer, entries, mode, sent, switches, encoded>>

Next ==
    \/ Tick \/ Restart \/ Switch \/ GiveUp \/ Dispatch
    \/ \E k \in Cameras : ReadCamera(k)
    \/ \E imu \in now - ImuAge .. now : Infer(imu) \/ KeepWarm(imu)
    \/ Incoherent \/ HistoryFilling \/ Condition \/ Offer
Spec == Init /\ [][Next]_vars

-----------------------------------------------------------------------------
(* Properties.                                                             *)

\* Each camera's past frame is as old as the model was trained on, whatever is
\* encoded, in which mode, and however the history is thinned out: an inference has
\* the encode closest to the lag of all other images there ever were, and every camera
\* is off by no more than the tolerance and the skew; one that finds none had none near
\* the lag (History.push, History.pick, Policy.infer).
PastIsRight ==
    at = "picked" /\ UsesHistory =>
        LET t == ImageTime(chunk.frames)
            Others == encoded \ {t}
        IN  /\ chunk.past = None => \A image \in Others : FromLag(t, image) > Tolerance
            /\ chunk.past # None =>
                  /\ \A k \in Cameras :
                        Distance(chunk.frames[k].at - chunk.past[k].at, Lag) <= Tolerance + CameraSkew
                  /\ \A image \in Others : FromLag(t, ImageTime(chunk.past)) <= FromLag(t, image)

\* No jump at the handover: when a new plan is dispatched within the latency that its
\* committed rows were meant to cover, the machine goes on with the command that it
\* executes, whatever switches, refused chunks and running plans came in between
\* (RtcDelay, committed_rows, offer, _model_tick).
HandoverIsContinuous ==
    [][UsesRtc /\ sent # None /\ sent' # None /\ sent' # sent
       /\ sent'.expected <= MaxDelay /\ now - sent'.t0 < sent'.expected
          => RowAt(sent', now) = RowAt(sent, now)]_vars
=============================================================================
