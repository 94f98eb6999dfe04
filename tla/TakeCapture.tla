---------------------------- MODULE TakeCapture ----------------------------
(***************************************************************************)
(* How the recorder turns two free-running cameras into recorded pairs:    *)
(* the capture part of the loop of native_stack/src/record_main.cpp, with  *)
(* the class Image it reads the frame stores through.  Each store is the   *)
(* atomic register FrameStore implements (FrameRegister), whose reader may *)
(* find it busy.  A read, another read and the decision are separate       *)
(* steps: both cameras publish in between.                                 *)
(*                                                                         *)
(* Time is a small counter; a frame has its sequence number, the exposure  *)
(* it shows (sensor_timestamp_us) and its arrival time.                    *)
(***************************************************************************)
EXTENDS Naturals

CONSTANTS
    Depths,  \* the cameras that also publish depth
    MaxSkew, MaxAge, \* --max-pair-skew-ms, --max-age-ms
    Spacing, \* .7 / fps
    MaxTime  \* bound: the last time a behaviour reaches

Cams == 1 .. 2

ASSUME DepthAssumption == Depths \subseteq Cams
ASSUME SpacingAssumption ==
    MaxSkew \in Nat /\ MaxAge \in Nat /\ Spacing \in Nat /\ MaxTime \in Nat

VARIABLES
    now,
    ir, depth,       \* the frame each store holds
    tick,            \* how far the recorder's tick has come
    seen, seenDepth, \* Image::m of each store
    fresh, capture,
    recorded, lastFrame, lastMaster, lastIr, lastDepth, \* recorded is the loop's frames
    pair     \* history: the pair recorded last in this take

stores == <<ir, depth>>
cache == <<seen, seenDepth>>
take == <<recorded, lastFrame, lastMaster, lastIr, lastDepth>>
captureVars == <<now, stores, tick, cache, fresh, capture, take, pair>>

NoFrame == [seq |-> 0, exp |-> 0, at |-> 0]
Frame == [seq : 0 .. MaxTime, exp : 0 .. MaxTime + 1, at : 0 .. MaxTime]
NoPair == [ir |-> [k \in Cams |-> NoFrame], depth |-> [k \in Cams |-> NoFrame], at |-> 0]

CaptureTypeOK ==
    /\ now \in 0 .. MaxTime /\ capture \in 0 .. MaxTime
    /\ ir \in [Cams -> Frame] /\ depth \in [Cams -> Frame]
    /\ seen \in [Cams -> Frame] /\ seenDepth \in [Cams -> Frame]
    /\ tick \in {"idle", "images", "depth", "decide", "wait", "failed"}
    /\ fresh \in BOOLEAN /\ recorded \in Nat
    /\ lastFrame \in 0 .. MaxTime /\ lastMaster \in 0 .. MaxTime
    /\ lastIr \in [Cams -> 0 .. MaxTime] /\ lastDepth \in [Cams -> 0 .. MaxTime]
    /\ pair \in [ir : [Cams -> Frame], depth : [Cams -> Frame], at : 0 .. MaxTime]

CaptureInit ==
    /\ now = 0 /\ capture = 0
    /\ ir = NoPair.ir /\ depth = NoPair.depth /\ seen = NoPair.ir /\ seenDepth = NoPair.depth
    /\ tick = "idle" /\ fresh = FALSE
    /\ recorded = 0 /\ lastFrame = 0 /\ lastMaster = 0
    /\ lastIr = [k \in Cams |-> 0] /\ lastDepth = [k \in Cams |-> 0]
    /\ pair = NoPair

-----------------------------------------------------------------------------
(* The cameras: IR and depth of one exposure arrive in either order, and   *)
(* the SDK may lose a depth frame.                                         *)

Advance == now < MaxTime /\ now' = now + 1 /\ UNCHANGED <<stores, tick, cache, fresh, capture, take, pair>>

Successor(f, skipped) == [seq |-> f.seq + 1, exp |-> f.exp + 1 + skipped, at |-> now]

IrArrives(k) ==
    /\ ir[k].at < now
    /\ k \in Depths => ir[k].exp <= depth[k].exp
    /\ ir' = [ir EXCEPT ![k] = Successor(@, 0)]
    /\ UNCHANGED <<now, depth, tick, cache, fresh, capture, take, pair>>

DepthArrives(k) ==
    /\ depth[k].at < now
    /\ \E skipped \in 0 .. 1 :
          /\ depth[k].exp + skipped <= ir[k].exp
          /\ depth' = [depth EXCEPT ![k] = Successor(@, skipped)]
    /\ UNCHANGED <<now, ir, tick, cache, fresh, capture, take, pair>>

-----------------------------------------------------------------------------
(* The recorder.                                                           *)

\* Image::read: the frame it has afterwards, and whether it succeeded.  A store
\* that another process has locked leaves the old frame.
Reads(store, old) ==
    {[ok |-> FALSE, frame |-> old]} \cup
        IF store.seq = 0 THEN {} ELSE {[ok |-> TRUE, frame |-> store]}

TickPasses(from, to) == tick = from /\ tick' = to

\* The frame a new take does not begin with.
Marked(read) == IF read.ok THEN read.frame.seq ELSE 0

\* A new take reads every store once.  No publication can be told from one before
\* or after all these reads, each of them is of another store.
StartTake ==
    /\ TickPasses("idle", "images")
    /\ recorded' = 0 /\ lastFrame' = now /\ pair' = NoPair
    /\ \E a \in Reads(ir[1], seen[1]), b \in Reads(ir[2], seen[2]) :
          /\ seen' = <<a.frame, b.frame>> /\ lastIr' = <<Marked(a), Marked(b)>>
    /\ \E read \in [Depths -> UNION {Reads(depth[k], seenDepth[k]) : k \in Depths}] :
          /\ \A k \in Depths : read[k] \in Reads(depth[k], seenDepth[k])
          /\ seenDepth' = [k \in Cams |-> IF k \in Depths THEN read[k].frame ELSE seenDepth[k]]
          /\ lastDepth' = [k \in Cams |-> IF k \in Depths THEN Marked(read[k]) ELSE 0]
    /\ UNCHANGED <<now, stores, fresh, capture, lastMaster>>

Distance(s, t) == IF s < t THEN t - s ELSE s - t

\* Mutant of Paired: a pair needs one new frame only.
Paired_OneNew(a, b, at) ==
    /\ at - a.at <= MaxAge /\ at - b.at <= MaxAge
    /\ a.seq # lastIr[1] \/ b.seq # lastIr[2]
    /\ Distance(a.at, b.at) <= MaxSkew
\* Both frames are recent, new and close to each other.
Paired(a, b, at) ==
    /\ at - a.at <= MaxAge /\ at - b.at <= MaxAge
    /\ a.seq # lastIr[1] /\ b.seq # lastIr[2]
    /\ Distance(a.at, b.at) <= MaxSkew

\* cam[0].read() && cam[1].read(): the second is not read when the first fails.
ReadImages ==
    /\ TickPasses("images", "depth")
    /\ capture' = now
    /\ \E a \in Reads(ir[1], seen[1]) : \E b \in Reads(ir[2], seen[2]) :
          /\ seen' = <<a.frame, IF a.ok THEN b.frame ELSE seen[2]>>
          /\ fresh' = (a.ok /\ b.ok /\ Paired(a.frame, b.frame, now))
    /\ UNCHANGED <<now, stores, seenDepth, take, pair>>

\* Mutant of SameExposure: depth is paired by its sequence number.
SameExposure_BySequence(d, f) == d.seq = f.seq
SameExposure(d, f) == d.exp = f.exp

\* The depth of a fresh pair has to be of the same exposure, now or on a later tick.
ReadDepth ==
    /\ TickPasses("depth", "decide")
    /\ IF fresh
       THEN \E read \in [Depths -> UNION {Reads(depth[k], seenDepth[k]) : k \in Depths}] :
               /\ \A k \in Depths : read[k] \in Reads(depth[k], seenDepth[k])
               /\ seenDepth' = [k \in Cams |-> IF k \in Depths THEN read[k].frame ELSE seenDepth[k]]
               /\ fresh' = \A k \in Depths : /\ read[k].ok /\ read[k].frame.seq # lastDepth[k]
                                             /\ SameExposure(read[k].frame, seen[k])
       ELSE UNCHANGED <<seenDepth, fresh>>
    /\ UNCHANGED <<now, stores, seen, capture, take, pair>>

\* A take does not begin with an old master frame; later ones keep their distance.
Due == IF recorded = 0 THEN capture - seen[1].at <= Spacing
       ELSE seen[1].at - lastMaster >= Spacing

Record ==
    /\ tick = "decide" /\ fresh /\ Due
    /\ tick' = "wait"
    /\ recorded' = recorded + 1 /\ lastFrame' = capture /\ lastMaster' = seen[1].at
    /\ lastIr' = [k \in Cams |-> seen[k].seq]
    /\ lastDepth' = [k \in Cams |-> IF k \in Depths THEN seenDepth[k].seq ELSE lastDepth[k]]
    /\ pair' = [ir |-> seen, depth |-> seenDepth, at |-> capture]
    /\ UNCHANGED <<now, stores, cache, fresh, capture>>

Stalled == capture - lastFrame > MaxAge

\* A row without images, unless the last pair is too long ago.
Skip ==
    /\ tick = "decide" /\ ~(fresh /\ Due)
    /\ tick' = IF Stalled THEN "failed" ELSE "wait"
    /\ UNCHANGED <<now, stores, cache, fresh, capture, take, pair>>

\* fresh and capture are the tick's own.
NextIteration(to) ==
    /\ TickPasses("wait", to) /\ fresh' = FALSE /\ capture' = 0
    /\ UNCHANGED <<now, stores, cache, take, pair>>
NextTick == NextIteration("images")
EndTake == NextIteration("idle")

Cameras == (\E k \in Cams : IrArrives(k)) \/ (\E k \in Depths : DepthArrives(k))
Recorder == StartTake \/ ReadImages \/ ReadDepth \/ Record \/ Skip \/ NextTick \/ EndTake

CaptureNext == Advance \/ Cameras \/ Recorder

CaptureSpec == CaptureInit /\ [][CaptureNext]_captureVars

-----------------------------------------------------------------------------
(* Properties.                                                             *)

\* Every pair of a take shows two exposures that no earlier pair of the take
\* showed, however the reads raced with the cameras (fresh, last_ir).
PairsAdvance ==
    [][Record => \A k \in Cams : pair'.ir[k].exp > pair.ir[k].exp]_captureVars

\* Recorded depth is of the exposure of the recorded image beside it.
DepthMatches == recorded > 0 => \A k \in Depths : pair.depth[k].exp = pair.ir[k].exp
=============================================================================
