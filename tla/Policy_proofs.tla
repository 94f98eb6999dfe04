---------------------------- MODULE Policy_proofs ----------------------------
(***************************************************************************)
(* Proofs about the policy runner's observations, plans and sessions.      *)
(*                                                                         *)
(* PolicyLoop, for any lags, horizons, caps, margins and windows: PastInv  *)
(* says which encodes the history still has, and HandInv that what may     *)
(* still become the plan goes on with the one that is executed.            *)
(*                                                                         *)
(* PolicySession, for any options and failures: SessionInv relates what    *)
(* the two threads do, what is on the connection and what is still open.   *)
(***************************************************************************)
EXTENDS PolicyLoop, PolicySession, WellFoundedInduction, TLAPS

\* A set of naturals has a least element, and Min is it.
LEMMA LeastNatural ==
    ASSUME NEW S \in SUBSET Nat, S # {}
    PROVE  \E x \in S : \A y \in S : x <= y
<1>1. PICK x \in S : \A y \in S : ~ (<<y, x>> \in OpToRel(<, Nat))
  BY NatLessThanWellFounded, WFMin
<1>2. \A y \in S : ~ (y < x)
  BY <1>1 DEF OpToRel
<1> QED
  BY <1>2

LEMMA MinIsLeast ==
    ASSUME NEW S, NEW x \in S, \A y \in S : x <= y
    PROVE  Min(S) \in S /\ \A y \in S : Min(S) <= y
BY DEF Min
LEMMA MaxIsGreatest ==
    ASSUME NEW S, NEW x \in S, \A y \in S : x >= y
    PROVE  Max(S) \in S /\ \A y \in S : Max(S) >= y
BY DEF Max

LEMMA PairBounds ==
    ASSUME NEW a \in Int, NEW b \in Int, a <= b, NEW S, S = {a, b}
    PROVE  Min(S) = a /\ Max(S) = b
<1>1. a \in S /\ \A y \in S : a <= y
  OBVIOUS
<1>2. b \in S /\ \A y \in S : b >= y
  OBVIOUS
<1>3. Min(S) \in S /\ \A y \in S : Min(S) <= y
  BY <1>1, MinIsLeast
<1>4. Max(S) \in S /\ \A y \in S : Max(S) >= y
  BY <1>2, MaxIsGreatest
<1> QED
  BY <1>1, <1>2, <1>3, <1>4

\* A bounded set of naturals has a greatest element.
LEMMA GreatestNatural ==
    ASSUME NEW S \in SUBSET Nat, S # {}, NEW b \in Nat, \A x \in S : x <= b
    PROVE  Max(S) \in Nat
<1> DEFINE T == {b - x : x \in S}
<1>1. T \in SUBSET Nat /\ T # {}
  <2>1. \A x \in S : b - x \in Nat
    OBVIOUS
  <2>2. PICK x \in S : TRUE
    OBVIOUS
  <2>3. b - x \in T
    OBVIOUS
  <2> QED
    BY <2>1, <2>3
<1>2. PICK t \in T : \A y \in T : t <= y
  BY <1>1, LeastNatural
<1>3. PICK x \in S : t = b - x
  OBVIOUS
<1>4. \A y \in S : x >= y
  <2> TAKE y \in S
  <2>1. b - x <= b - y
    BY <1>2, <1>3
  <2> QED
    BY <2>1
<1> QED
  BY <1>4, MaxIsGreatest

-----------------------------------------------------------------------------
(* PolicyLoop: frames and the history.                                     *)

FrameRecord == [seq : Int, at : Nat]
\* The frames of both cameras that an observation accepts.
Frames == {f \in Seq(FrameRecord) : Len(f) = 2 /\ Distance(f[1].at, f[2].at) <= CameraSkew}
Newest(history) == history[Len(history)]
\* The history is in the order of its image times.
Ordered(history) == \A i, j \in 1 .. Len(history) : i < j => ImageTime(history[i]) < ImageTime(history[j])
\* An image that the history does not have was too old for it.
Remembers(history, image) ==
    /\ history # <<>> /\ image <= ImageTime(Newest(history))
    /\ \/ \E i \in 1 .. Len(history) : ImageTime(history[i]) = image
       \/ ImageTime(Newest(history)) - image > Lag + Tolerance

LEMMA FrameTimes ==
    ASSUME NEW f \in Seq(FrameRecord), Len(f) = 2
    PROVE  /\ f[1].at \in Nat /\ f[2].at \in Nat
           /\ ImageTime(f) = IF f[1].at <= f[2].at THEN f[1].at ELSE f[2].at
           /\ ImageTime(f) \in Nat /\ ImageTime(f) <= f[1].at /\ ImageTime(f) <= f[2].at
<1>1. f[1] \in FrameRecord /\ f[2] \in FrameRecord
  OBVIOUS
<1>2. f[1].at \in Nat /\ f[2].at \in Nat
  BY <1>1 DEF FrameRecord
<1> DEFINE S == {f[k].at : k \in Cameras}
<1>3. S = {f[1].at, f[2].at} /\ S = {f[2].at, f[1].at}
  BY DEF Cameras
<1>4. ImageTime(f) = Min(S)
  BY DEF ImageTime
<1> HIDE DEF S
<1>5. CASE f[1].at <= f[2].at
  BY <1>2, <1>3, <1>4, <1>5, PairBounds
<1>6. CASE ~(f[1].at <= f[2].at)
  <2>1. ImageTime(f) = f[2].at
    BY <1>2, <1>3, <1>4, <1>6, PairBounds
  <2> QED
    BY <1>2, <1>6, <2>1
<1> QED
  BY <1>2, <1>5, <1>6

\* Frames that pass the checks of an observation.
LEMMA CoherentFrames ==
    ASSUME metas \in Seq(FrameRecord), Len(metas) = 2, NEW imu, Coherent(imu)
    PROVE  metas \in Frames /\ frame_ns = ImageTime(metas)
<1>1. frame_ns = ImageTime(metas)
  BY DEF frame_ns, ImageTime, Captured
<1>2. metas[1].at \in Nat /\ metas[2].at \in Nat /\ CameraSkew \in Nat
  BY FrameTimes, ObservationAssumption
<1>3. Captured = {metas[1].at, metas[2].at}
  BY DEF Captured, Cameras
<1>4. Distance(metas[1].at, metas[2].at) <= CameraSkew
  <2>1. CASE metas[1].at <= metas[2].at
    <3>1. Min(Captured) = metas[1].at /\ Max(Captured) = metas[2].at
      BY <1>2, <1>3, <2>1, PairBounds
    <3> QED
      BY <1>2, <2>1, <3>1 DEF Coherent, Distance
  <2>2. CASE metas[2].at <= metas[1].at
    <3>1. Min(Captured) = metas[2].at /\ Max(Captured) = metas[1].at
      <4>1. Captured = {metas[2].at, metas[1].at}
        BY <1>3
      <4> QED
        BY <1>2, <2>2, <4>1, PairBounds
    <3> QED
      BY <1>2, <2>2, <3>1 DEF Coherent, Distance
  <2> QED
    BY <1>2, <2>1, <2>2
<1> QED
  BY <1>1, <1>4 DEF Frames

LEMMA EntryTimes ==
    ASSUME entries \in Seq(Frames), NEW i \in 1 .. Len(entries)
    PROVE  /\ entries[i] \in Frames /\ ImageTime(entries[i]) \in Nat
           /\ entries[i] \in Seq(FrameRecord) /\ Len(entries[i]) = 2
<1>1. entries[i] \in Frames
  OBVIOUS
<1> QED
  BY <1>1, FrameTimes DEF Frames

LEMMA LagDistance ==
    ASSUME NEW t \in Nat, NEW image \in Nat
    PROVE  FromLag(t, image) \in Nat
BY HistoryAssumption DEF FromLag, Distance

\* pick: no entry is closer to the lag.
LEMMA ClosestIs ==
    ASSUME entries \in Seq(Frames), entries # <<>>, NEW t \in Nat
    PROVE  \E i \in 1 .. Len(entries) :
              /\ Closest(t) = entries[i]
              /\ \A j \in 1 .. Len(entries) : FromLag(t, ImageTime(entries[i])) <= FromLag(t, ImageTime(entries[j]))
<1> DEFINE D == [i \in 1 .. Len(entries) |-> FromLag(t, ImageTime(entries[i]))]
           S == {D[i] : i \in 1 .. Len(entries)}
           B == {i \in 1 .. Len(entries) : \A j \in 1 .. Len(entries) : D[i] <= D[j]}
<1>1. \A i \in 1 .. Len(entries) : D[i] \in Nat
  BY EntryTimes, LagDistance
<1>2. 1 \in 1 .. Len(entries)
  OBVIOUS
<1>3. PICK x \in S : \A y \in S : x <= y
  <2> HIDE DEF D
  <2>1. S \in SUBSET Nat /\ S # {}
    BY <1>1, <1>2
  <2> QED
    BY <2>1, LeastNatural
<1>4. B # {} /\ B \in SUBSET Nat
  <2>1. PICK i \in 1 .. Len(entries) : x = D[i]
    OBVIOUS
  <2>2. \A j \in 1 .. Len(entries) : D[i] <= D[j]
    BY <1>3, <2>1
  <2> QED
    BY <2>1, <2>2
<1>5. Min(B) \in B
  BY <1>4, LeastNatural, MinIsLeast
<1>6. Closest(t) = entries[Min(B)]
  <2>1. DOMAIN entries = 1 .. Len(entries)
    OBVIOUS
  <2>2. B = {i \in DOMAIN entries : \A j \in DOMAIN entries : FromLag(t, ImageTime(entries[i])) <= FromLag(t, ImageTime(entries[j]))}
    BY <2>1
  <2> HIDE DEF B
  <2> QED
    BY <2>2 DEF Closest
<1> QED
  BY <1>5, <1>6

\* push: the newest entry is of this time, the order stays, and what is dropped is too old.
LEMMA PushKeeps ==
    ASSUME entries \in Seq(Frames), Ordered(entries), NEW f \in Frames, NEW e, e = Push(ImageTime(f), f),
           entries # <<>> => ImageTime(Newest(entries)) <= ImageTime(f)
    PROVE  /\ e \in Seq(Frames) /\ e # <<>> /\ Ordered(e)
           /\ ImageTime(Newest(e)) = ImageTime(f)
           /\ Newest(e) = f \/ (entries # <<>> /\ Newest(e) = Newest(entries))
           /\ \A i \in 1 .. Len(entries) :
                 \/ \E j \in 1 .. Len(e) : e[j] = entries[i]
                 \/ ImageTime(f) - ImageTime(entries[i]) > Lag + Tolerance
<1> DEFINE t == ImageTime(f)
           n == Len(entries)
<1>1. t \in Nat /\ n \in Nat /\ \A i \in 1 .. n : ImageTime(entries[i]) \in Nat
  BY EntryTimes, FrameTimes DEF Frames
<1>2. CASE entries # <<>> /\ t <= ImageTime(Newest(entries))
  <2>1. e = entries
    BY <1>2 DEF Push, Newest
  <2>2. ImageTime(Newest(entries)) = t
    <3>1. n \in 1 .. n
      BY <1>2
    <3> QED
      BY <1>1, <1>2, <3>1 DEF Newest
  <2> QED
    BY <1>2, <2>1, <2>2
<1>3. CASE ~(entries # <<>> /\ t <= ImageTime(Newest(entries)))
  <2> DEFINE all == Append(entries, f)
             K == {i \in 1 .. n + 1 : ~Gone(t, all[i])}
             m == Min(K)
  <2>1. all \in Seq(Frames) /\ Len(all) = n + 1 /\ all[n + 1] = f /\ \A i \in 1 .. n : all[i] = entries[i]
    OBVIOUS
  <2>2. n + 1 \in K
    <3>1. ~Gone(t, f)
      BY <1>1, HistoryAssumption DEF Gone
    <3> QED
      BY <1>1, <2>1, <3>1
  <2>3. m \in K /\ \A y \in K : m <= y
    <3> HIDE DEF all
    <3>1. K \in SUBSET Nat /\ K # {}
      BY <1>1, <2>2
    <3> QED
      BY <3>1, LeastNatural, MinIsLeast
  <2>4. e = SubSeq(all, m, n + 1)
    <3>1. DOMAIN all = 1 .. n + 1
      BY <2>1
    <3>2. K = {i \in DOMAIN all : ~Gone(t, all[i])}
      BY <3>1
    <3> HIDE DEF K
    <3> QED
      BY <1>3, <2>1, <3>2 DEF Push, Newest
  <2> HIDE DEF all
  <2>5. m \in 1 .. n + 1 /\ \A i \in 1 .. n + 1 : i < m => Gone(t, all[i])
    <3>1. m \in 1 .. n + 1
      BY <2>3
    <3>2. ASSUME NEW i \in 1 .. n + 1, ~Gone(t, all[i]) PROVE ~(i < m)
      <4>1. i \in K
        BY <3>2
      <4> HIDE DEF m, K
      <4>2. m <= i
        BY <2>3, <4>1
      <4> QED
        BY <1>1, <3>1, <4>2
    <3> QED
      BY <3>1, <3>2
  <2> HIDE DEF m, K
  <2>6. /\ e \in Seq(Frames) /\ Len(e) = n + 2 - m /\ Len(e) \in 1 .. n + 1
        /\ \A j \in 1 .. Len(e) : e[j] = all[m + j - 1] /\ m + j - 1 \in 1 .. n + 1
    BY <1>1, <2>1, <2>4, <2>5
  <2>7. Newest(e) = f
    <3>1. m + Len(e) - 1 = n + 1 /\ Len(e) \in 1 .. Len(e)
      BY <1>1, <2>5, <2>6
    <3> QED
      BY <2>1, <2>6, <3>1 DEF Newest
  <2>8. \A i, j \in 1 .. n + 1 : i < j => ImageTime(all[i]) < ImageTime(all[j])
    <3> SUFFICES ASSUME NEW i \in 1 .. n + 1, NEW j \in 1 .. n + 1, i < j
                 PROVE  ImageTime(all[i]) < ImageTime(all[j])
      OBVIOUS
    <3>1. i \in 1 .. n /\ all[i] = entries[i] /\ entries # <<>>
      BY <1>1, <2>1
    <3>2. CASE j \in 1 .. n
      BY <2>1, <3>1, <3>2 DEF Ordered
    <3>3. CASE j = n + 1
      <4>1. n \in 1 .. n /\ ImageTime(entries[n]) < t
        BY <1>1, <1>3, <3>1 DEF Newest
      <4>2. ImageTime(entries[i]) <= ImageTime(entries[n])
        BY <1>1, <3>1, <4>1 DEF Ordered
      <4> QED
        BY <1>1, <2>1, <3>1, <3>3, <4>1, <4>2
    <3> QED
      BY <1>1, <3>2, <3>3, SMTT(20)
  <2>9. Ordered(e)
    <3> SUFFICES ASSUME NEW i \in 1 .. Len(e), NEW j \in 1 .. Len(e), i < j
                 PROVE  ImageTime(e[i]) < ImageTime(e[j])
      BY DEF Ordered
    <3>1. m + i - 1 < m + j - 1 /\ m + i - 1 \in 1 .. n + 1 /\ m + j - 1 \in 1 .. n + 1
      BY <1>1, <2>5, <2>6, SMTT(20)
    <3> QED
      BY <2>6, <2>8, <3>1
  <2>10. ASSUME NEW i \in 1 .. n, ~(t - ImageTime(entries[i]) > Lag + Tolerance)
         PROVE  \E j \in 1 .. Len(e) : e[j] = entries[i]
    <3>1. i \in 1 .. n + 1 /\ ~Gone(t, all[i]) /\ all[i] = entries[i]
      BY <1>1, <2>1, <2>10 DEF Gone
    <3>2. ~(i < m)
      BY <2>5, <3>1
    <3>3. i - m + 1 \in 1 .. Len(e) /\ m + (i - m + 1) - 1 = i
      BY <1>1, <2>5, <2>6, <3>1, <3>2
    <3> QED
      BY <2>6, <3>1, <3>3
  <2> QED
    BY <2>6, <2>7, <2>9, <2>10
<1> QED
  BY <1>2, <1>3

-----------------------------------------------------------------------------
(* PolicyLoop: what holds between the sources, the loop and the history.   *)

Steps == {"cam1", "cam2", "status", "picked", "infer"}
LoopTypes ==
    /\ now \in Nat /\ started \in Nat /\ bundle \in Bundles /\ cams \in [Cameras -> Nat]
    /\ at \in Steps /\ entries \in Seq(Frames) /\ encoded \subseteq Nat
    /\ armed \in BOOLEAN /\ mode \in {"model", "manual"} /\ since \in Nat
    /\ metas \in Seq(FrameRecord)
    /\ Len(metas) = IF at = "cam2" THEN 1 ELSE IF at = "status" THEN 2 ELSE 0
\* Nothing is from the future.
Clocks == started <= now /\ since <= now /\ \A k \in Cameras : cams[k] <= now
\* The history has every image that is not too old for it, and no frame is older
\* than the newest entry.
HistoryInv ==
    /\ Ordered(entries)
    /\ \A image \in encoded : Remembers(entries, image)
    /\ entries # <<>> => \A k \in Cameras :
          /\ Newest(entries)[k].at <= cams[k]
          /\ k <= Len(metas) => Newest(entries)[k].at <= metas[k].at
    /\ \A k \in Cameras : k <= Len(metas) => metas[k].at <= cams[k]
PastInv == LoopTypes /\ Clocks /\ HistoryInv /\ PastIsRight

LEMMA PastInit == Init => PastInv
<1> SUFFICES ASSUME Init PROVE PastInv
  OBVIOUS
<1>1. LoopTypes
  <2>1. metas = <<>> /\ entries = <<>> /\ at = "cam1"
    BY DEF Init, None
  <2>2. metas \in Seq(FrameRecord) /\ Len(metas) = 0 /\ entries \in Seq(Frames)
    BY <2>1
  <2>3. cams \in [Cameras -> Nat] /\ encoded \subseteq Nat /\ bundle \in Bundles /\ mode \in {"model", "manual"}
    BY DEF Init
  <2>4. now \in Nat /\ started \in Nat /\ since \in Nat /\ armed \in BOOLEAN
    BY DEF Init
  <2> QED
    BY <2>1, <2>2, <2>3, <2>4 DEF LoopTypes, Steps
<1>2. Clocks
  BY DEF Init, Clocks
<1>3. HistoryInv
  <2>1. metas = <<>> /\ entries = <<>> /\ encoded = {}
    BY DEF Init, None
  <2> QED
    BY <2>1 DEF HistoryInv, Ordered, Cameras
<1>4. PastIsRight
  BY DEF Init, PastIsRight
<1> QED
  BY <1>1, <1>2, <1>3, <1>4 DEF PastInv

\* A step that accepts no observation.
LEMMA HistoryStays ==
    ASSUME PastInv, LoopTypes', Clocks', UNCHANGED <<bundle, entries, encoded>>,
           \A k \in Cameras : cams[k] <= cams'[k], metas' \in {metas, None},
           at' = "picked" => at = "picked" /\ chunk' = chunk
    PROVE  PastInv'
<1>1. HistoryInv'
  <2>1. \A k \in Cameras : cams[k] \in Nat /\ cams'[k] \in Nat
    BY DEF PastInv, LoopTypes
  <2>2. ASSUME entries # <<>>, NEW k \in Cameras
        PROVE  Newest(entries)[k].at <= cams'[k] /\ (k <= Len(metas') => Newest(entries)[k].at <= metas'[k].at)
    <3>1. Newest(entries)[k].at \in Nat
      <4>1. Len(entries) \in 1 .. Len(entries)
        BY <2>2 DEF PastInv, LoopTypes
      <4>2. Newest(entries) \in Seq(FrameRecord) /\ Len(Newest(entries)) = 2
        BY <4>1, EntryTimes DEF PastInv, LoopTypes, Newest
      <4> QED
        BY <4>2, FrameTimes DEF Cameras
    <3>2. Newest(entries)[k].at <= cams[k] /\ (k <= Len(metas) => Newest(entries)[k].at <= metas[k].at)
      BY <2>2 DEF PastInv, HistoryInv
    <3>3. ~(k <= Len(None))
      BY DEF Cameras, None
    <3> QED
      BY <2>1, <3>1, <3>2, <3>3
  <2>3. ASSUME NEW k \in Cameras, k <= Len(metas')
        PROVE  metas'[k].at <= cams'[k]
    <3>1. metas' = metas /\ metas[k].at <= cams[k]
      BY <2>3 DEF PastInv, HistoryInv, Cameras, None
    <3>2. metas[k] \in FrameRecord
      BY <2>3, <3>1 DEF PastInv, LoopTypes, Cameras
    <3> QED
      BY <2>1, <3>1, <3>2 DEF FrameRecord
  <2> QED
    BY <2>2, <2>3 DEF PastInv, HistoryInv, Ordered, Remembers, Newest
<1>2. PastIsRight'
  BY DEF PastInv, PastIsRight, UsesHistory
<1> QED
  BY <1>1, <1>2 DEF PastInv

LEMMA TickPast ==
    ASSUME PastInv, Tick
    PROVE  PastInv'
<1>1. LoopTypes'
  BY DEF PastInv, LoopTypes, Tick, observer, supervisor
<1>2. Clocks' /\ \A k \in Cameras : cams[k] <= cams'[k]
  BY DEF PastInv, LoopTypes, Clocks, Tick, observer, supervisor
<1> QED
  BY <1>1, <1>2, HistoryStays DEF Tick, observer

LEMMA RestartPast ==
    ASSUME PastInv, Restart
    PROVE  PastInv'
<1>1. LoopTypes'
  BY DEF PastInv, LoopTypes, Restart, observer, supervisor
<1>2. Clocks' /\ \A k \in Cameras : cams[k] <= cams'[k]
  BY DEF PastInv, LoopTypes, Clocks, Restart, observer, supervisor
<1> QED
  BY <1>1, <1>2, HistoryStays DEF Restart, observer

LEMMA SupervisorPast ==
    ASSUME PastInv, Switch \/ GiveUp \/ Dispatch
    PROVE  PastInv'
<1>1. UNCHANGED <<sources, at, observer, entries, chunk, armed, encoded>>
  BY DEF Switch, GiveUp, Dispatch, supervisor
<1>2. mode' \in {"model", "manual"} /\ since' \in {since, now}
  BY DEF PastInv, LoopTypes, Switch, GiveUp, Dispatch, SetMode
<1>3. LoopTypes'
  BY <1>1, <1>2 DEF PastInv, LoopTypes, sources, observer
<1>4. Clocks' /\ \A k \in Cameras : cams[k] <= cams'[k]
  BY <1>1, <1>2 DEF PastInv, LoopTypes, Clocks, sources
<1> QED
  BY <1>1, <1>3, <1>4, HistoryStays DEF sources, observer

LEMMA ReadPast ==
    ASSUME PastInv, NEW k \in Cameras, ReadCamera(k)
    PROVE  PastInv'
<1> DEFINE r == [seq |-> cams[k] - started, at |-> cams[k]]
<1>1. r \in FrameRecord /\ cams[k] \in Nat
  BY DEF PastInv, LoopTypes, FrameRecord
<1>2. /\ metas' = Append(metas, r) /\ metas \in Seq(FrameRecord) /\ Len(metas) = k - 1
      /\ at' = (IF k = 1 THEN "cam2" ELSE "status")
  BY DEF PastInv, LoopTypes, ReadCamera, Cameras
<1>3. UNCHANGED <<sources, entries, encoded, armed, mode, since>>
  BY DEF ReadCamera, supervisor
<1> HIDE DEF r
<1>4. metas' \in Seq(FrameRecord) /\ Len(metas') = k /\ metas'[k] = r /\ \A j \in 1 .. k - 1 : metas'[j] = metas[j]
  BY <1>1, <1>2 DEF Cameras
<1>5. LoopTypes'
  BY <1>2, <1>3, <1>4 DEF PastInv, LoopTypes, sources, Cameras, Steps
<1>6. Clocks'
  BY <1>3 DEF PastInv, Clocks, sources
<1>7. HistoryInv'
  <2>1. ASSUME entries # <<>>, NEW j \in Cameras, j <= Len(metas')
        PROVE  Newest(entries)[j].at <= metas'[j].at
    <3>1. Newest(entries)[j].at <= cams[j] /\ (j <= Len(metas) => Newest(entries)[j].at <= metas[j].at)
      BY <2>1 DEF PastInv, HistoryInv
    <3>2. CASE j = k
      BY <1>4, <3>1, <3>2 DEF r
    <3>3. CASE j # k
      <4>1. j \in 1 .. k - 1 /\ j <= Len(metas)
        BY <1>2, <1>4, <2>1, <3>3 DEF Cameras
      <4> QED
        BY <1>4, <3>1, <4>1
    <3> QED
      BY <3>2, <3>3
  <2>2. ASSUME NEW j \in Cameras, j <= Len(metas')
        PROVE  metas'[j].at <= cams[j]
    <3>1. CASE j = k
      BY <1>1, <1>4, <3>1 DEF r
    <3>2. CASE j # k
      <4>1. j \in 1 .. k - 1 /\ j <= Len(metas)
        BY <1>2, <1>4, <2>2, <3>2 DEF Cameras
      <4> QED
        BY <1>4, <4>1 DEF PastInv, HistoryInv
    <3> QED
      BY <3>1, <3>2
  <2> QED
    BY <1>3, <2>1, <2>2 DEF PastInv, HistoryInv, Ordered, Remembers, Newest, sources
<1>8. PastIsRight'
  BY <1>2 DEF PastIsRight
<1> QED
  BY <1>5, <1>6, <1>7, <1>8 DEF PastInv

\* The loop without an observation.
LEMMA LoopPast ==
    ASSUME PastInv, Incoherent \/ HistoryFilling \/ Condition \/ Offer
    PROVE  PastInv'
<1>2. UNCHANGED <<sources, entries, encoded, mode>> /\ metas' \in {metas, None}
  BY DEF Incoherent, HistoryFilling, Condition, Offer, observer, supervisor
<1>3. at' \in {"cam1", "infer"}
  BY DEF Incoherent, HistoryFilling, Condition, Offer
<1>4. since' \in {since, now} /\ armed' \in BOOLEAN
  BY DEF PastInv, LoopTypes, Incoherent, HistoryFilling, Condition, Offer, supervisor
<1>5. metas' \in Seq(FrameRecord) /\ Len(metas') = 0
  <2>1. None \in Seq(FrameRecord) /\ Len(None) = 0
    BY DEF None
  <2>2. CASE Incoherent
    BY <2>1, <2>2 DEF Incoherent
  <2>3. CASE HistoryFilling \/ Condition \/ Offer
    BY <2>3 DEF PastInv, LoopTypes, HistoryFilling, Condition, Offer, observer
  <2> QED
    BY <2>2, <2>3
<1>6. LoopTypes'
  BY <1>2, <1>3, <1>4, <1>5 DEF PastInv, LoopTypes, sources, Steps
<1>7. Clocks' /\ \A k \in Cameras : cams[k] <= cams'[k]
  BY <1>2, <1>4 DEF PastInv, LoopTypes, Clocks, sources
<1> QED
  BY <1>2, <1>3, <1>6, <1>7, HistoryStays DEF sources

\* The newest entry is never newer than the frames of an observation.
LEMMA NewestIsOlder ==
    ASSUME PastInv, metas \in Frames, entries # <<>>
    PROVE  ImageTime(Newest(entries)) <= ImageTime(metas)
<1>1. Len(entries) \in 1 .. Len(entries)
  BY DEF PastInv, LoopTypes
<1>2. Newest(entries) \in Seq(FrameRecord) /\ Len(Newest(entries)) = 2
  BY <1>1, EntryTimes DEF PastInv, LoopTypes, Newest
<1>3. metas \in Seq(FrameRecord) /\ Len(metas) = 2
  BY DEF Frames
<1>4. Newest(entries)[1].at <= metas[1].at /\ Newest(entries)[2].at <= metas[2].at
  BY <1>3 DEF PastInv, HistoryInv, Cameras
<1> QED
  BY <1>2, <1>3, <1>4, FrameTimes

\* An observation that is accepted leaves the history as it should be.
LEMMA AcceptKeeps ==
    ASSUME PastInv, NEW imu, Accept(imu), UNCHANGED sources
    PROVE  /\ metas \in Frames /\ frame_ns = ImageTime(metas) /\ ImageTime(metas) \in Nat
           /\ entries' \in Seq(Frames) /\ encoded' \subseteq Nat /\ HistoryInv'
           /\ metas' \in Seq(FrameRecord) /\ Len(metas') = 0
<1> DEFINE t == ImageTime(metas)
<1>1. metas \in Seq(FrameRecord) /\ Len(metas) = 2
  BY DEF PastInv, LoopTypes, Accept
<1>2. metas \in Frames /\ frame_ns = t /\ t \in Nat
  BY <1>1, CoherentFrames, FrameTimes DEF Accept
<1>3. metas' = <<>>
  BY DEF Accept, None
<1>4. CASE ~UsesHistory
  <2>1. UNCHANGED <<entries, encoded>>
    BY <1>4 DEF Accept
  <2>2. \A k \in Cameras : ~(k <= Len(metas'))
    BY <1>3 DEF Cameras
  <2> QED
    BY <1>2, <1>3, <2>1, <2>2 DEF PastInv, LoopTypes, HistoryInv, Ordered, Remembers, Newest, sources
<1>5. CASE UsesHistory
  <2>1. entries' = Push(t, metas) /\ encoded' = encoded \cup {t}
    BY <1>2, <1>5 DEF Accept
  <2>2. /\ entries' \in Seq(Frames) /\ entries' # <<>> /\ Ordered(entries') /\ ImageTime(Newest(entries')) = t
        /\ Newest(entries') = metas \/ (entries # <<>> /\ Newest(entries') = Newest(entries))
        /\ \A i \in 1 .. Len(entries) :
              \/ \E j \in 1 .. Len(entries') : entries'[j] = entries[i]
              \/ t - ImageTime(entries[i]) > Lag + Tolerance
    <3>1. entries # <<>> => ImageTime(Newest(entries)) <= t
      BY <1>2, NewestIsOlder
    <3> QED
      BY <1>2, <2>1, <3>1, PushKeeps DEF PastInv, LoopTypes, HistoryInv
  <2>3. ASSUME NEW image \in encoded PROVE Remembers(entries', image)
    <3>1. /\ entries # <<>> /\ image <= ImageTime(Newest(entries))
          /\ \/ \E i \in 1 .. Len(entries) : ImageTime(entries[i]) = image
             \/ ImageTime(Newest(entries)) - image > Lag + Tolerance
      BY DEF PastInv, HistoryInv, Remembers
    <3>2. ImageTime(Newest(entries)) <= t /\ image \in Nat /\ ImageTime(Newest(entries)) \in Nat
      <4>1. Len(entries) \in 1 .. Len(entries)
        BY <3>1 DEF PastInv, LoopTypes
      <4> QED
        BY <1>2, <3>1, <4>1, NewestIsOlder, EntryTimes DEF PastInv, LoopTypes, Newest
    <3>3. (\E j \in 1 .. Len(entries') : ImageTime(entries'[j]) = image) \/ t - image > Lag + Tolerance
      <4>1. CASE \E i \in 1 .. Len(entries) : ImageTime(entries[i]) = image
        BY <2>2, <4>1
      <4>2. CASE ImageTime(Newest(entries)) - image > Lag + Tolerance
        BY <1>2, <3>2, <4>2, HistoryAssumption
      <4> QED
        BY <3>1, <4>1, <4>2
    <3> QED
      BY <1>2, <2>2, <3>1, <3>2, <3>3 DEF Remembers
  <2>4. Remembers(entries', t)
    <3>1. Len(entries') \in 1 .. Len(entries')
      BY <2>2
    <3> QED
      BY <1>2, <2>2, <3>1 DEF Remembers, Newest
  <2>5. \A k \in Cameras : Newest(entries')[k].at <= cams'[k]
    <3>1. \A k \in Cameras : metas[k].at <= cams[k]
      BY <1>1 DEF PastInv, HistoryInv, Cameras
    <3>2. cams' = cams
      BY DEF sources
    <3>3. entries # <<>> => \A k \in Cameras : Newest(entries)[k].at <= cams[k]
      BY DEF PastInv, HistoryInv
    <3> QED
      BY <2>2, <3>1, <3>2, <3>3
  <2>6. \A k \in Cameras : ~(k <= Len(metas'))
    BY <1>3 DEF Cameras
  <2>7. HistoryInv'
    BY <2>1, <2>2, <2>3, <2>4, <2>5, <2>6 DEF HistoryInv
  <2>8. encoded' \subseteq Nat
    BY <1>2, <2>1 DEF PastInv, LoopTypes
  <2>9. metas' \in Seq(FrameRecord) /\ Len(metas') = 0
    BY <1>3
  <2> QED
    BY <1>2, <2>2, <2>7, <2>8, <2>9
<1> QED
  BY <1>2, <1>3, <1>4, <1>5 DEF PastInv, LoopTypes

\* Frames of two observations whose times are about the lag apart.
LEMMA CameraAges ==
    ASSUME NEW f \in Frames, NEW g \in Frames, FromLag(ImageTime(f), ImageTime(g)) <= Tolerance, NEW k \in Cameras
    PROVE  Distance(f[k].at - g[k].at, Lag) <= Tolerance + CameraSkew
<1>1. /\ f[1].at \in Nat /\ f[2].at \in Nat /\ g[1].at \in Nat /\ g[2].at \in Nat
      /\ ImageTime(f) = (IF f[1].at <= f[2].at THEN f[1].at ELSE f[2].at)
      /\ ImageTime(g) = (IF g[1].at <= g[2].at THEN g[1].at ELSE g[2].at)
  BY FrameTimes DEF Frames
<1>2. CameraSkew \in Nat /\ Lag \in Nat /\ Tolerance \in Nat
  BY ObservationAssumption, HistoryAssumption
<1>3. /\ ImageTime(f) <= f[k].at /\ f[k].at <= ImageTime(f) + CameraSkew
      /\ ImageTime(g) <= g[k].at /\ g[k].at <= ImageTime(g) + CameraSkew
  <2>1. Distance(f[1].at, f[2].at) <= CameraSkew /\ Distance(g[1].at, g[2].at) <= CameraSkew
    BY DEF Frames
  <2>2. k = 1 \/ k = 2
    BY DEF Cameras
  <2>3. CASE k = 1
    BY <1>1, <1>2, <2>1, <2>3 DEF Distance
  <2>4. CASE k = 2
    BY <1>1, <1>2, <2>1, <2>4 DEF Distance
  <2> QED
    BY <2>2, <2>3, <2>4
<1>4. f[k].at \in Nat /\ g[k].at \in Nat /\ ImageTime(f) \in Nat /\ ImageTime(g) \in Nat
  BY <1>1 DEF Cameras
<1> QED
  BY <1>2, <1>3, <1>4 DEF FromLag, Distance

\* An inference picks the right past.
LEMMA InferPast ==
    ASSUME PastInv, NEW imu, Infer(imu)
    PROVE  PastInv'
<1> DEFINE t == ImageTime(metas)
<1>1. Accept(imu) /\ UNCHANGED <<sources, lat, supervisor, armed>> /\ at' = "picked"
  BY DEF Infer
<1>2. /\ metas \in Frames /\ frame_ns = t /\ t \in Nat
      /\ entries' \in Seq(Frames) /\ encoded' \subseteq Nat /\ HistoryInv'
      /\ metas' \in Seq(FrameRecord) /\ Len(metas') = 0
  BY <1>1, AcceptKeeps
<1>3. LoopTypes'
  BY <1>1, <1>2 DEF PastInv, LoopTypes, Steps, sources, supervisor
<1>4. Clocks'
  BY <1>1 DEF PastInv, Clocks, sources, supervisor
<1>5. chunk'.frames = metas /\ chunk'.past = IF Found(t) THEN Closest(t) ELSE None
  BY <1>2 DEF Infer
<1>6. UsesHistory' <=> UsesHistory
  BY <1>1 DEF UsesHistory, sources
<1>7. ASSUME UsesHistory PROVE PastIsRight'
  <2>1. encoded' = encoded \cup {t}
    BY <1>1, <1>2, <1>7 DEF Accept
  <2>2. ASSUME NEW image \in encoded
        PROVE  /\ image \in Nat /\ entries # <<>> /\ FromLag(t, image) \in Nat
               /\ \/ \E i \in 1 .. Len(entries) : ImageTime(entries[i]) = image
                  \/ FromLag(t, image) > Tolerance
    <3>1. image \in Nat /\ FromLag(t, image) \in Nat
      BY <1>2, LagDistance DEF PastInv, LoopTypes
    <3>2. /\ entries # <<>>
          /\ \/ \E i \in 1 .. Len(entries) : ImageTime(entries[i]) = image
             \/ ImageTime(Newest(entries)) - image > Lag + Tolerance
      BY DEF PastInv, HistoryInv, Remembers
    <3>3. ImageTime(Newest(entries)) <= t /\ ImageTime(Newest(entries)) \in Nat
      <4>1. Len(entries) \in 1 .. Len(entries)
        BY <3>2 DEF PastInv, LoopTypes
      <4> QED
        BY <1>2, <3>2, <4>1, NewestIsOlder, EntryTimes DEF PastInv, LoopTypes, Newest
    <3>4. ImageTime(Newest(entries)) - image > Lag + Tolerance => FromLag(t, image) > Tolerance
      BY <1>2, <3>1, <3>3, HistoryAssumption DEF FromLag, Distance
    <3> QED
      BY <3>1, <3>2, <3>4
  <2>3. CASE Found(t)
    <3>1. PICK i \in 1 .. Len(entries) :
              /\ Closest(t) = entries[i]
              /\ \A j \in 1 .. Len(entries) : FromLag(t, ImageTime(entries[i])) <= FromLag(t, ImageTime(entries[j]))
      BY <1>2, <2>3, ClosestIs DEF Found, PastInv, LoopTypes
    <3>2. FromLag(t, ImageTime(entries[i])) <= Tolerance /\ FromLag(t, ImageTime(entries[i])) \in Nat /\ entries[i] \in Frames
      BY <1>2, <2>3, <3>1, EntryTimes, LagDistance DEF Found, PastInv, LoopTypes
    <3>3. chunk'.past = entries[i] /\ entries[i] # None
      <4>1. Len(entries[i]) = 2
        BY EntryTimes DEF PastInv, LoopTypes
      <4> QED
        BY <1>5, <2>3, <3>1, <4>1 DEF None
    <3>4. \A k \in Cameras : Distance(metas[k].at - entries[i][k].at, Lag) <= Tolerance + CameraSkew
      BY <1>2, <3>2, CameraAges
    <3>5. \A image \in encoded : FromLag(t, ImageTime(entries[i])) <= FromLag(t, image)
      BY <2>2, <3>1, <3>2, HistoryAssumption
    <3> QED
      BY <1>5, <2>1, <3>3, <3>4, <3>5 DEF PastIsRight
  <2>4. CASE ~Found(t)
    <3>1. ASSUME NEW image \in encoded PROVE FromLag(t, image) > Tolerance
      <4>1. entries # <<>> /\ ~(FromLag(t, ImageTime(Closest(t))) <= Tolerance)
        BY <1>7, <2>2, <2>4, <3>1 DEF Found
      <4>2. PICK i \in 1 .. Len(entries) :
              /\ Closest(t) = entries[i]
              /\ \A j \in 1 .. Len(entries) : FromLag(t, ImageTime(entries[i])) <= FromLag(t, ImageTime(entries[j]))
        BY <1>2, <4>1, ClosestIs DEF PastInv, LoopTypes
      <4>3. FromLag(t, ImageTime(entries[i])) > Tolerance /\ FromLag(t, ImageTime(entries[i])) \in Nat
        <5>1. FromLag(t, ImageTime(entries[i])) \in Nat
          BY <1>2, EntryTimes, LagDistance DEF PastInv, LoopTypes
        <5>2. ~(FromLag(t, ImageTime(entries[i])) <= Tolerance)
          BY <4>1, <4>2
        <5> QED
          BY <5>1, <5>2, HistoryAssumption
      <4> QED
        BY <2>2, <4>2, <4>3, HistoryAssumption
    <3> QED
      BY <1>5, <2>1, <2>4, <3>1 DEF PastIsRight
  <2> QED
    BY <2>3, <2>4
<1>8. PastIsRight'
  BY <1>6, <1>7 DEF PastIsRight
<1> QED
  BY <1>2, <1>3, <1>4, <1>8 DEF PastInv

LEMMA KeepWarmPast ==
    ASSUME PastInv, NEW imu, KeepWarm(imu)
    PROVE  PastInv'
<1>1. Accept(imu) /\ UNCHANGED <<sources, lat, chunk, supervisor, armed>> /\ at' = "cam1"
  BY DEF KeepWarm
<1>2. /\ entries' \in Seq(Frames) /\ encoded' \subseteq Nat /\ HistoryInv'
      /\ metas' \in Seq(FrameRecord) /\ Len(metas') = 0
  BY <1>1, AcceptKeeps
<1>3. LoopTypes'
  BY <1>1, <1>2 DEF PastInv, LoopTypes, Steps, sources, supervisor
<1>4. Clocks' /\ PastIsRight'
  BY <1>1 DEF PastInv, Clocks, PastIsRight, sources, supervisor
<1> QED
  BY <1>2, <1>3, <1>4 DEF PastInv

LEMMA PastStep == PastInv /\ [Next]_vars => PastInv'
<1> SUFFICES ASSUME PastInv, [Next]_vars PROVE PastInv'
  OBVIOUS
<1>1. CASE UNCHANGED vars
  <2>1. LoopTypes' /\ Clocks' /\ \A k \in Cameras : cams[k] <= cams'[k]
    BY <1>1 DEF PastInv, LoopTypes, Clocks, vars, sources, observer, supervisor
  <2> QED
    BY <1>1, <2>1, HistoryStays DEF vars, sources, observer
<1>2. CASE Next
  BY <1>2, TickPast, RestartPast, SupervisorPast, ReadPast, LoopPast, InferPast, KeepWarmPast DEF Next
<1> QED
  BY <1>1, <1>2

\* Each past frame is as old as the model was trained on, for any lag, tolerance and skew.
THEOREM PastStaysRight == Spec => []PastIsRight
<1>1. PastInv => PastIsRight
  BY DEF PastInv
<1> QED
  BY <1>1, PastInit, PastStep, PTL DEF Spec

-----------------------------------------------------------------------------
(* PolicyLoop: chunks and plans.                                           *)

Inferring == at \in {"picked", "infer"}
Wants(expected) == IF ~UsesRtc THEN 0 ELSE IF expected > MaxDelay THEN MaxDelay ELSE expected
\* The first rows from t0 on of plan p, wanted ones at most.
PrefixOf(p, t0, wanted) ==
    IF p = None \/ t0 < p.t0 THEN <<>>
    ELSE LET left == p.t0 + Horizon - t0
         IN  [i \in 1 .. (IF left < 0 THEN 0 ELSE IF left < wanted THEN left ELSE wanted) |-> RowAt(p, t0 + i - 1)]
\* What the machine does goes on with plan p, within the latency that p allows for.
GoesOn(s, p, time) ==
    p.expected <= MaxDelay /\ time - p.t0 < p.expected => RowAt(p, time) = RowAt(s, time)

PlanOrNone(p) == p = None \/ (p.t0 \in Int /\ p.expected \in Int)
LatencyTypes == lat \in Seq(Nat) /\ \A i \in 1 .. Len(lat) : lat[i] <= now + ImuAge
ChunkTypes ==
    Inferring =>
        /\ DOMAIN chunk = {"t0", "begun", "prefix", "expected", "frames", "past"}
        /\ chunk.t0 \in Int /\ chunk.begun \in Nat /\ chunk.expected \in Int
        /\ -ImuAge <= chunk.t0 /\ chunk.t0 <= chunk.begun /\ chunk.begun <= now
PlanTypes == PlanOrNone(plan) /\ PlanOrNone(sent)
\* A chunk that may still be offered continues the plan that is executed when it is.
ChunkContinues ==
    Inferring /\ mode = "model" /\ since < chunk.t0 =>
        /\ chunk.prefix = PrefixOf(plan, chunk.t0, Wants(chunk.expected))
        /\ chunk.begun < now => sent = plan
PlanLasts == plan # None /\ sent = plan => now <= plan.t0 + Horizon - 1
\* A plan that waits to be dispatched continues the one that is executed.
PlanContinues == UsesRtc /\ sent # None /\ plan # None /\ sent # plan => GoesOn(sent, plan, now)
HandInv == LatencyTypes /\ ChunkTypes /\ PlanTypes /\ ChunkContinues /\ PlanLasts /\ PlanContinues

LEMMA HandInit == Init => HandInv
<1> SUFFICES ASSUME Init PROVE HandInv
  OBVIOUS
<1>1. lat = <<>> /\ at = "cam1" /\ plan = None /\ sent = None
  BY DEF Init
<1>2. LatencyTypes
  BY <1>1 DEF LatencyTypes
<1> QED
  BY <1>1, <1>2 DEF HandInv, ChunkTypes, PlanTypes, PlanOrNone, ChunkContinues, PlanLasts, PlanContinues, Inferring

\* A step in which neither time nor a plan moves.
LEMMA HandStays ==
    ASSUME HandInv, UNCHANGED <<bundle, now, lat, mode, since, plan, sent>>,
           Inferring' => Inferring /\ (chunk' = chunk \/ chunk' = [chunk EXCEPT !.frames = None, !.past = None])
    PROVE  HandInv'
<1>1. Inferring' =>
          /\ DOMAIN chunk' = DOMAIN chunk /\ chunk'.t0 = chunk.t0 /\ chunk'.begun = chunk.begun
          /\ chunk'.expected = chunk.expected /\ chunk'.prefix = chunk.prefix
  BY DEF HandInv, ChunkTypes
<1>2. LatencyTypes' /\ PlanTypes' /\ PlanLasts'
  BY DEF HandInv, LatencyTypes, PlanTypes, PlanOrNone, PlanLasts
<1>3. ChunkTypes'
  BY <1>1 DEF HandInv, ChunkTypes
<1>4. ChunkContinues'
  BY <1>1 DEF HandInv, ChunkContinues, PrefixOf, RowAt, Wants, UsesRtc
<1>5. PlanContinues'
  BY DEF HandInv, PlanContinues, GoesOn, RowAt, UsesRtc
<1> QED
  BY <1>2, <1>3, <1>4, <1>5 DEF HandInv

LEMMA TickHand ==
    ASSUME PastInv, HandInv, Tick
    PROVE  HandInv'
<1>1. /\ now' = now + 1 /\ now \in Nat /\ sent = plan /\ (plan # None => ~Exhausted(plan))
      /\ UNCHANGED <<bundle, at, lat, chunk, mode, since, plan, sent>>
  BY DEF Tick, UpToDate, PastInv, LoopTypes, supervisor
<1>2. LatencyTypes'
  <2>1. \A i \in 1 .. Len(lat) : lat[i] \in Nat
    BY DEF HandInv, LatencyTypes
  <2> QED
    BY <1>1, <2>1, ObservationAssumption DEF HandInv, LatencyTypes
<1>3. ChunkTypes'
  BY <1>1 DEF HandInv, ChunkTypes, Inferring
<1>4. ChunkContinues'
  BY <1>1 DEF HandInv, ChunkContinues, PrefixOf, RowAt, Wants, UsesRtc, Inferring
<1>5. PlanLasts'
  BY <1>1, DelayAssumption DEF HandInv, PlanLasts, PlanTypes, PlanOrNone, Exhausted
<1> QED
  BY <1>1, <1>2, <1>3, <1>4, <1>5 DEF HandInv, PlanTypes, PlanOrNone, PlanContinues

LEMMA ModeHand ==
    ASSUME PastInv, HandInv, Switch \/ GiveUp
    PROVE  HandInv'
<1>1. UNCHANGED <<bundle, now, at, lat, chunk, sent>> /\ since' = now /\ plan' = None
  BY DEF Switch, GiveUp, SetMode, sources
<1>2. LatencyTypes' /\ ChunkTypes'
  BY <1>1 DEF HandInv, LatencyTypes, ChunkTypes, Inferring
<1>3. ChunkContinues'
  BY <1>1 DEF HandInv, PastInv, LoopTypes, ChunkTypes, ChunkContinues, Inferring
<1> QED
  BY <1>1, <1>2, <1>3 DEF HandInv, PlanTypes, PlanOrNone, PlanLasts, PlanContinues

LEMMA DispatchHand ==
    ASSUME PastInv, HandInv, Dispatch
    PROVE  HandInv'
<1>1. UNCHANGED <<bundle, now, at, lat, chunk, mode, since, plan>> /\ sent' = plan /\ (plan # None => ~Exhausted(plan))
  BY DEF Dispatch, sources
<1>2. LatencyTypes' /\ ChunkTypes' /\ PlanTypes'
  BY <1>1 DEF HandInv, LatencyTypes, ChunkTypes, PlanTypes, PlanOrNone, Inferring
<1>3. ChunkContinues'
  BY <1>1 DEF HandInv, ChunkContinues, PrefixOf, RowAt, Wants, UsesRtc, Inferring
<1>4. PlanLasts'
  BY <1>1, DelayAssumption DEF HandInv, PlanLasts, PlanTypes, PlanOrNone, Exhausted, PastInv, LoopTypes
<1> QED
  BY <1>1, <1>2, <1>3, <1>4 DEF HandInv, PlanContinues

\* What an inference is expected to take is a number.
LEMMA ExpectedIsInt ==
    ASSUME PastInv, LatencyTypes
    PROVE  Expected \in Int
<1>1. CASE lat = <<>>
  BY <1>1, DelayAssumption DEF Expected
<1>2. CASE lat # <<>>
  <2>1. ToSet(lat) = {lat[i] : i \in 1 .. Len(lat)}
    BY DEF ToSet, LatencyTypes
  <2>2. ToSet(lat) \in SUBSET Nat /\ ToSet(lat) # {} /\ \A x \in ToSet(lat) : x <= now + ImuAge
    <3>1. 1 \in 1 .. Len(lat)
      BY <1>2 DEF LatencyTypes
    <3> QED
      BY <2>1, <3>1 DEF LatencyTypes
  <2>3. now + ImuAge \in Nat
    BY ObservationAssumption DEF PastInv, LoopTypes
  <2>4. Max(ToSet(lat)) \in Nat
    BY <2>2, <2>3, GreatestNatural
  <2> QED
    BY <1>2, <2>4, DelayAssumption DEF Expected
<1> QED
  BY <1>1, <1>2

LEMMA InferHand ==
    ASSUME PastInv, HandInv, NEW imu \in now - ImuAge .. now, Infer(imu)
    PROVE  HandInv'
<1> DEFINE t0 == Min(Captured \cup {imu})
<1>1. /\ Accept(imu) /\ UNCHANGED <<bundle, now, lat, mode, since, plan, sent>> /\ at' = "picked"
      /\ chunk' = [t0 |-> t0, begun |-> now, prefix |-> committed_rows(t0), expected |-> Expected,
                   frames |-> metas, past |-> IF Found(frame_ns) THEN Closest(frame_ns) ELSE None]
  BY DEF Infer, sources, supervisor
<1>2. now \in Nat /\ ImuAge \in Nat
  BY ObservationAssumption DEF PastInv, LoopTypes
<1>3. t0 \in Int /\ -ImuAge <= t0 /\ t0 <= now
  <2>1. metas \in Seq(FrameRecord) /\ Len(metas) = 2 /\ frame_ns = ImageTime(metas)
    BY <1>1, CoherentFrames DEF Accept, PastInv, LoopTypes
  <2>2. /\ Captured = {metas[1].at, metas[2].at} /\ metas[1].at \in Nat /\ metas[2].at \in Nat
        /\ frame_ns \in Captured /\ frame_ns <= metas[1].at /\ frame_ns <= metas[2].at
    <3>1. Captured = {metas[1].at, metas[2].at}
      BY DEF Captured, Cameras
    <3> QED
      BY <2>1, <3>1, FrameTimes
  <2>3. imu \in Int /\ imu <= now /\ -ImuAge <= imu
    BY <1>2
  <2>4. t0 \in Captured \cup {imu} /\ \A y \in Captured \cup {imu} : t0 <= y
    <3>1. CASE imu <= frame_ns
      <4>1. \A y \in Captured \cup {imu} : imu <= y
        BY <2>2, <2>3, <3>1
      <4> QED
        BY <4>1, MinIsLeast
    <3>2. CASE ~(imu <= frame_ns)
      <4>1. \A y \in Captured \cup {imu} : frame_ns <= y
        BY <2>2, <2>3, <3>2
      <4> QED
        BY <2>2, <4>1, MinIsLeast
    <3> QED
      BY <3>1, <3>2
  <2> HIDE DEF t0
  <2>5. t0 <= imu /\ t0 \in Int
    BY <2>2, <2>3, <2>4
  <2>6. -ImuAge <= t0
    BY <1>2, <2>2, <2>3, <2>4
  <2> QED
    BY <1>2, <2>3, <2>5, <2>6
<1>4. Expected \in Int
  BY ExpectedIsInt DEF HandInv
<1> HIDE DEF t0
<1>5. LatencyTypes' /\ PlanTypes' /\ PlanLasts'
  BY <1>1 DEF HandInv, LatencyTypes, PlanTypes, PlanOrNone, PlanLasts
<1>6. ChunkTypes'
  BY <1>1, <1>2, <1>3, <1>4 DEF ChunkTypes
<1>7. ChunkContinues'
  <2>1. committed_rows(t0) = PrefixOf(plan, t0, Wants(Expected))
    BY DEF committed_rows, PrefixOf, want, Wants
  <2>2. chunk'.t0 = t0 /\ chunk'.begun = now /\ chunk'.prefix = committed_rows(t0) /\ chunk'.expected = Expected
    BY <1>1
  <2>3. Wants(chunk.expected)' = Wants(Expected)
    BY <1>1, <2>2 DEF Wants, UsesRtc
  <2>4. PrefixOf(plan, chunk.t0, Wants(chunk.expected))' = PrefixOf(plan, t0, Wants(Expected))
    BY <1>1, <2>2, <2>3 DEF PrefixOf
  <2> QED
    BY <1>1, <1>2, <2>1, <2>2, <2>4 DEF ChunkContinues
<1>8. PlanContinues'
  BY <1>1 DEF HandInv, PlanContinues, GoesOn, RowAt, UsesRtc
<1> QED
  BY <1>5, <1>6, <1>7, <1>8 DEF HandInv

LEMMA LenOfFunction == \A n \in Nat : \A f : f = [i \in 1 .. n |-> f[i]] => Len(f) = n
  OBVIOUS

Filled(prefix, command) == [i \in 1 .. Horizon |-> IF i <= Len(prefix) THEN prefix[i] ELSE command]
\* A plan whose first rows are those of the plan before goes on with it.
LEMMA PrefixGoesOn ==
    ASSUME NEW s, NEW p, NEW time \in Int, NEW t0 \in Int, NEW expected \in Int, NEW prefix, NEW command,
           UsesRtc, s # None, s.t0 \in Int, s.t0 < t0, t0 <= time, time <= s.t0 + Horizon - 1,
           prefix = PrefixOf(s, t0, Wants(expected)),
           p.t0 = t0, p.expected = expected, p.rows = Filled(prefix, command)
    PROVE  GoesOn(s, p, time)
<1> SUFFICES ASSUME expected <= MaxDelay, time - t0 < expected
             PROVE  RowAt(p, time) = RowAt(s, time)
  BY DEF GoesOn
<1> DEFINE left == s.t0 + Horizon - t0
           n == IF left < expected THEN left ELSE expected
           d == time - t0
<1>1. Horizon \in Nat \ {0} /\ MaxDelay \in Nat
  BY DelayAssumption
<1>2. Wants(expected) = expected
  BY <1>1 DEF Wants
<1>3. ~(t0 < s.t0) /\ left >= 0 /\ left \in Nat /\ n \in Nat /\ d \in Nat /\ d + 1 \in 1 .. n /\ d + 1 \in 1 .. Horizon
  BY <1>1
<1>4. prefix = [i \in 1 .. n |-> RowAt(s, t0 + i - 1)]
  BY <1>2, <1>3 DEF PrefixOf
<1>5. Clamped(d) = d
  BY <1>1, <1>3 DEF Clamped
<1> HIDE DEF left, n
<1>6. prefix[d + 1] = RowAt(s, time)
  <2>1. t0 + (d + 1) - 1 = time
    OBVIOUS
  <2> HIDE DEF d
  <2> QED
    BY <1>3, <1>4, <2>1
<1>7. Len(prefix) = n
  <2>1. prefix = [i \in 1 .. n |-> prefix[i]]
    BY <1>4
  <2> HIDE DEF d
  <2> QED
    BY <1>3, <2>1, LenOfFunction
<1>8. RowAt(p, time) = p.rows[1 + d]
  BY <1>5 DEF RowAt
<1>9. p.rows[1 + d] = prefix[d + 1]
  <2>1. 1 + d = d + 1 /\ d + 1 <= n
    BY <1>3
  <2> HIDE DEF d
  <2> QED
    BY <1>3, <1>7, <2>1 DEF Filled
<1> QED
  BY <1>6, <1>8, <1>9

LEMMA AddLatency ==
    ASSUME PastInv, LatencyTypes, NEW x \in Nat, x <= now + ImuAge, lat' = Add(x), now' = now
    PROVE  LatencyTypes'
<1>1. lat \in Seq(Nat) /\ Len(lat) \in Nat
  BY DEF LatencyTypes
<1>2. CASE Len(lat) < Window
  <2>1. lat' = Append(lat, x)
    BY <1>2 DEF Add
  <2> QED
    BY <1>1, <2>1 DEF LatencyTypes
<1>3. CASE ~(Len(lat) < Window)
  <2>1. lat' = Append(Tail(lat), x) /\ lat # <<>>
    BY <1>3, DelayAssumption DEF Add
  <2>2. Tail(lat) \in Seq(Nat) /\ \A i \in 1 .. Len(Tail(lat)) : Tail(lat)[i] <= now + ImuAge
    BY <1>1, <2>1 DEF LatencyTypes
  <2> HIDE DEF LatencyTypes
  <2> QED
    BY <2>1, <2>2 DEF LatencyTypes
<1> QED
  BY <1>2, <1>3

LEMMA OfferHand ==
    ASSUME PastInv, HandInv, Offer
    PROVE  HandInv'
<1>1. /\ at = "infer" /\ chunk.begun < now /\ at' = "cam1" /\ lat' = Add(now - chunk.t0)
      /\ UNCHANGED <<bundle, now, mode, sent>>
  BY DEF Offer, sources
<1>2. Inferring /\ ~Inferring'
  BY <1>1 DEF Inferring
<1>3. /\ chunk.t0 \in Int /\ chunk.begun \in Nat /\ chunk.expected \in Int
      /\ -ImuAge <= chunk.t0 /\ chunk.t0 <= chunk.begun /\ now \in Nat /\ since \in Nat /\ ImuAge \in Nat
  BY <1>2, ObservationAssumption DEF HandInv, ChunkTypes, PastInv, LoopTypes
<1>4. LatencyTypes'
  <2>1. now - chunk.t0 \in Nat /\ now - chunk.t0 <= now + ImuAge
    BY <1>1, <1>3
  <2> QED
    BY <1>1, <2>1, AddLatency DEF HandInv
<1>5. ChunkTypes' /\ ChunkContinues'
  BY <1>2 DEF ChunkTypes, ChunkContinues
<1>6. CASE plan' = plan
  BY <1>1, <1>4, <1>5, <1>6 DEF HandInv, PlanTypes, PlanOrNone, PlanLasts, PlanContinues, GoesOn, RowAt, UsesRtc
<1>7. CASE plan' # plan
  <2>1. /\ ~Refused
        /\ \E command \in Free : plan' = [t0 |-> chunk.t0, rows |-> Rows(command), expected |-> chunk.expected]
    BY <1>7 DEF Offer
  <2>2. PICK command : plan' = [t0 |-> chunk.t0, rows |-> Rows(command), expected |-> chunk.expected]
    BY <2>1
  <2>3. plan'.t0 = chunk.t0 /\ plan'.expected = chunk.expected
    BY <2>2
  <2>4. mode = "model" /\ since < chunk.t0 /\ (plan # None => plan.t0 < chunk.t0)
    BY <1>3, <2>1 DEF Refused, PastInv, LoopTypes, HandInv, PlanTypes, PlanOrNone
  <2>5. chunk.prefix = PrefixOf(plan, chunk.t0, Wants(chunk.expected)) /\ sent = plan
    BY <1>1, <1>2, <2>4 DEF HandInv, ChunkContinues
  <2>6. PlanTypes'
    BY <1>1, <1>3, <2>3 DEF HandInv, PlanTypes, PlanOrNone
  <2>7. PlanLasts'
    <3>1. plan' # None => sent' # plan'
      <4>1. CASE plan = None
        BY <1>1, <2>5, <4>1
      <4>2. CASE plan # None
        BY <1>1, <1>3, <2>3, <2>4, <2>5, <4>2 DEF HandInv, PlanTypes, PlanOrNone
      <4> QED
        BY <4>1, <4>2
    <3> QED
      BY <3>1 DEF PlanLasts
  <2>8. PlanContinues'
    <3> SUFFICES ASSUME UsesRtc, sent # None
                 PROVE  GoesOn(sent, plan', now)
      BY <1>1 DEF PlanContinues, GoesOn, RowAt, UsesRtc
    <3>1. sent.t0 \in Int /\ sent.t0 < chunk.t0 /\ now <= sent.t0 + Horizon - 1
      BY <2>4, <2>5 DEF HandInv, PlanTypes, PlanOrNone, PlanLasts
    <3>2. chunk.t0 <= now
      BY <1>1, <1>3
    <3>3. plan'.rows = Filled(chunk.prefix, command)
      BY <2>2 DEF Rows, Filled
    <3> QED
      <4>1. chunk.prefix = PrefixOf(sent, chunk.t0, Wants(chunk.expected))
        BY <2>5
      <4> QED
        BY <1>3, <2>3, <3>1, <3>2, <3>3, <4>1, PrefixGoesOn
  <2> QED
    BY <1>4, <1>5, <2>6, <2>7, <2>8 DEF HandInv
<1> QED
  BY <1>6, <1>7

\* The steps that neither plan nor let time pass.
LEMMA OtherHand ==
    ASSUME HandInv,
           \/ Restart \/ (\E k \in Cameras : ReadCamera(k)) \/ (\E imu \in now - ImuAge .. now : KeepWarm(imu))
           \/ Incoherent \/ HistoryFilling \/ Condition \/ UNCHANGED vars
    PROVE  HandInv'
<1>1. CASE Restart
  BY <1>1, HandStays DEF Restart, supervisor, Inferring
<1>2. CASE \E k \in Cameras : ReadCamera(k)
  <2>1. PICK k \in Cameras : ReadCamera(k)
    BY <1>2
  <2> QED
    BY <2>1, HandStays DEF ReadCamera, sources, supervisor, Inferring
<1>3. CASE \E imu \in now - ImuAge .. now : KeepWarm(imu)
  <2>1. PICK imu \in now - ImuAge .. now : KeepWarm(imu)
    BY <1>3
  <2> QED
    BY <2>1, HandStays DEF KeepWarm, sources, supervisor, Inferring
<1>4. CASE Incoherent
  BY <1>4, HandStays DEF Incoherent, sources, supervisor, Inferring
<1>5. CASE HistoryFilling
  BY <1>5, HandStays DEF HistoryFilling, sources, supervisor, Inferring
<1>6. CASE Condition
  BY <1>6, HandStays DEF Condition, sources, supervisor, Inferring
<1>7. CASE UNCHANGED vars
  BY <1>7, HandStays DEF vars, sources, supervisor, Inferring
<1> QED
  BY <1>1, <1>2, <1>3, <1>4, <1>5, <1>6, <1>7

LEMMA HandStep == PastInv /\ HandInv /\ [Next]_vars => HandInv'
<1> SUFFICES ASSUME PastInv, HandInv, [Next]_vars PROVE HandInv'
  OBVIOUS
<1>1. ASSUME NEW imu \in now - ImuAge .. now, Infer(imu) PROVE HandInv'
  BY <1>1, InferHand
<1> QED
  BY <1>1, TickHand, ModeHand, DispatchHand, OfferHand, OtherHand DEF Next

\* The handover is continuous, for any horizon, cap, margin and window.
THEOREM HandoversContinue == Spec => HandoverIsContinuous
<1>1. HandInv /\ [Next]_vars =>
        [UsesRtc /\ sent # None /\ sent' # None /\ sent' # sent
         /\ sent'.expected <= MaxDelay /\ now - sent'.t0 < sent'.expected
            => RowAt(sent', now) = RowAt(sent, now)]_vars
  <2> SUFFICES ASSUME HandInv, Next, UsesRtc, sent # None, sent' # None, sent' # sent,
                      sent'.expected <= MaxDelay, now - sent'.t0 < sent'.expected
               PROVE  RowAt(sent', now) = RowAt(sent, now)
    OBVIOUS
  <2>1. sent' = plan
    BY DEF Next, Tick, Restart, Switch, GiveUp, Dispatch, ReadCamera, Infer, KeepWarm, Incoherent, HistoryFilling,
           Condition, Offer, supervisor
  <2> QED
    BY <2>1 DEF HandInv, PlanContinues, GoesOn
<1> QED
  BY <1>1, PastInit, PastStep, HandInit, HandStep, PTL DEF Spec, HandoverIsContinuous

-----------------------------------------------------------------------------
(* PolicySession.                                                          *)

\* Where the supervisor does not exist yet, and where it is made and not started.
Before == {"pad", "tmp", "control", "control_ready", "cameras", "cameras_ready", "model", "readers", "status",
           "warm-up", "socket"}
Made == {"drain", "ask", "arm", "armed", "start"}

LEMMA OrderIs ==
    /\ Order[1] = "pad" /\ Order[2] = "tmp" /\ Order[3] = "control" /\ Order[4] = "control_ready"
    /\ Order[5] = "cameras" /\ Order[6] = "cameras_ready" /\ Order[7] = "model" /\ Order[8] = "readers"
    /\ Order[9] = "status" /\ Order[10] = "warm-up" /\ Order[11] = "socket" /\ Order[12] = "drain"
    /\ Order[13] = "ask" /\ Order[14] = "arm" /\ Order[15] = "start" /\ Order[16] = "loop"
BY DEF Order

LEMMA OrderSpan == Len(Order) = 16 /\ DOMAIN Order = 1 .. 16
BY DEF Order

\* The place of a step in Order.
Place(step) ==
    IF step = "pad" THEN 1 ELSE IF step = "tmp" THEN 2 ELSE IF step = "control" THEN 3
    ELSE IF step = "control_ready" THEN 4 ELSE IF step = "cameras" THEN 5 ELSE IF step = "cameras_ready" THEN 6
    ELSE IF step = "model" THEN 7 ELSE IF step = "readers" THEN 8 ELSE IF step = "status" THEN 9
    ELSE IF step = "warm-up" THEN 10 ELSE IF step = "socket" THEN 11 ELSE IF step = "drain" THEN 12
    ELSE IF step = "ask" THEN 13 ELSE IF step = "arm" THEN 14 ELSE IF step = "start" THEN 15 ELSE 16

LEMMA PlaceIs ==
    /\ Place("pad") = 1 /\ Place("tmp") = 2 /\ Place("control") = 3 /\ Place("control_ready") = 4
    /\ Place("cameras") = 5 /\ Place("cameras_ready") = 6 /\ Place("model") = 7 /\ Place("readers") = 8
    /\ Place("status") = 9 /\ Place("warm-up") = 10 /\ Place("socket") = 11 /\ Place("drain") = 12
    /\ Place("ask") = 13 /\ Place("arm") = 14 /\ Place("start") = 15 /\ Place("loop") = 16
BY DEF Place

LEMMA OnePlace ==
    ASSUME NEW i \in 1 .. 16
    PROVE  \/ i = 1 \/ i = 2 \/ i = 3 \/ i = 4 \/ i = 5 \/ i = 6 \/ i = 7 \/ i = 8
           \/ i = 9 \/ i = 10 \/ i = 11 \/ i = 12 \/ i = 13 \/ i = 14 \/ i = 15 \/ i = 16
OBVIOUS

LEMMA PlaceOfOrder == \A i \in 1 .. 16 : Place(Order[i]) = i
<1>1. /\ Place(Order[1]) = 1 /\ Place(Order[2]) = 2 /\ Place(Order[3]) = 3 /\ Place(Order[4]) = 4
      /\ Place(Order[5]) = 5 /\ Place(Order[6]) = 6 /\ Place(Order[7]) = 7 /\ Place(Order[8]) = 8
      /\ Place(Order[9]) = 9 /\ Place(Order[10]) = 10 /\ Place(Order[11]) = 11 /\ Place(Order[12]) = 12
      /\ Place(Order[13]) = 13 /\ Place(Order[14]) = 14 /\ Place(Order[15]) = 15 /\ Place(Order[16]) = 16
  BY OrderIs, PlaceIs, ZenonT(60)
<1> QED
  BY <1>1, OnePlace

\* No step is in Order twice.
LEMMA PlacesDiffer ==
    ASSUME NEW i \in 1 .. 16, NEW k \in 1 .. 16, Order[i] = Order[k]
    PROVE  i = k
BY PlaceOfOrder

\* From(i) is the first step from i on that is not skipped.
LEMMA NextPlace ==
    ASSUME NEW i \in 1 .. 16
    PROVE  From(i) \in i .. 16 /\ ~Skipped(Order[From(i)]) /\ \A k \in i .. From(i) - 1 : Skipped(Order[k])
<1> DEFINE L(n) == Skipped(Order[n])
<1> DEFINE S == {j \in i .. 16 : ~L(j)}
<1>1. ~L(16)
  <2>1. ~Skipped("loop")
    BY DEF Skipped
  <2> QED
    BY <2>1, OrderIs, Zenon
<1>2. From(i) = CHOOSE j \in i .. 16 : ~L(j) /\ \A k \in i .. j - 1 : L(k)
  BY OrderSpan, Zenon DEF From
<1> HIDE DEF L
<1>3. S \in SUBSET Nat /\ 16 \in S
  BY <1>1
<1>4. PICK j \in S : \A k \in S : j <= k
  <2> HIDE DEF S
  <2> QED
    BY <1>3, LeastNatural
<1>5. j \in i .. 16 /\ ~L(j) /\ \A k \in i .. j - 1 : L(k)
  <2>1. j \in i .. 16 /\ ~L(j)
    OBVIOUS
  <2>2. ASSUME NEW k \in i .. j - 1, ~L(k) PROVE FALSE
    <3>1. k \in S /\ k < j
      BY <2>1, <2>2
    <3> QED
      BY <1>4, <2>1, <3>1
  <2> QED
    BY <2>1, <2>2
<1>6. From(i) \in i .. 16 /\ ~L(From(i)) /\ \A k \in i .. From(i) - 1 : L(k)
  BY <1>2, <1>5, Zenon
<1> QED
  BY <1>6 DEF L

\* Everything up to the socket comes before the supervisor is made, and only a live run has one.
LEMMA FromIsSound ==
    ASSUME NEW i \in 1 .. 16
    PROVE  /\ Order[From(i)] = "socket" => live
           /\ i <= 11 => Order[From(i)] \in Before \cup {"loop"}
           /\ live /\ i \in {12, 13} => Order[From(i)] \in {"drain", "ask"}
           /\ i = 16 => Order[From(i)] = "loop"
<1> DEFINE j == From(i)
<1>1. j \in i .. 16 /\ ~Skipped(Order[j]) /\ \A k \in i .. j - 1 : Skipped(Order[k])
  BY NextPlace
<1> HIDE DEF j
<1>2. Order[j] = "socket" => live
  BY <1>1 DEF Skipped
<1>3. ASSUME i <= 11 PROVE Order[j] \in Before \cup {"loop"}
  <2>1. CASE j <= 11
    <3>1. \/ j = 1 \/ j = 2 \/ j = 3 \/ j = 4 \/ j = 5 \/ j = 6 \/ j = 7 \/ j = 8
          \/ j = 9 \/ j = 10 \/ j = 11
      BY <1>1, <2>1
    <3>2. /\ Order[1] \in Before /\ Order[2] \in Before /\ Order[3] \in Before /\ Order[4] \in Before
          /\ Order[5] \in Before /\ Order[6] \in Before /\ Order[7] \in Before /\ Order[8] \in Before
          /\ Order[9] \in Before /\ Order[10] \in Before /\ Order[11] \in Before
      BY OrderIs, Zenon DEF Before
    <3> QED
      BY <3>1, <3>2, Zenon
  <2>2. CASE j > 11 /\ j # 16
    <3>1. 11 \in i .. j - 1
      BY <1>1, <1>3, <2>2
    <3>2. Skipped(Order[11])
      BY <1>1, <3>1, Zenon
    <3>3. ~live
      <4>1. Skipped("socket")
        BY <3>2, OrderIs, Zenon
      <4> QED
        BY <4>1 DEF Skipped
    <3>4. j = 12 \/ j = 13 \/ j = 14 \/ j = 15
      BY <1>1, <2>2
    <3>5. Skipped("drain") /\ Skipped("ask") /\ Skipped("arm") /\ Skipped("start")
      BY <3>3 DEF Skipped
    <3> QED
      BY <1>1, <3>4, <3>5, OrderIs, Zenon
  <2>3. CASE j = 16
    BY <2>3, OrderIs, Zenon
  <2> QED
    BY <1>1, <2>1, <2>2, <2>3
<1>4. ASSUME live, i \in {12, 13} PROVE Order[j] \in {"drain", "ask"}
  <2>1. ~Skipped("ask")
    BY <1>4 DEF Skipped
  <2>2. ~Skipped(Order[13])
    BY <2>1, OrderIs, Zenon
  <2> DEFINE L(n) == Skipped(Order[n])
  <2>3. ~L(13) /\ \A k \in i .. j - 1 : L(k)
    BY <1>1, <2>2
  <2> HIDE DEF L
  <2>4. j = 12 \/ j = 13
    BY <1>1, <1>4, <2>3
  <2> QED
    BY <2>4, OrderIs, Zenon
<1>5. ASSUME i = 16 PROVE Order[j] = "loop"
  <2>1. j = 16
    BY <1>1, <1>5
  <2> QED
    BY <2>1, OrderIs, Zenon
<1> QED
  BY <1>2, <1>3, <1>4, <1>5 DEF j

LEMMA AfterPlace ==
    ASSUME NEW k \in 1 .. 16
    PROVE  After(Order[k]) = Order[From(k + 1)]
<1> DEFINE p == CHOOSE i \in DOMAIN Order : Order[i] = Order[k]
<1>1. p = k
  BY PlacesDiffer, OrderSpan, Zenon
<1>2. After(Order[k]) = Order[From(1 + p)]
  BY DEF After
<1> HIDE DEF p
<1>3. 1 + k = k + 1
  OBVIOUS
<1> QED
  BY <1>1, <1>2, <1>3, Zenon

\* Where the next step of the setup is.
LEMMA AfterIs ==
    ASSUME NEW step
    PROVE  /\ step \in Before \ {"socket"} => After(step) \in Before \cup {"loop"} /\ (After(step) = "socket" => live)
           /\ step \in {"socket", "drain"} /\ live => After(step) \in {"drain", "ask"}
           /\ step = "start" => After(step) = "loop"
<1>1. ASSUME step \in Before \ {"socket"} PROVE \E k \in 1 .. 10 : step = Order[k]
  <2>1. 1 \in 1 .. 10 /\ 2 \in 1 .. 10 /\ 3 \in 1 .. 10 /\ 4 \in 1 .. 10 /\ 5 \in 1 .. 10
        /\ 6 \in 1 .. 10 /\ 7 \in 1 .. 10 /\ 8 \in 1 .. 10 /\ 9 \in 1 .. 10 /\ 10 \in 1 .. 10
    OBVIOUS
  <2> QED
    BY <1>1, <2>1, OrderIs, ZenonT(60) DEF Before
<1>2. \A k \in 1 .. 10 : After(Order[k]) = Order[From(k + 1)] /\ k + 1 \in 1 .. 16 /\ k + 1 <= 11
  BY AfterPlace
<1>3. ASSUME step \in {"socket", "drain"}, live PROVE After(step) \in {"drain", "ask"}
  <2>1. After(Order[11]) = Order[From(12)] /\ After(Order[12]) = Order[From(13)]
    BY AfterPlace
  <2>2. Order[From(12)] \in {"drain", "ask"} /\ Order[From(13)] \in {"drain", "ask"}
    BY <1>3, FromIsSound
  <2> QED
    BY <1>3, <2>1, <2>2, OrderIs, Zenon
<1>4. step = "start" => After(step) = "loop"
  <2>1. After(Order[15]) = Order[From(16)]
    BY AfterPlace
  <2>2. Order[From(16)] = "loop"
    BY FromIsSound
  <2> QED
    BY <2>1, <2>2, OrderIs, Zenon
<1>5. ASSUME step \in Before \ {"socket"} PROVE After(step) \in Before \cup {"loop"} /\ (After(step) = "socket" => live)
  <2>1. PICK k \in 1 .. 10 : step = Order[k]
    BY <1>1, <1>5
  <2>2. Order[From(k + 1)] \in Before \cup {"loop"} /\ (Order[From(k + 1)] = "socket" => live)
    BY <1>2, FromIsSound
  <2> QED
    BY <1>2, <2>1, <2>2, Zenon
<1> QED
  BY <1>3, <1>4, <1>5

-----------------------------------------------------------------------------
(* PolicySession: the end of a run.                                        *)

Ending == {"test", "set", "join", "shut", "mark", "disarm", "close", "take"}
Closes == {"close_status", "stop_services", "close_readers", "remove_tmp", "close_pad", "close_model"}
Finals == {"final", "done"} \cup Closes
\* Where main closes the connection of a supervisor that was not started.
Shutting == {"test", "set", "shut", "mark", "disarm", "close"}

SessionTypes ==
    /\ main \in Before \cup Made \cup {"loop"} \cup Ending \cup Finals
    /\ sup \in {Unset, "made", "tick", "send", "status", "test", "set", "shut", "mark", "disarm", "close", "dead"}
    /\ stop_kind \in {Unset, "finished", "failed", "doubt"} /\ outcome \in {"finished", "failed", "doubt"}
    /\ controller \in {"disarmed", "armed", "fault", "other", "off"}
    /\ wire \in Seq({"arm", "disarm", "close"})
ArmLast == wire # <<>> /\ wire[Len(wire)] = "arm"

\* Which steps of the main thread go with which of the supervisor.
Threads ==
    /\ main \in {"socket"} \cup Made => live
    /\ main \in Before => sup = Unset
    /\ main \in Made => sup = "made"
    /\ main \in {"loop", "join"} => sup # "made"
    /\ main \in Ending => sup # Unset
\* Nothing was sent before there is a supervisor; an "arm" is last on the connection only
\* while a supervisor that was not started can still send its "disarm" or close it.
WireIsSafe ==
    /\ sup = Unset => wire = <<>> /\ controller # "armed" /\ "socket" \notin held /\ ~closed
    /\ ArmLast => sup = "made" /\ main \in {"armed"} \cup Shutting
    /\ sup = "made" => /\ main \in Made \cup Shutting => "socket" \in held
                       /\ main \in Made \cup {"test", "set", "shut", "mark"} => ~closed
\* One thread at a time shuts down, unless the main thread has given up waiting.
OneShutsDown ==
    /\ main \in {"shut", "mark", "disarm", "close", "take"} \cup Finals =>
          sup \in {Unset, "made", "dead"} \/ "join" \in errors
    /\ sup = "dead" => "socket" \notin held \/ "join" \in errors
    /\ closed => sup \in {"made", "disarm", "close", "dead"} \/ "join" \in errors
    /\ main \in {"take"} \cup Finals => "socket" \notin held \/ "join" \in errors
\* The reason is there before the threads end, and it is what the run reports.
ReasonIsKept ==
    /\ main \in Ending \ {"test", "set"} => stop_kind # Unset
    /\ main \in Finals => outcome # "finished" \/ sup = Unset \/ "join" \in errors \/ stop_kind = "finished"
\* What a step of the cleanup was to give back is given back, or the step has its error.
GivenBack(steps, what, step) == main \in steps => held \cap what = {} \/ step \in errors
AllGivenBack ==
    /\ GivenBack({"stop_services", "close_readers", "remove_tmp", "close_pad", "close_model", "done"},
                 {"status"}, "close_status")
    /\ GivenBack({"close_readers", "remove_tmp", "close_pad", "close_model", "done"},
                 {"control", "cameras"}, "stop_services")
    /\ GivenBack({"remove_tmp", "close_pad", "close_model", "done"}, {"readers"}, "close_readers")
    /\ GivenBack({"close_pad", "close_model", "done"}, {"tmp"}, "remove_tmp")
    /\ GivenBack({"close_model", "done"}, {"pad"}, "close_pad")
    /\ GivenBack({"done"}, {"model"}, "close_model")
Disarmed == main \in Finals \ {"final"} => controller # "armed" \/ "final" \in errors
SessionInv ==
    /\ SessionTypes /\ Threads /\ WireIsSafe /\ OneShutsDown /\ ReasonIsKept /\ AllGivenBack /\ Disarmed

LEMMA SessionBegins == SessionInit => SessionInv
<1> SUFFICES ASSUME SessionInit PROVE SessionInv
  OBVIOUS
<1>1. Order[From(1)] \in Before \cup {"loop"} /\ (Order[From(1)] = "socket" => live)
  BY FromIsSound
<1>2. wire = <<>> /\ wire \in Seq({"arm", "disarm", "close"})
  BY DEF SessionInit
<1>3. main \in Before \cup {"loop"} /\ (main = "socket" => live)
  BY <1>1 DEF SessionInit
<1>4. controller \in {"disarmed", "fault", "other"}
  BY DEF SessionInit
<1>5. main \notin Made \cup Ending \cup Finals /\ main # "join"
  BY <1>3 DEF Before, Made, Ending, Finals, Closes
<1> QED
  BY <1>2, <1>3, <1>4, <1>5 DEF SessionInit, SessionInv, SessionTypes, ArmLast, Threads, WireIsSafe, OneShutsDown, ReasonIsKept,
     AllGivenBack, GivenBack, Disarmed, Unset, Ending, Finals, Made, Before, Shutting

\* The steps of the setup.
LEMMA Setup == ToSet(Order) = Before \cup (Made \ {"armed"}) \cup {"loop"}
<1>1. ToSet(Order) = {Order[i] : i \in 1 .. 16}
  BY OrderSpan, Zenon DEF ToSet
<1>2. \A i \in 1 .. 16 : Order[i] \in Before \cup (Made \ {"armed"}) \cup {"loop"}
  <2>1. /\ Order[1] \in Before /\ Order[2] \in Before /\ Order[3] \in Before /\ Order[4] \in Before
        /\ Order[5] \in Before /\ Order[6] \in Before /\ Order[7] \in Before /\ Order[8] \in Before
        /\ Order[9] \in Before /\ Order[10] \in Before /\ Order[11] \in Before
    BY OrderIs, Zenon DEF Before
  <2>2. Order[12] \in Made \ {"armed"} /\ Order[13] \in Made \ {"armed"} /\ Order[14] \in Made \ {"armed"}
        /\ Order[15] \in Made \ {"armed"} /\ Order[16] = "loop"
    BY OrderIs, Zenon DEF Made
  <2> QED
    BY <2>1, <2>2, OnePlace, Zenon
<1>3. ASSUME NEW step \in Before \cup (Made \ {"armed"}) \cup {"loop"} PROVE \E i \in 1 .. 16 : step = Order[i]
  <2>1. /\ 1 \in 1 .. 16 /\ 2 \in 1 .. 16 /\ 3 \in 1 .. 16 /\ 4 \in 1 .. 16 /\ 5 \in 1 .. 16
        /\ 6 \in 1 .. 16 /\ 7 \in 1 .. 16 /\ 8 \in 1 .. 16 /\ 9 \in 1 .. 16 /\ 10 \in 1 .. 16
        /\ 11 \in 1 .. 16 /\ 12 \in 1 .. 16 /\ 13 \in 1 .. 16 /\ 14 \in 1 .. 16 /\ 15 \in 1 .. 16
        /\ 16 \in 1 .. 16
    OBVIOUS
  <2> QED
    BY <1>3, <2>1, OrderIs, ZenonT(60) DEF Before, Made
<1> QED
  BY <1>1, <1>2, <1>3, Zenon

\* A packet that is sent is the last one.
LEMMA Sent ==
    ASSUME wire \in Seq({"arm", "disarm", "close"}), NEW packet \in {"arm", "disarm", "close"}, wire' = Append(wire, packet)
    PROVE  wire' \in Seq({"arm", "disarm", "close"}) /\ (ArmLast' <=> packet = "arm")
<1>1. wire' \in Seq({"arm", "disarm", "close"}) /\ Len(wire') = Len(wire) + 1 /\ wire'[Len(wire) + 1] = packet
  OBVIOUS
<1>2. wire' # <<>>
  BY <1>1
<1> QED
  BY <1>1, <1>2 DEF ArmLast

\* A packet that is served leaves the others.
LEMMA Served ==
    ASSUME wire \in Seq({"arm", "disarm", "close"}), wire # <<>>, wire' = Tail(wire)
    PROVE  /\ wire' \in Seq({"arm", "disarm", "close"}) /\ (ArmLast' => ArmLast)
           /\ Len(wire) = 1 /\ Head(wire) = "arm" => ArmLast
<1>1. wire' \in Seq({"arm", "disarm", "close"}) /\ Len(wire') = Len(wire) - 1
  OBVIOUS
<1>2. ASSUME wire' # <<>> PROVE wire'[Len(wire')] = wire[Len(wire)]
  <2>1. Len(wire) - 1 \in 1 .. Len(wire) - 1
    BY <1>1, <1>2
  <2> QED
    BY <1>1, <2>1
<1>3. Len(wire) = 1 => Head(wire) = wire[Len(wire)]
  OBVIOUS
<1> QED
  BY <1>1, <1>2, <1>3 DEF ArmLast

LEMMA AskKeeps == SessionInv /\ Ask => SessionInv'
<1> SUFFICES ASSUME SessionInv, Ask PROVE SessionInv'
  OBVIOUS
<1>1. (ArmLast' <=> ArmLast) /\ UNCHANGED <<live, sup, held, errors, outcome, stop_kind, closed, wire, controller>>
  BY DEF Ask, ArmLast, options, connection
<1>2. main = "ask" /\ main' = "arm"
  BY DEF Ask
<1>3. SessionTypes'
  BY <1>1, <1>2 DEF SessionInv, SessionTypes, Made
<1>4. Threads'
  BY <1>1, <1>2 DEF SessionInv, Threads, Before, Made, Ending
<1>5. WireIsSafe'
  BY <1>1, <1>2 DEF SessionInv, WireIsSafe, Made, Shutting
<1>6. OneShutsDown'
  BY <1>1, <1>2 DEF SessionInv, OneShutsDown, Closes, Finals
<1>7. ReasonIsKept'
  BY <1>2 DEF SessionInv, ReasonIsKept, Ending, Closes, Finals
<1>8. AllGivenBack'
  BY <1>2 DEF SessionInv, AllGivenBack, GivenBack
<1>9. Disarmed'
  BY <1>2 DEF SessionInv, Disarmed, Closes, Finals
<1> QED
  BY <1>3, <1>4, <1>5, <1>6, <1>7, <1>8, <1>9 DEF SessionInv

LEMMA AskedKeeps == SessionInv /\ Asked => SessionInv'
<1> SUFFICES ASSUME SessionInv, Asked PROVE SessionInv'
  OBVIOUS
<1>1. (ArmLast' <=> ArmLast) /\ UNCHANGED <<live, sup, held, errors, outcome, stop_kind, closed, wire, controller>>
  BY DEF Asked, ArmLast, options, connection
<1>2. main = "armed" /\ ~ArmLast /\ main' \in {"start", "arm"}
  BY DEF Asked, ArmLast
<1>3. SessionTypes'
  BY <1>1, <1>2 DEF SessionInv, SessionTypes, Made
<1>4. Threads'
  BY <1>1, <1>2 DEF SessionInv, Threads, Before, Made, Ending
<1>5. WireIsSafe'
  BY <1>1, <1>2 DEF SessionInv, WireIsSafe, Made
<1>6. OneShutsDown'
  BY <1>1, <1>2 DEF SessionInv, OneShutsDown, Closes, Finals
<1>7. ReasonIsKept'
  BY <1>2 DEF SessionInv, ReasonIsKept, Ending, Closes, Finals
<1>8. AllGivenBack'
  BY <1>2 DEF SessionInv, AllGivenBack, GivenBack
<1>9. Disarmed'
  BY <1>2 DEF SessionInv, Disarmed, Closes, Finals
<1> QED
  BY <1>3, <1>4, <1>5, <1>6, <1>7, <1>8, <1>9 DEF SessionInv

LEMMA ArmKeeps == SessionInv /\ Arm => SessionInv'
<1> SUFFICES ASSUME SessionInv, Arm PROVE SessionInv'
  OBVIOUS
<1>1. UNCHANGED <<live, sup, held, errors, outcome, stop_kind, closed, controller>>
  BY DEF Arm, ArmLast, options, connection
<1>2. wire' \in Seq({"arm", "disarm", "close"}) /\ ArmLast' /\ main = "arm" /\ main' = "armed"
  BY Sent DEF Arm, SessionInv, SessionTypes
<1>3. SessionTypes'
  BY <1>1, <1>2 DEF SessionInv, SessionTypes, Made
<1>4. Threads'
  BY <1>1, <1>2 DEF SessionInv, Threads, Before, Made, Ending
<1>5. WireIsSafe'
  BY <1>1, <1>2 DEF SessionInv, Threads, WireIsSafe, Made
<1>6. OneShutsDown'
  BY <1>1, <1>2 DEF SessionInv, OneShutsDown, Closes, Finals
<1>7. ReasonIsKept'
  BY <1>2 DEF SessionInv, ReasonIsKept, Ending, Closes, Finals
<1>8. AllGivenBack'
  BY <1>2 DEF SessionInv, AllGivenBack, GivenBack
<1>9. Disarmed'
  BY <1>2 DEF SessionInv, Disarmed, Closes, Finals
<1> QED
  BY <1>3, <1>4, <1>5, <1>6, <1>7, <1>8, <1>9 DEF SessionInv

LEMMA FailsKeeps == SessionInv /\ Fails => SessionInv'
<1> SUFFICES ASSUME SessionInv, Fails PROVE SessionInv'
  OBVIOUS
<1>1. (ArmLast' <=> ArmLast) /\ UNCHANGED <<live, sup, held, errors, stop_kind, closed, wire, controller>>
  BY DEF Fails, ArmLast, options, connection
<1>2. outcome' = "failed" /\ main \in Before \cup Made \cup {"loop"}
  BY Setup DEF Fails, Trying, Made
<1>3. \/ sup # Unset /\ main' = "test"
      \/ sup = Unset /\ main' \in {"final", "stop_services"} /\ (main' = "stop_services" => "status" \notin held)
  BY DEF Fails, Finally
<1>4. SessionTypes'
  BY <1>1, <1>2, <1>3 DEF SessionInv, SessionTypes, Ending, Closes, Finals
<1>5. Threads'
  BY <1>1, <1>3 DEF SessionInv, Threads, Before, Made, Ending
<1>6. WireIsSafe'
  BY <1>1, <1>2, <1>3 DEF SessionInv, Threads, WireIsSafe, Made, Shutting
<1>7. OneShutsDown'
  BY <1>1, <1>3 DEF SessionInv, WireIsSafe, OneShutsDown, Closes, Finals
<1>8. ReasonIsKept'
  BY <1>2, <1>3 DEF SessionInv, ReasonIsKept, Ending
<1>9. AllGivenBack'
  BY <1>1, <1>3 DEF SessionInv, AllGivenBack, GivenBack
<1>10. Disarmed'
  BY <1>1, <1>3 DEF SessionInv, WireIsSafe, Disarmed, Closes, Finals
<1> QED
  BY <1>4, <1>5, <1>6, <1>7, <1>8, <1>9, <1>10 DEF SessionInv

LEMMA LeaveKeeps == SessionInv /\ LeaveLoop => SessionInv'
<1> SUFFICES ASSUME SessionInv, LeaveLoop PROVE SessionInv'
  OBVIOUS
<1>1. (ArmLast' <=> ArmLast) /\ UNCHANGED <<live, sup, held, errors, stop_kind, closed, wire, controller>>
  BY DEF LeaveLoop, ArmLast, options, connection
<1>2. main = "loop" /\ outcome' = IF stop_kind # Unset THEN stop_kind ELSE "finished"
  BY DEF LeaveLoop
<1>3. \/ sup # Unset /\ main' = "test"
      \/ sup = Unset /\ main' \in {"final", "stop_services"} /\ (main' = "stop_services" => "status" \notin held)
  BY DEF LeaveLoop, Finally
<1>4. SessionTypes'
  BY <1>1, <1>2, <1>3 DEF SessionInv, SessionTypes, Ending, Closes, Finals
<1>5. Threads'
  BY <1>1, <1>3 DEF SessionInv, Threads, Before, Made, Ending
<1>6. WireIsSafe'
  BY <1>1, <1>2 DEF SessionInv, Threads, WireIsSafe
<1>7. OneShutsDown'
  BY <1>1, <1>3 DEF SessionInv, WireIsSafe, OneShutsDown, Closes, Finals
<1>8. ReasonIsKept'
  BY <1>1, <1>3 DEF SessionInv, ReasonIsKept, Ending, Closes, Finals
<1>9. AllGivenBack'
  BY <1>1, <1>3 DEF SessionInv, AllGivenBack, GivenBack
<1>10. Disarmed'
  BY <1>1, <1>3 DEF SessionInv, WireIsSafe, Disarmed, Closes, Finals
<1> QED
  BY <1>4, <1>5, <1>6, <1>7, <1>8, <1>9, <1>10 DEF SessionInv

LEMMA OpenKeeps == SessionInv /\ Open => SessionInv'
<1> SUFFICES ASSUME SessionInv, Open PROVE SessionInv'
  OBVIOUS
<1>1. (ArmLast' <=> ArmLast) /\ UNCHANGED <<live, errors, outcome, stop_kind, closed, wire, controller>>
  BY DEF Open, ArmLast, options, connection
<1>2. main \in Before \cup {"drain", "start"}
  BY Setup DEF Open, Made
<1>3. /\ main \in Before \ {"socket"} => main' \in Before \cup {"loop"} /\ (main' = "socket" => live)
      /\ main \in {"socket", "drain"} => main' \in {"drain", "ask"} /\ live
      /\ main = "start" => main' = "loop"
  BY AfterIs DEF Open, SessionInv, Threads, Made
<1>4. /\ main = "socket" => sup' = "made" /\ held' = held \cup {"socket"}
      /\ main = "start" => sup' = "tick" /\ held' = held
      /\ main \notin {"socket", "start"} => sup' = sup /\ ("socket" \in held' <=> "socket" \in held)
  BY DEF Open, Opens
<1>5. SessionTypes'
  BY <1>1, <1>2, <1>3, <1>4 DEF SessionInv, SessionTypes, Made
<1>6. Threads'
  BY <1>1, <1>2, <1>3, <1>4 DEF SessionInv, Threads, Unset, Before, Made, Ending
<1>7. WireIsSafe'
  BY <1>1, <1>2, <1>4 DEF SessionInv, Threads, WireIsSafe, Unset, Made, Shutting
<1>8. OneShutsDown'
  BY <1>1, <1>2, <1>3, <1>4 DEF SessionInv, Threads, WireIsSafe, OneShutsDown, Made, Closes, Finals
<1>9. ReasonIsKept'
  BY <1>2, <1>3 DEF SessionInv, ReasonIsKept, Before, Ending, Closes, Finals
<1>10. AllGivenBack'
  BY <1>2, <1>3 DEF SessionInv, AllGivenBack, GivenBack, Before
<1>11. Disarmed'
  BY <1>2, <1>3 DEF SessionInv, Disarmed, Before, Closes, Finals
<1> QED
  BY <1>5, <1>6, <1>7, <1>8, <1>9, <1>10, <1>11 DEF SessionInv

LEMMA JoinKeeps == SessionInv /\ Join => SessionInv'
<1> SUFFICES ASSUME SessionInv, Join PROVE SessionInv'
  OBVIOUS
<1>1. (ArmLast' <=> ArmLast) /\ UNCHANGED <<live, sup, held, outcome, stop_kind, closed, wire, controller>>
  BY DEF Join, ArmLast, options, connection
<1>2. main = "join" /\ main' = "shut" /\ errors' = IF sup = "dead" THEN errors ELSE errors \cup {"join"}
  BY DEF Join
<1>3. SessionTypes'
  BY <1>1, <1>2 DEF SessionInv, SessionTypes, Ending
<1>4. Threads'
  BY <1>1, <1>2 DEF SessionInv, Threads, Before, Made, Ending
<1>5. WireIsSafe'
  BY <1>1, <1>2 DEF SessionInv, Threads, WireIsSafe
<1>6. OneShutsDown'
  BY <1>1, <1>2 DEF SessionInv, OneShutsDown
<1>7. ReasonIsKept'
  BY <1>1, <1>2 DEF SessionInv, ReasonIsKept, Ending, Closes, Finals
<1>8. AllGivenBack'
  BY <1>2 DEF SessionInv, AllGivenBack, GivenBack
<1>9. Disarmed'
  BY <1>2 DEF SessionInv, Disarmed, Closes, Finals
<1> QED
  BY <1>3, <1>4, <1>5, <1>6, <1>7, <1>8, <1>9 DEF SessionInv

LEMMA TakeKeeps == SessionInv /\ Take => SessionInv'
<1> SUFFICES ASSUME SessionInv, Take PROVE SessionInv'
  OBVIOUS
<1>1. (ArmLast' <=> ArmLast) /\ UNCHANGED <<live, sup, held, errors, stop_kind, closed, wire, controller>>
  BY DEF Take, ArmLast, options, connection
<1>2. main = "take" /\ main' = "final" /\ outcome' = IF stop_kind # Unset /\ outcome = "finished" THEN stop_kind ELSE outcome
  BY DEF Take
<1>3. SessionTypes'
  BY <1>1, <1>2 DEF SessionInv, SessionTypes, Finals
<1>4. Threads'
  BY <1>2 DEF SessionInv, Threads, Before, Made, Ending
<1>5. WireIsSafe'
  BY <1>1, <1>2 DEF SessionInv, WireIsSafe, Made, Shutting
<1>6. OneShutsDown'
  BY <1>1, <1>2 DEF SessionInv, OneShutsDown
<1>7. ReasonIsKept'
  BY <1>1, <1>2 DEF SessionInv, ReasonIsKept, Ending
<1>8. AllGivenBack'
  BY <1>2 DEF SessionInv, AllGivenBack, GivenBack
<1>9. Disarmed'
  BY <1>2 DEF SessionInv, Disarmed
<1> QED
  BY <1>3, <1>4, <1>5, <1>6, <1>7, <1>8, <1>9 DEF SessionInv

LEMMA FinalKeeps == SessionInv /\ FinalStatus => SessionInv'
<1> SUFFICES ASSUME SessionInv, FinalStatus PROVE SessionInv'
  OBVIOUS
<1>1. (ArmLast' <=> ArmLast) /\ UNCHANGED <<live, sup, held, outcome, stop_kind, closed, wire, controller>>
  BY DEF FinalStatus, ArmLast, options, connection
<1>2. /\ main = "final" /\ main' = "close_status" /\ errors \subseteq errors'
      /\ (sup # Unset => controller # "armed") \/ "final" \in errors'
  BY DEF FinalStatus
<1>3. SessionTypes'
  BY <1>1, <1>2 DEF SessionInv, SessionTypes, Closes, Finals
<1>4. Threads'
  BY <1>2 DEF SessionInv, Threads, Before, Made, Ending
<1>5. WireIsSafe'
  BY <1>1, <1>2 DEF SessionInv, WireIsSafe, Made, Shutting
<1>6. OneShutsDown'
  BY <1>1, <1>2 DEF SessionInv, OneShutsDown, Finals
<1>7. ReasonIsKept'
  BY <1>1, <1>2 DEF SessionInv, ReasonIsKept, Ending, Finals
<1>8. AllGivenBack'
  BY <1>2 DEF SessionInv, AllGivenBack, GivenBack
<1>9. Disarmed'
  BY <1>1, <1>2 DEF SessionInv, WireIsSafe, Disarmed
<1> QED
  BY <1>3, <1>4, <1>5, <1>6, <1>7, <1>8, <1>9 DEF SessionInv

LEMMA PassKeeps == SessionInv /\ Pass => SessionInv'
<1> SUFFICES ASSUME SessionInv, Pass PROVE SessionInv'
  OBVIOUS
<1>1. (ArmLast' <=> ArmLast) /\ UNCHANGED <<live, main, held, errors, outcome, stop_kind, closed, wire, controller>>
  BY DEF Pass, ArmLast, options, connection
<1>2. sup \in {"tick", "send", "status"} /\ sup' \in {"tick", "send", "status", "test", "shut"}
  BY DEF Pass, PadIsLost
<1>3. SessionTypes'
  BY <1>1, <1>2 DEF SessionInv, SessionTypes
<1>4. Threads'
  BY <1>1, <1>2 DEF SessionInv, Threads, Unset
<1>5. WireIsSafe'
  BY <1>1, <1>2 DEF SessionInv, WireIsSafe, Unset
<1>6. OneShutsDown'
  BY <1>1, <1>2 DEF SessionInv, OneShutsDown, Unset
<1>7. ReasonIsKept'
  BY <1>1, <1>2 DEF SessionInv, ReasonIsKept, Unset
<1>8. AllGivenBack'
  BY <1>1 DEF SessionInv, AllGivenBack, GivenBack
<1>9. Disarmed'
  BY <1>1 DEF SessionInv, Disarmed
<1> QED
  BY <1>3, <1>4, <1>5, <1>6, <1>7, <1>8, <1>9 DEF SessionInv

LEMMA ServesKeeps == SessionInv /\ Serves => SessionInv'
<1> SUFFICES ASSUME SessionInv, Serves PROVE SessionInv'
  OBVIOUS
<1>1. UNCHANGED <<live, main, sup, held, errors, outcome, stop_kind, closed>>
  BY DEF Serves, options
<1>2. wire' \in Seq({"arm", "disarm", "close"}) /\ (ArmLast' => ArmLast) /\ wire # <<>> /\ (Len(wire) = 1 /\ Head(wire) = "arm" => ArmLast)
  BY Served DEF Serves, SessionInv, SessionTypes
<1>3. /\ controller' \in {"disarmed", "armed", "fault", "other", "off"}
      /\ controller' = "armed" => controller = "armed" \/ (Len(wire) = 1 /\ Head(wire) = "arm")
  BY DEF Serves, Answer, SessionInv, SessionTypes
<1>4. SessionTypes'
  BY <1>1, <1>2, <1>3 DEF SessionInv, SessionTypes
<1>5. Threads'
  BY <1>1 DEF SessionInv, Threads
<1>6. WireIsSafe'
  BY <1>1, <1>2 DEF SessionInv, WireIsSafe
<1>7. OneShutsDown'
  BY <1>1 DEF SessionInv, OneShutsDown
<1>8. ReasonIsKept'
  BY <1>1 DEF SessionInv, ReasonIsKept
<1>9. AllGivenBack'
  BY <1>1 DEF SessionInv, AllGivenBack, GivenBack
<1>10. Disarmed'
  BY <1>1, <1>2, <1>3 DEF SessionInv, WireIsSafe, Disarmed, Closes, Finals, Shutting
<1> QED
  BY <1>4, <1>5, <1>6, <1>7, <1>8, <1>9, <1>10 DEF SessionInv

LEMMA BreaksKeeps == SessionInv /\ Breaks => SessionInv'
<1> SUFFICES ASSUME SessionInv, Breaks PROVE SessionInv'
  OBVIOUS
<1>1. (ArmLast' <=> ArmLast) /\ UNCHANGED <<live, main, sup, held, errors, outcome, stop_kind, closed, wire>>
  BY DEF Breaks, ArmLast, options
<1>2. controller' \in {"fault", "off"}
  BY DEF Breaks
<1>3. SessionTypes'
  BY <1>1, <1>2 DEF SessionInv, SessionTypes
<1>4. Threads'
  BY <1>1 DEF SessionInv, Threads
<1>5. WireIsSafe'
  BY <1>1, <1>2 DEF SessionInv, WireIsSafe
<1>6. OneShutsDown'
  BY <1>1 DEF SessionInv, OneShutsDown
<1>7. ReasonIsKept'
  BY <1>1 DEF SessionInv, ReasonIsKept
<1>8. AllGivenBack'
  BY <1>1 DEF SessionInv, AllGivenBack, GivenBack
<1>9. Disarmed'
  BY <1>2 DEF SessionInv, Disarmed
<1> QED
  BY <1>3, <1>4, <1>5, <1>6, <1>7, <1>8, <1>9 DEF SessionInv

LEMMA TestMainKeeps == SessionInv /\ Test("main") => SessionInv'
<1> SUFFICES ASSUME SessionInv, Test("main") PROVE SessionInv'
  OBVIOUS
<1>1. (ArmLast' <=> ArmLast) /\ UNCHANGED <<live, held, errors, outcome, stop_kind, closed, wire, controller>>
  BY DEF Test, ArmLast, options, connection
<1>2. main = "test" /\ sup' = sup /\ (stop_kind = Unset => main' = "set")
      /\ (stop_kind # Unset => main' = IF sup # "made" THEN "join" ELSE "shut")
  BY DEF Test, Go, Stopped, Left
<1>3. SessionTypes'
  BY <1>1, <1>2 DEF SessionInv, SessionTypes, Ending
<1>4. Threads'
  BY <1>2 DEF SessionInv, Threads, Before, Made, Ending
<1>5. WireIsSafe'
  BY <1>1, <1>2 DEF SessionInv, WireIsSafe, Shutting
<1>6. OneShutsDown'
  BY <1>1, <1>2 DEF SessionInv, OneShutsDown, Closes, Finals
<1>7. ReasonIsKept'
  BY <1>1, <1>2 DEF SessionInv, ReasonIsKept, Closes, Finals
<1>8. AllGivenBack'
  BY <1>2 DEF SessionInv, AllGivenBack, GivenBack
<1>9. Disarmed'
  BY <1>2 DEF SessionInv, Disarmed, Closes, Finals
<1> QED
  BY <1>3, <1>4, <1>5, <1>6, <1>7, <1>8, <1>9 DEF SessionInv

LEMMA TestSupervisorKeeps == SessionInv /\ Test("supervisor") => SessionInv'
<1> SUFFICES ASSUME SessionInv, Test("supervisor") PROVE SessionInv'
  OBVIOUS
<1>1. (ArmLast' <=> ArmLast) /\ UNCHANGED <<live, held, errors, outcome, stop_kind, closed, wire, controller>>
  BY DEF Test, ArmLast, options, connection
<1>2. sup = "test" /\ main' = main /\ sup' \in {"set", "shut"}
  BY DEF Test, Go, Stopped, Left
<1>3. SessionTypes'
  BY <1>1, <1>2 DEF SessionInv, SessionTypes
<1>4. Threads'
  BY <1>1, <1>2 DEF SessionInv, Threads, Unset
<1>5. WireIsSafe'
  BY <1>1, <1>2 DEF SessionInv, WireIsSafe, Unset
<1>6. OneShutsDown'
  BY <1>1, <1>2 DEF SessionInv, OneShutsDown, Unset
<1>7. ReasonIsKept'
  BY <1>1, <1>2 DEF SessionInv, ReasonIsKept, Unset
<1>8. AllGivenBack'
  BY <1>1, <1>2 DEF SessionInv, AllGivenBack, GivenBack
<1>9. Disarmed'
  BY <1>1, <1>2 DEF SessionInv, Disarmed
<1> QED
  BY <1>3, <1>4, <1>5, <1>6, <1>7, <1>8, <1>9 DEF SessionInv

LEMMA SetMainKeeps == SessionInv /\ Set("main") => SessionInv'
<1> SUFFICES ASSUME SessionInv, Set("main") PROVE SessionInv'
  OBVIOUS
<1>1. (ArmLast' <=> ArmLast) /\ UNCHANGED <<live, held, errors, outcome, closed, wire, controller>>
  BY DEF Set, ArmLast, options, connection
<1>2. main = "set" /\ sup' = sup /\ stop_kind' = outcome /\ main' = IF sup # "made" THEN "join" ELSE "shut"
  BY DEF Set, Go, Stopped, Left
<1>3. SessionTypes'
  BY <1>1, <1>2 DEF SessionInv, SessionTypes, Ending
<1>4. Threads'
  BY <1>2 DEF SessionInv, Threads, Before, Made, Ending
<1>5. WireIsSafe'
  BY <1>1, <1>2 DEF SessionInv, WireIsSafe, Shutting
<1>6. OneShutsDown'
  BY <1>1, <1>2 DEF SessionInv, OneShutsDown, Closes, Finals
<1>7. ReasonIsKept'
  BY <1>1, <1>2 DEF SessionInv, SessionTypes, ReasonIsKept, Unset
<1>8. AllGivenBack'
  BY <1>2 DEF SessionInv, AllGivenBack, GivenBack
<1>9. Disarmed'
  BY <1>2 DEF SessionInv, Disarmed, Closes, Finals
<1> QED
  BY <1>3, <1>4, <1>5, <1>6, <1>7, <1>8, <1>9 DEF SessionInv

LEMMA SetSupervisorKeeps == SessionInv /\ Set("supervisor") => SessionInv'
<1> SUFFICES ASSUME SessionInv, Set("supervisor") PROVE SessionInv'
  OBVIOUS
<1>1. (ArmLast' <=> ArmLast) /\ UNCHANGED <<live, held, errors, outcome, closed, wire, controller>>
  BY DEF Set, ArmLast, options, connection
<1>2. sup = "set" /\ main' = main /\ sup' = "shut" /\ stop_kind' = "doubt"
  BY DEF Set, Go, Stopped, Left
<1>3. SessionTypes'
  BY <1>1, <1>2 DEF SessionInv, SessionTypes
<1>4. Threads'
  BY <1>1, <1>2 DEF SessionInv, Threads, Unset
<1>5. WireIsSafe'
  BY <1>1, <1>2 DEF SessionInv, WireIsSafe, Unset
<1>6. OneShutsDown'
  BY <1>1, <1>2 DEF SessionInv, OneShutsDown, Unset
<1>7. ReasonIsKept'
  BY <1>1, <1>2 DEF SessionInv, OneShutsDown, ReasonIsKept, Unset
<1>8. AllGivenBack'
  BY <1>1, <1>2 DEF SessionInv, AllGivenBack, GivenBack
<1>9. Disarmed'
  BY <1>1, <1>2 DEF SessionInv, Disarmed
<1> QED
  BY <1>3, <1>4, <1>5, <1>6, <1>7, <1>8, <1>9 DEF SessionInv

LEMMA ShutMainKeeps == SessionInv /\ Shut("main") => SessionInv'
<1> SUFFICES ASSUME SessionInv, Shut("main") PROVE SessionInv'
  OBVIOUS
<1>1. (ArmLast' <=> ArmLast) /\ UNCHANGED <<live, held, errors, outcome, stop_kind, closed, wire, controller>>
  BY DEF Shut, ArmLast, options, connection
<1>2. main = "shut" /\ sup' = sup /\ main' = IF closed THEN "take" ELSE "mark"
  BY DEF Shut, Go, Stopped, Left
<1>3. SessionTypes'
  BY <1>1, <1>2 DEF SessionInv, SessionTypes, Ending
<1>4. Threads'
  BY <1>2 DEF SessionInv, Threads, Before, Made, Ending
<1>5. WireIsSafe'
  BY <1>1, <1>2 DEF SessionInv, WireIsSafe, Shutting
<1>6. OneShutsDown'
  BY <1>1, <1>2 DEF SessionInv, WireIsSafe, OneShutsDown, Closes, Finals
<1>7. ReasonIsKept'
  BY <1>1, <1>2 DEF SessionInv, ReasonIsKept, Ending, Closes, Finals
<1>8. AllGivenBack'
  BY <1>2 DEF SessionInv, AllGivenBack, GivenBack
<1>9. Disarmed'
  BY <1>2 DEF SessionInv, Disarmed, Closes, Finals
<1> QED
  BY <1>3, <1>4, <1>5, <1>6, <1>7, <1>8, <1>9 DEF SessionInv

LEMMA ShutSupervisorKeeps == SessionInv /\ Shut("supervisor") => SessionInv'
<1> SUFFICES ASSUME SessionInv, Shut("supervisor") PROVE SessionInv'
  OBVIOUS
<1>1. (ArmLast' <=> ArmLast) /\ UNCHANGED <<live, held, errors, outcome, stop_kind, closed, wire, controller>>
  BY DEF Shut, ArmLast, options, connection
<1>2. sup = "shut" /\ main' = main /\ sup' = IF closed THEN "dead" ELSE "mark"
  BY DEF Shut, Go, Stopped, Left
<1>3. SessionTypes'
  BY <1>1, <1>2 DEF SessionInv, SessionTypes
<1>4. Threads'
  BY <1>1, <1>2 DEF SessionInv, Threads, Unset
<1>5. WireIsSafe'
  BY <1>1, <1>2 DEF SessionInv, WireIsSafe, Unset
<1>6. OneShutsDown'
  BY <1>1, <1>2 DEF SessionInv, OneShutsDown, Unset
<1>7. ReasonIsKept'
  BY <1>1, <1>2 DEF SessionInv, ReasonIsKept, Unset
<1>8. AllGivenBack'
  BY <1>1, <1>2 DEF SessionInv, AllGivenBack, GivenBack
<1>9. Disarmed'
  BY <1>1, <1>2 DEF SessionInv, Disarmed
<1> QED
  BY <1>3, <1>4, <1>5, <1>6, <1>7, <1>8, <1>9 DEF SessionInv

LEMMA MarkMainKeeps == SessionInv /\ Mark("main") => SessionInv'
<1> SUFFICES ASSUME SessionInv, Mark("main") PROVE SessionInv'
  OBVIOUS
<1>1. (ArmLast' <=> ArmLast) /\ UNCHANGED <<live, held, errors, outcome, stop_kind, wire, controller>>
  BY DEF Mark, ArmLast, options, connection
<1>2. main = "mark" /\ sup' = sup /\ main' = "disarm" /\ closed' = TRUE
  BY DEF Mark, Go, Stopped, Left
<1>3. SessionTypes'
  BY <1>1, <1>2 DEF SessionInv, SessionTypes, Ending
<1>4. Threads'
  BY <1>2 DEF SessionInv, Threads, Before, Made, Ending
<1>5. WireIsSafe'
  BY <1>1, <1>2 DEF SessionInv, Threads, WireIsSafe, Made, Ending, Shutting
<1>6. OneShutsDown'
  BY <1>1, <1>2 DEF SessionInv, Threads, OneShutsDown, Ending, Closes, Finals
<1>7. ReasonIsKept'
  BY <1>1, <1>2 DEF SessionInv, ReasonIsKept, Ending, Closes, Finals
<1>8. AllGivenBack'
  BY <1>2 DEF SessionInv, AllGivenBack, GivenBack
<1>9. Disarmed'
  BY <1>2 DEF SessionInv, Disarmed, Closes, Finals
<1> QED
  BY <1>3, <1>4, <1>5, <1>6, <1>7, <1>8, <1>9 DEF SessionInv

LEMMA MarkSupervisorKeeps == SessionInv /\ Mark("supervisor") => SessionInv'
<1> SUFFICES ASSUME SessionInv, Mark("supervisor") PROVE SessionInv'
  OBVIOUS
<1>1. (ArmLast' <=> ArmLast) /\ UNCHANGED <<live, held, errors, outcome, stop_kind, wire, controller>>
  BY DEF Mark, ArmLast, options, connection
<1>2. sup = "mark" /\ main' = main /\ sup' = "disarm" /\ closed' = TRUE
  BY DEF Mark, Go, Stopped, Left
<1>3. SessionTypes'
  BY <1>1, <1>2 DEF SessionInv, SessionTypes
<1>4. Threads'
  BY <1>1, <1>2 DEF SessionInv, Threads, Unset
<1>5. WireIsSafe'
  BY <1>1, <1>2 DEF SessionInv, WireIsSafe, Unset
<1>6. OneShutsDown'
  BY <1>1, <1>2 DEF SessionInv, OneShutsDown, Unset
<1>7. ReasonIsKept'
  BY <1>1, <1>2 DEF SessionInv, ReasonIsKept, Unset
<1>8. AllGivenBack'
  BY <1>1, <1>2 DEF SessionInv, AllGivenBack, GivenBack
<1>9. Disarmed'
  BY <1>1, <1>2 DEF SessionInv, Disarmed
<1> QED
  BY <1>3, <1>4, <1>5, <1>6, <1>7, <1>8, <1>9 DEF SessionInv

LEMMA SendDisarmMainKeeps == SessionInv /\ SendDisarm("main") => SessionInv'
<1> SUFFICES ASSUME SessionInv, SendDisarm("main") PROVE SessionInv'
  OBVIOUS
<1>1. UNCHANGED <<live, held, outcome, stop_kind, closed, controller>>
  BY DEF SendDisarm, options
<1>2. main = "disarm" /\ sup' = sup /\ main' = "close" /\ errors' \in {errors, errors \cup {"disarm"}}
  BY DEF SendDisarm, Go, Left
<1>3. wire' \in Seq({"arm", "disarm", "close"}) /\ (ArmLast' => ArmLast /\ wire' = wire)
  BY Sent DEF SendDisarm, SessionInv, SessionTypes, ArmLast
<1>4. SessionTypes'
  BY <1>1, <1>2, <1>3 DEF SessionInv, SessionTypes, Ending
<1>5. Threads'
  BY <1>2 DEF SessionInv, Threads, Before, Made, Ending
<1>6. WireIsSafe'
  BY <1>1, <1>2, <1>3 DEF SessionInv, Threads, WireIsSafe, Made, Ending, Shutting
<1>7. OneShutsDown'
  BY <1>1, <1>2 DEF SessionInv, OneShutsDown, Closes, Finals
<1>8. ReasonIsKept'
  BY <1>1, <1>2 DEF SessionInv, ReasonIsKept, Ending, Closes, Finals
<1>9. AllGivenBack'
  BY <1>2 DEF SessionInv, AllGivenBack, GivenBack
<1>10. Disarmed'
  BY <1>2 DEF SessionInv, Disarmed, Closes, Finals
<1> QED
  BY <1>4, <1>5, <1>6, <1>7, <1>8, <1>9, <1>10 DEF SessionInv

LEMMA SendDisarmSupervisorKeeps == SessionInv /\ SendDisarm("supervisor") => SessionInv'
<1> SUFFICES ASSUME SessionInv, SendDisarm("supervisor") PROVE SessionInv'
  OBVIOUS
<1>1. UNCHANGED <<live, held, outcome, stop_kind, closed, controller>>
  BY DEF SendDisarm, options
<1>2. sup = "disarm" /\ main' = main /\ sup' = "close" /\ errors' = errors
  BY DEF SendDisarm, Go, Left
<1>3. wire' \in Seq({"arm", "disarm", "close"}) /\ (ArmLast' => ArmLast /\ wire' = wire)
  BY Sent DEF SendDisarm, SessionInv, SessionTypes, ArmLast
<1>4. SessionTypes'
  BY <1>1, <1>2, <1>3 DEF SessionInv, SessionTypes
<1>5. Threads'
  BY <1>1, <1>2 DEF SessionInv, Threads, Unset
<1>6. WireIsSafe'
  BY <1>2, <1>3 DEF SessionInv, WireIsSafe, Unset
<1>7. OneShutsDown'
  BY <1>2 DEF SessionInv, OneShutsDown, Unset
<1>8. ReasonIsKept'
  BY <1>1, <1>2 DEF SessionInv, ReasonIsKept, Unset
<1>9. AllGivenBack'
  BY <1>1, <1>2 DEF SessionInv, AllGivenBack, GivenBack
<1>10. Disarmed'
  BY <1>1, <1>2 DEF SessionInv, Disarmed
<1> QED
  BY <1>4, <1>5, <1>6, <1>7, <1>8, <1>9, <1>10 DEF SessionInv

LEMMA CloseSocketMainKeeps == SessionInv /\ CloseSocket("main") => SessionInv'
<1> SUFFICES ASSUME SessionInv, CloseSocket("main") PROVE SessionInv'
  OBVIOUS
<1>1. UNCHANGED <<live, errors, outcome, stop_kind, closed, controller>>
  BY DEF CloseSocket, options
<1>2. main = "close" /\ sup' = sup /\ main' = "take" /\ held' = held \ {"socket"}
  BY DEF CloseSocket, Go, Left
<1>3. wire' \in Seq({"arm", "disarm", "close"}) /\ (ArmLast' => ArmLast /\ "socket" \notin held)
  BY Sent DEF CloseSocket, SessionInv, SessionTypes, ArmLast
<1>4. SessionTypes'
  BY <1>1, <1>2, <1>3 DEF SessionInv, SessionTypes, Ending
<1>5. Threads'
  BY <1>2 DEF SessionInv, Threads, Before, Made, Ending
<1>6. WireIsSafe'
  BY <1>2, <1>3 DEF SessionInv, Threads, WireIsSafe, Made, Ending, Shutting
<1>7. OneShutsDown'
  BY <1>1, <1>2 DEF SessionInv, OneShutsDown
<1>8. ReasonIsKept'
  BY <1>1, <1>2 DEF SessionInv, ReasonIsKept, Ending, Closes, Finals
<1>9. AllGivenBack'
  BY <1>2 DEF SessionInv, AllGivenBack, GivenBack
<1>10. Disarmed'
  BY <1>2 DEF SessionInv, Disarmed, Closes, Finals
<1> QED
  BY <1>4, <1>5, <1>6, <1>7, <1>8, <1>9, <1>10 DEF SessionInv

LEMMA CloseSocketSupervisorKeeps == SessionInv /\ CloseSocket("supervisor") => SessionInv'
<1> SUFFICES ASSUME SessionInv, CloseSocket("supervisor") PROVE SessionInv'
  OBVIOUS
<1>1. UNCHANGED <<live, errors, outcome, stop_kind, closed, controller>>
  BY DEF CloseSocket, options
<1>2. sup = "close" /\ main' = main /\ sup' = "dead" /\ held' = held \ {"socket"}
  BY DEF CloseSocket, Go, Left
<1>3. wire' \in Seq({"arm", "disarm", "close"}) /\ (ArmLast' => ArmLast /\ "socket" \notin held)
  BY Sent DEF CloseSocket, SessionInv, SessionTypes, ArmLast
<1>4. SessionTypes'
  BY <1>1, <1>2, <1>3 DEF SessionInv, SessionTypes
<1>5. Threads'
  BY <1>1, <1>2 DEF SessionInv, Threads, Unset
<1>6. WireIsSafe'
  BY <1>2, <1>3 DEF SessionInv, WireIsSafe, Unset
<1>7. OneShutsDown'
  BY <1>2 DEF SessionInv, OneShutsDown
<1>8. ReasonIsKept'
  BY <1>1, <1>2 DEF SessionInv, ReasonIsKept, Unset
<1>9. AllGivenBack'
  BY <1>1, <1>2 DEF SessionInv, AllGivenBack, GivenBack
<1>10. Disarmed'
  BY <1>1, <1>2 DEF SessionInv, Disarmed
<1> QED
  BY <1>4, <1>5, <1>6, <1>7, <1>8, <1>9, <1>10 DEF SessionInv

\* A closing step gives back all it has to, or has its error.
Gives(step, what, next) ==
    /\ main = step /\ main' = next
    /\ held' \subseteq held /\ errors \subseteq errors'
    /\ held' \cap what = {} \/ step \in errors'

LEMMA ClosingSteps ==
    ASSUME CloseStep
    PROVE  \/ Gives("close_status", {"status"}, "stop_services")
           \/ Gives("stop_services", {"control", "cameras"}, "close_readers")
           \/ Gives("close_readers", {"readers"}, "remove_tmp")
           \/ Gives("remove_tmp", {"tmp"}, "close_pad")
           \/ Gives("close_pad", {"pad"}, "close_model")
           \/ Gives("close_model", {"model"}, "done")
<1>1. DOMAIN Closing = 1 .. 6 /\ Len(Closing) = 6
  BY DEF Closing
<1>2. PICK i \in 1 .. 6 :
        /\ main = Closing[i] /\ CloseNext(i)
        /\ \/ held' = held \ Returns[i] /\ UNCHANGED errors
           \/ /\ held \cap Returns[i] # {} /\ Cardinality(errors) < MaxRaises
              /\ errors' = errors \cup {Closing[i]}
              /\ \E kept \in Kept(i) : held' = (held \ Returns[i]) \cup kept
  BY <1>1 DEF CloseStep
<1>3. held' \subseteq held /\ errors \subseteq errors' /\ (held' \cap Returns[i] = {} \/ Closing[i] \in errors')
  BY <1>2 DEF Kept
<1>4. \A k \in 1 .. 5 : i = k => main' = Closing[k + 1]
  BY <1>1, <1>2 DEF CloseNext
<1>5. i = 6 => main' = "done"
  BY <1>1, <1>2 DEF CloseNext
<1>6. i = 1 => Gives("close_status", {"status"}, "stop_services")
  BY <1>2, <1>3, <1>4 DEF Gives, Closing, Returns
<1>7. i = 2 => Gives("stop_services", {"control", "cameras"}, "close_readers")
  BY <1>2, <1>3, <1>4 DEF Gives, Closing, Returns
<1>8. i = 3 => Gives("close_readers", {"readers"}, "remove_tmp")
  BY <1>2, <1>3, <1>4 DEF Gives, Closing, Returns
<1>9. i = 4 => Gives("remove_tmp", {"tmp"}, "close_pad")
  BY <1>2, <1>3, <1>4 DEF Gives, Closing, Returns
<1>10. i = 5 => Gives("close_pad", {"pad"}, "close_model")
  BY <1>2, <1>3, <1>4 DEF Gives, Closing, Returns
<1>11. i = 6 => Gives("close_model", {"model"}, "done")
  BY <1>2, <1>3, <1>5 DEF Gives, Closing, Returns
<1> QED
  BY <1>6, <1>7, <1>8, <1>9, <1>10, <1>11

LEMMA CloseStepKeeps == SessionInv /\ CloseStep => SessionInv'
<1> SUFFICES ASSUME SessionInv, CloseStep PROVE SessionInv'
  OBVIOUS
<1>1. (ArmLast' <=> ArmLast) /\ UNCHANGED <<live, sup, outcome, stop_kind, closed, wire>>
  BY DEF CloseStep, ArmLast, options
<1>2. controller' \in {"off", controller}
  BY DEF CloseStep
<1>3. /\ main \in Closes /\ main' \in (Closes \ {"close_status"}) \cup {"done"}
      /\ held' \subseteq held /\ errors \subseteq errors'
  BY ClosingSteps DEF Gives, Closes
<1>4. SessionTypes'
  BY <1>1, <1>2, <1>3 DEF SessionInv, SessionTypes, Closes, Finals
<1>5. Threads'
  BY <1>1, <1>3 DEF SessionInv, Threads, Before, Made, Closes, Ending
<1>6. WireIsSafe'
  BY <1>1, <1>2, <1>3 DEF SessionInv, WireIsSafe, Closes, Made, Shutting
<1>7. OneShutsDown'
  BY <1>1, <1>3 DEF SessionInv, OneShutsDown, Closes, Finals
<1>8. ReasonIsKept'
  BY <1>1, <1>3 DEF SessionInv, ReasonIsKept, Closes, Finals, Ending
<1>9. AllGivenBack'
  BY ClosingSteps DEF SessionInv, AllGivenBack, GivenBack, Gives
<1>10. Disarmed'
  <2>1. controller' = "armed" => controller = "armed"
    BY <1>2
  <2>2. CASE main # "final"
    BY <1>3, <2>1, <2>2 DEF SessionInv, Disarmed, Closes, Finals
  <2>3. CASE main = "final"
    BY <1>3, <2>3 DEF Closes
  <2> QED
    BY <2>2, <2>3
<1> QED
  BY <1>4, <1>5, <1>6, <1>7, <1>8, <1>9, <1>10 DEF SessionInv

LEMMA SessionStep == SessionInv /\ [SessionNext]_session => SessionInv'
<1> SUFFICES ASSUME SessionInv, [SessionNext]_session PROVE SessionInv'
  OBVIOUS
<1>1. CASE UNCHANGED session
  BY <1>1 DEF session, options, connection, SessionInv, SessionTypes, ArmLast, Threads, WireIsSafe, OneShutsDown, ReasonIsKept,
     AllGivenBack, GivenBack, Disarmed
<1>2. CASE Open \/ Ask \/ Arm \/ Asked \/ Fails \/ LeaveLoop
  BY <1>2, OpenKeeps, AskKeeps, ArmKeeps, AskedKeeps, FailsKeeps, LeaveKeeps
<1>3. CASE Ends("main")
  BY <1>3, TestMainKeeps, SetMainKeeps, ShutMainKeeps, MarkMainKeeps, SendDisarmMainKeeps, CloseSocketMainKeeps DEF Ends
<1>4. CASE Ends("supervisor")
  BY <1>4, TestSupervisorKeeps, SetSupervisorKeeps, ShutSupervisorKeeps, MarkSupervisorKeeps, SendDisarmSupervisorKeeps,
     CloseSocketSupervisorKeeps DEF Ends
<1>5. CASE Join \/ Take \/ FinalStatus \/ CloseStep
  BY <1>5, JoinKeeps, TakeKeeps, FinalKeeps, CloseStepKeeps
<1>6. CASE Pass \/ Serves \/ Breaks
  BY <1>6, PassKeeps, ServesKeeps, BreaksKeeps
<1> QED
  BY <1>1, <1>2, <1>3, <1>4, <1>5, <1>6 DEF SessionNext, CleansUp

\* A run ends disarmed, with everything given back and the true reason, or its errors say
\* what it left (Supervisor.stop and shutdown, the finally of run_live), wherever the setup
\* failed and however the steps of both threads and of the controller fall.
THEOREM RunsEndDisarmed == SessionSpec => []EndsDisarmed
<1>1. ToSet(Closing) = Closes
  <2>1. ToSet(Closing) = {Closing[k] : k \in 1 .. 6}
    BY DEF ToSet, Closing
  <2>2. \A k \in 1 .. 6 : Closing[k] \in Closes
    BY DEF Closing, Closes
  <2>3. \A step \in Closes : \E k \in 1 .. 6 : Closing[k] = step
    <3>1. 1 \in 1 .. 6 /\ 2 \in 1 .. 6 /\ 3 \in 1 .. 6 /\ 4 \in 1 .. 6 /\ 5 \in 1 .. 6 /\ 6 \in 1 .. 6
      OBVIOUS
    <3>2. Closing[1] = "close_status" /\ Closing[2] = "stop_services" /\ Closing[3] = "close_readers"
          /\ Closing[4] = "remove_tmp" /\ Closing[5] = "close_pad" /\ Closing[6] = "close_model"
      BY DEF Closing
    <3> QED
      BY <3>1, <3>2, Zenon DEF Closes
  <2> QED
    BY <2>1, <2>2, <2>3
<1>2. SessionInv => EndsDisarmed
  <2> SUFFICES ASSUME SessionInv PROVE EndsDisarmed
    OBVIOUS
  <2>1. ASSUME main \in Closes \cup {"done"}
        PROVE  /\ controller = "armed" => "final" \in errors
               /\ "socket" \in held => "join" \in errors
               /\ outcome = "finished" /\ sup # Unset /\ "join" \notin errors => stop_kind = "finished"
    BY <2>1 DEF SessionInv, Disarmed, OneShutsDown, ReasonIsKept, Finals, Closes
  <2>2. ASSUME main = "done", NEW i \in DOMAIN Closing, held \cap Returns[i] # {}
        PROVE  Closing[i] \in errors
    <3>1. DOMAIN Closing = 1 .. 6
      BY DEF Closing
    <3>2. i = 1 \/ i = 2 \/ i = 3 \/ i = 4 \/ i = 5 \/ i = 6
      BY <3>1
    <3> QED
      BY <2>2, <3>2 DEF SessionInv, AllGivenBack, GivenBack, Closing, Returns
  <2> QED
    BY <1>1, <2>1, <2>2 DEF EndsDisarmed
<1> QED
  BY <1>2, SessionBegins, SessionStep, PTL DEF SessionSpec
=============================================================================
