---------------------------- MODULE MCFrameStore ----------------------------
(***************************************************************************)
(* One run for the shared frames: a behaviour is one of the store and the  *)
(* processes that use it, or one of the recorder that pairs the frames of  *)
(* two stores, each of them the register the store implements; the other   *)
(* stays as it began.                                                      *)
(***************************************************************************)
EXTENDS FrameStore, TakeCapture, TLC

CONSTANTS w1, w2, r1, r2, pixels

VARIABLE level

TwoCameras == {w1, w2}
TwoReaders == {r1, r2}
OnePart == {pixels}
Symmetry == Permutations(TwoCameras) \cup Permutations(TwoReaders)

FramesInit == StoreInit /\ CaptureInit /\ level \in {"store", "pairs"}
FramesNext ==
    /\ \/ level = "store" /\ StoreNext /\ UNCHANGED captureVars
       \/ level = "pairs" /\ CaptureNext /\ UNCHANGED storeVars
    /\ UNCHANGED level
FramesSpec == FramesInit /\ [][FramesNext]_<<storeVars, captureVars, level>>
=============================================================================
