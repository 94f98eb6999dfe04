----------------------------- MODULE MCRecorder -----------------------------
(***************************************************************************)
(* Values of the constants for the model-checking run of Recorder.         *)
(***************************************************************************)
EXTENDS Recorder

MCAxes == {"boom"}
=============================================================================
