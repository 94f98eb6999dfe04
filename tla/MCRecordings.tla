----------------------------- MODULE MCRecordings -----------------------------
(***************************************************************************)
(* One run for the programs that write recordings: a behaviour is one of   *)
(* the takes of the recorder, of the strips of the MLP collector, or of    *)
(* those of the PID collector, and the rest stays as it began.             *)
(***************************************************************************)
EXTENDS EpisodeWriter, PidTelemetry

CONSTANT MaxPidTransition  \* bound: transitions of the PID collector

VARIABLE writes

TwoStreams == {"cam.y8", "cam.depth.zst"}

RecordingsInit == TakeInit /\ TelemetryInit /\ writes \in {"take", "strips", "pid"}
RecordingsNext ==
    /\ \/ writes = "take" /\ TakeNext /\ UNCHANGED pidVars
       \/ writes = "strips" /\ Next /\ UNCHANGED <<takeVars, telemetry>>
       \/ /\ writes = "pid" /\ TelemetryNext /\ UNCHANGED takeVars
          /\ transition' <= MaxPidTransition
    /\ UNCHANGED writes

\* The writer thread of the collector that runs.
StripThread ==
    \/ writes = "strips" /\ Thread /\ UNCHANGED telemetry
    \/ writes = "pid" /\ PidThread
RecordingsSpec ==
    /\ RecordingsInit /\ [][RecordingsNext]_<<pidVars, takeVars, writes>>
    /\ WF_takeVars(WriterThread /\ writes = "take") /\ WF_takeVars(Closes /\ writes = "take")
    /\ WF_pidVars(StripThread)
=============================================================================
