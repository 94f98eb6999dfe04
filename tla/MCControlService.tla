-------------------------- MODULE MCControlService --------------------------
(***************************************************************************)
(* Values of the constants for the model-checking runs of ControlService.  *)
(***************************************************************************)
EXTENDS ControlService

MCAxes == {"boom"}
R(v) == [a \in MCAxes |-> v]

\* One valve that ramps over the centre and swings, and one no axis commands.  A full
\* command is 4; sizes up to 1 are in the dead zone.
MCValves == {"boom", "extra1"}
Plain == [min |-> 2, center |-> 6, max |-> 10, direction |-> -1,
          deadband_pos |-> 1, deadband_neg |-> 1, curve |-> [x \in 0 .. FullCommand |-> x],
          ramp_limit |-> 0, skip_deadband |-> FALSE,
          dither_amp |-> 0, taper |-> FALSE, taper_us |-> 0]
MCCalibration ==
    [n \in MCValves |->
        IF n = "boom"
        THEN [Plain EXCEPT !.direction = 1, !.ramp_limit = 2, !.skip_deadband = TRUE,
                           !.curve = [x \in 0 .. FullCommand |-> IF x <= 1 THEN 0 ELSE x],
                           !.dither_amp = 1, !.taper = TRUE, !.taper_us = 2]
        ELSE Plain]

\* For two producers: one valve, neither ramped nor swung.
MCOneValve == {"boom"}
MCPlainCalibration == [n \in MCOneValve |-> Plain]

\* The fields every packet below shares; each shape overrides some.
Base == [op |-> "drive", wellformed |-> TRUE, deadman |-> TRUE, arm |-> FALSE, pump |-> FALSE,
         rows |-> <<>>, sent |-> 0,
         timed |-> FALSE, t0 |-> 0, observed |-> FALSE, observation |-> 0]

ArmingRow == [Base EXCEPT !.arm = TRUE, !.pump = TRUE, !.rows = <<R(0)>>]
Move == [Base EXCEPT !.rows = <<R(2)>>, !.pump = TRUE]
Release == [Base EXCEPT !.deadman = FALSE, !.rows = <<R(2)>>]
\* Three-row plans: one that starts at the receiving tick, one at its last row.
Chunk == [Base EXCEPT !.rows = <<R(-1), R(2), R(1)>>, !.pump = TRUE, !.timed = TRUE,
                      !.observed = TRUE]
LateChunk == [Chunk EXCEPT !.t0 = 2, !.observation = 1]
Malformed == [Base EXCEPT !.wellformed = FALSE]
DisarmPacket == [Base EXCEPT !.op = "disarm"]
EstopPacket == [Base EXCEPT !.op = "estop"]
StatusPacket == [Base EXCEPT !.op = "status"]

OneProducer == {ArmingRow, Chunk, LateChunk, Move}
TwoProducers == {ArmingRow, Move, Release, Malformed, DisarmPacket, EstopPacket, StatusPacket}
=============================================================================
