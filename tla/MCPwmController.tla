--------------------------- MODULE MCPwmController ---------------------------
(***************************************************************************)
(* Values of the constants for the model-checking run of PwmController: a  *)
(* control loop and a second thread that tunes the pump and reloads.       *)
(***************************************************************************)
EXTENDS PwmController

MCCallers == {"loop", "panel"}
MCCalls == [loop |-> {"update_named", "update_named_us"},
            panel |-> {"set_pump", "reset", "disable_channels", "reload_config"}]
MCCommands == {[boom |-> 1], [boom |-> -1]}
MCDirectCommands == {[boom |-> 2100]}

Boom == [output_channel |-> 1, pulse_min |-> 1000, pulse_max |-> 2000, direction |-> 1,
         center |-> 1500, deadzone |-> 0, affects_pump |-> TRUE, toggleable |-> FALSE,
         deadband_us_pos |-> 100, deadband_us_neg |-> 100, dither_enable |-> FALSE,
         dither_amp_us |-> 50, dither_taper |-> TRUE, dither_taper_us |-> 100,
         ramp_enable |-> TRUE, ramp_limit |-> 300, ramp_skip_deadband |-> TRUE, gamma |-> 1]
Pump == [output_channel |-> 3, pulse_min |-> 1000, pulse_max |-> 2000, static_pulse_us |-> 1200,
         base_pulse_us |-> 1100, activity_gain_us |-> 300]
First == [readable |-> TRUE, names |-> Canonical \cup {"pump"}, typed |-> TRUE,
          config |-> [channels |-> [boom |-> Boom], pumps |-> {Pump}, frequency |-> 50]]
\* Another output, the other direction, an asymmetric centre, and a valve that can be disabled.
Second == [First EXCEPT !.config.channels.boom =
             [@ EXCEPT !.output_channel = 2, !.direction = -1, !.center = 1400,
                       !.ramp_enable = FALSE, !.dither_enable = TRUE, !.toggleable = TRUE], !.config.pumps = {}]
\* The pump is on the valve's output.
Clash == [First EXCEPT !.config.channels.boom.output_channel = 3]
MCFiles == {First, Second, Clash}

ASSUME MCAssumption == PumpStays /\ AllCalibrated /\ PulsesFit
=============================================================================
