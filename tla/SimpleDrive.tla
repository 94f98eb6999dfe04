----------------------------- MODULE SimpleDrive -----------------------------
(***************************************************************************)
(* reference/simple_drive.py: the operator drives the valves with a pad    *)
(* wired to the machine or a remote client, adds an excitation, and        *)
(* records strips.  The main loop runs beside the pad's monitor thread     *)
(* (Gamepad), the receiver of the remote client and the threads that       *)
(* publish the pose and buffer raw IMU frames; the last three are not in   *)
(* the repository and are modelled from how the loop uses them.            *)
(* Ctrl+C is modelled between the steps below.                             *)
(***************************************************************************)
EXTENDS Gamepad, Excitation, DriveLog

CONSTANTS
    Sessions,       \* records: source, "local" or "udp", the waveform wave, and bounds: inputs
                    \* (presses and moves, or packets), unplugs, IMU frames, and failures
                    \* (Ctrl+C, saves that fail, late ticks)
    Poses,          \* poses of the joints at the start
    Masks,          \* the buttons a remote client may hold at once
    StaleTicks,     \* COMMAND_STALE_TIMEOUT_S
    RecordTicks     \* RECORD_MINUTES

ASSUME SimpleDriveAssumption ==
    /\ Axes \subseteq Joints /\ Columns = {"sample_idx", "block", "target"}
    /\ Poses \subseteq [Joints -> Int]
    /\ Sessions \subseteq [source : {"local", "udp"}, wave : {"sine", "chirp", "stroke"},
                           inputs : Nat, unplugs : Nat, frames : Nat, failures : Nat]
    /\ {StaleTicks, RecordTicks} \subseteq Nat

VARIABLES
    source, pc, back, \* the input; what the loop is doing, and where it goes on after a save
    sticks, mask_prev, pressed, \* right_ud and the like, mask_prev, buttons just pressed
    exc, signal, \* sine_gen and what it gave in this tick
    sent,           \* what DirectController sent last
    pump,
    packet, age,    \* of the remote client: the packet not yet read ({}: none), data_age_seconds
    pose, posed,    \* the joint angles and whether they have a clock of the sensors
    capture,        \* raw IMU frames: [on, frames]
    log, is_logging, blocks, recorded, \* the DataLogger; ticks since record_start_time, -1: None
    made,           \* ghost: rows logged and frames streamed since the recording began
    file,           \* the last strips written
    driven,         \* ghost: ticks since a joint came under excitation
    frames, failures \* that may still come

loop == <<source, pc, back, sticks, mask_prev, pressed, exc, signal, sent, pump,
          packet, age, pose, posed, capture, log, is_logging, blocks, recorded, made, file,
          driven, frames, failures>>
vars == <<loop, pad>>
feed == <<packet, age, pose, posed, frames, failures>>
recorder == <<capture, log, is_logging, blocks, recorded, made, file>>

Neutral == [j \in Joints |-> 0]
Nothing == [columns |-> [c \in Columns |-> <<>>], frames |-> <<>>, blocks |-> <<>>]
\* The direction of a stroke and the sign of its overlay tell; those of the others do not.
Signs == IF exc.wave = "stroke" THEN {-1, 1} ELSE {1}
Directions == IF exc.wave = "stroke" THEN [Joints -> {-1, 1}] ELSE {exc.dir}

-----------------------------------------------------------------------------
(* 1. receive *)

\* The client shakes hands, or the pad appears within ten seconds, or the program gives up.
OpenUDP == pc' \in {"poll", "exited"}
OpenLocal == pc' = IF connected THEN "poll" ELSE "exited"
Open ==
    /\ pc = "opening"
    /\ IF source = "udp" THEN OpenUDP ELSE OpenLocal
    /\ UNCHANGED <<source, back, sticks, mask_prev, pressed, exc, signal, sent, pump,
                   feed, recorder, driven>>
    /\ UNCHANGED pad

Pressed(input) ==
    /\ sticks' = input.axes
    /\ pressed' = input.down \ mask_prev
    /\ mask_prev' = input.down
\* LocalGamepadInput.poll; the sign of an axis is part of what a position means.
LocalPoll == Pressed(Read) /\ ResetWhenAway /\ UNCHANGED packet
\* UDPInput.poll: a packet is taken once.
UDPPoll ==
    /\ IF packet = {} THEN pressed' = {} /\ UNCHANGED <<sticks, mask_prev>>
                      ELSE \E input \in packet : Pressed(input)
    /\ packet' = {} /\ UNCHANGED values
Poll ==
    /\ pc = "poll"
    /\ \/ source = "local" /\ LocalPoll
       \/ source = "udp" /\ UDPPoll
    /\ pc' = IF pressed' = {} THEN "build" ELSE "buttons"
    /\ UNCHANGED <<source, back, exc, signal, sent, pump, age, pose, posed, frames,
                   failures, recorder, driven>>
    /\ UNCHANGED <<device, listed, connected, stopped, tries, scanner, presses, unplugs>>

\* drain_imu_raw
Drained == log_imu_raw(log, capture.frames)

StartRecording ==
    /\ exc' \in {reseed(exc, d) : d \in Directions}
    /\ capture' = [on |-> TRUE, frames |-> <<>>]
    /\ log' = EmptyLog /\ blocks' = <<>> /\ is_logging' = TRUE
    /\ recorded' = 0
    /\ made' = Nothing /\ file' = Nothing

\* Mutant of StopRecording: the valves keep their command during the save.
StopRecording_KeepsValves(strip, stopping) ==
    /\ log' = strip /\ is_logging' = FALSE
    /\ exc' = disable(stopping)
    /\ UNCHANGED sent
    /\ capture' = [capture EXCEPT !.frames = <<>>]
    /\ recorded' = -1
    /\ pc' = "saving"
\* stop_recording up to the save: the strip given is the log with the drained frames.
\* record_start_time is forgotten after the save, and nothing reads it in between.
StopRecording(strip, stopping) ==
    /\ log' = strip /\ is_logging' = FALSE
    /\ exc' = disable(stopping)
    /\ sent' = Neutral
    /\ capture' = [capture EXCEPT !.frames = <<>>]
    /\ recorded' = -1
    /\ pc' = "saving"

ButtonA ==
    /\ pc = "buttons" /\ "A" \in pressed
    /\ \/ /\ ~is_logging
          /\ StartRecording /\ pc' = "rest" /\ UNCHANGED sent
       \/ /\ is_logging
          /\ StopRecording(Drained, exc) /\ UNCHANGED <<blocks, made, file>>
    /\ back' = "rest"
    /\ UNCHANGED <<source, sticks, mask_prev, pressed, signal, pump, feed, driven>>
    /\ UNCHANGED pad

\* Buttons B, X and Y and the D-pad, in this order.
Rest ==
    /\ pc = "rest" \/ (pc = "buttons" /\ "A" \notin pressed)
    /\ \E d \in Directions :
        LET toggled == IF "B" \in pressed THEN toggle(exc, d) ELSE exc
            up == IF "Up" \in pressed THEN step_target(toggled, 1, d) ELSE toggled
        IN exc' = IF "Down" \in pressed THEN step_target(up, -1, d) ELSE up
    /\ pump' = IF "X" \in pressed THEN ~pump ELSE pump
    /\ sent' = IF "Y" \in pressed THEN Neutral ELSE sent
    /\ pc' = IF "Y" \in pressed THEN "reloading" ELSE "build"
    /\ pressed' = {}
    /\ UNCHANGED <<source, back, sticks, mask_prev, signal, feed, recorder, driven>>
    /\ UNCHANGED pad
\* Time passes.
Passed(ticks, e) ==
    /\ exc' = Later(e, ticks)
    /\ age' = Within(age + ticks, 0, StaleTicks + 1)
    /\ driven' = [j \in Joints |-> IF Driven(e, j) THEN Within(driven[j] + ticks, 0, RampTicks) ELSE 0]

\* hardware.reload_config, whatever it returns.
Reloaded ==
    /\ pc = "reloading" /\ pc' = "build"
    /\ Passed(1, exc)
    /\ UNCHANGED <<source, back, sticks, mask_prev, pressed, signal, sent, pump, packet,
                   pose, posed, frames, failures, recorder>>
    /\ UNCHANGED pad
-----------------------------------------------------------------------------
(* 2. build commands, 3. send *)

LocalAge == IF connected THEN 0 ELSE StaleTicks + 1
UDPAge == age
Stale == (IF source = "local" THEN LocalAge ELSE UDPAge) > StaleTicks

\* The operator's part of the commands, without the excitation.
Manual(lost) == [j \in Joints |-> IF j \in Axes /\ ~lost THEN sticks[j] ELSE 0]

Build ==
    /\ pc = "build" /\ pc' = "log"
    /\ LET observed == observe(exc, pose, posed)
           armed == IF Stale THEN disable(observed) ELSE observed
       IN /\ exc' = Sampled(armed)
          /\ \E sign \in Signs : signal' = get_all(exc', sign)
          /\ sent' = [j \in Joints |-> Clip(Manual(Stale)[j] + signal'[j], 100)]
    /\ driven' = [j \in Joints |-> IF Driven(exc', j) THEN driven[j] ELSE 0]
    /\ UNCHANGED <<source, back, sticks, mask_prev, pressed, pump, feed, recorder>>
    /\ UNCHANGED pad
-----------------------------------------------------------------------------
(* 4. log, 5. auto-stop, 8. timing: the next tick comes in time or one late. *)

\* The sidecar's entry for the block, made at its first row; the seed is explicit, so that
\* the block's number is its key.
Sidecar(first) ==
    IF exc.block \in DOMAIN blocks THEN blocks
    ELSE [b \in DOMAIN blocks \cup {exc.block} |->
             IF b = exc.block THEN [target |-> target_joints(exc), first_sample_idx |-> first]
                              ELSE blocks[b]]

\* A row's routing; the other columns are left out.
build_row == [sample_idx |-> n_samples(log), block |-> exc.block, target |-> target_joints(exc)]

log_sample ==
    /\ blocks' = Sidecar(n_samples(log))
    /\ made' = [made EXCEPT !.columns = [c \in Columns |-> Append(@[c], build_row[c])]]
\* The log after log_sample and drain_imu_raw.
WithSample == log_imu_raw(append(log, build_row), capture.frames)

Log ==
    /\ pc = "log"
    /\ \E late \in {0, 1} :
        LET ticks == 1 + late
        IN /\ late <= failures /\ failures' = failures - late
           /\ \/ /\ ~is_logging
                 /\ Passed(ticks, exc) /\ pc' = "poll"
                 /\ UNCHANGED <<recorder, sent, back>>
              \/ /\ is_logging /\ recorded < RecordTicks
                 /\ log_sample /\ log' = WithSample
                 /\ capture' = [capture EXCEPT !.frames = <<>>]
                 /\ recorded' = IF recorded < 0 THEN -1
                                ELSE Within(recorded + ticks, 0, RecordTicks)
                 /\ Passed(ticks, exc) /\ pc' = "poll"
                 /\ UNCHANGED <<is_logging, sent, back, file>>
              \/ /\ is_logging /\ recorded >= RecordTicks
                 /\ log_sample /\ StopRecording(WithSample, Later(exc, ticks))
                 /\ age' = Within(age + ticks, 0, StaleTicks + 1)
                 /\ driven' = [j \in Joints |-> 0]
                 /\ back' = "poll" /\ UNCHANGED file
    /\ signal' = Neutral
    /\ UNCHANGED <<source, sticks, mask_prev, pressed, pump, packet, pose, posed, frames>>
    /\ UNCHANGED pad
-----------------------------------------------------------------------------
(* stop_and_save after the valves are neutral, and the way out. *)

Strips == [columns |-> write_drive_log(log), frames |-> write_imu_raw(log), blocks |-> blocks]

\* The write of the strips takes a while, and the operator's last command grows old.
Save ==
    /\ pc \in {"saving", "lastsave"}
    /\ file' = Strips
    /\ pc' = IF pc = "saving" THEN "clearing" ELSE "stopping"
    /\ age' = Within(age + 1, 0, StaleTicks + 1)
    /\ UNCHANGED <<source, back, sticks, mask_prev, pressed, exc, signal, sent, pump,
                   packet, pose, posed, frames, failures, capture, log, is_logging, blocks,
                   recorded, made, driven>>
    /\ UNCHANGED pad
\* Every sample and every frame of the recording is in the files.
Written == file.columns = made.columns /\ file.frames = made.frames
\* _clear, then stop_imu_raw_capture; what is in the files may be forgotten.
Clear ==
    /\ pc = "clearing"
    /\ log' = EmptyLog /\ blocks' = <<>>
    /\ capture' = [on |-> FALSE, frames |-> <<>>]
    /\ pc' = back
    /\ made' = Nothing /\ file' = Nothing
    /\ UNCHANGED <<source, back, sticks, mask_prev, pressed, exc, signal, sent, pump,
                   feed, is_logging, recorded, driven>>
    /\ UNCHANGED pad

Busy == {"saving", "clearing", "reloading"}
\* Ctrl+C, or a save that raises: the disk is full.  The last save stands outside a try, so
\* that an exception in it skips emergency_stop and shutdown.
Failure ==
    /\ failures > 0 /\ failures' = failures - 1
    /\ \/ /\ pc \in Busy \cup {"poll", "buttons", "rest", "build", "log"}
          /\ pc' = "finally"
       \/ /\ pc = "lastsave"
          /\ pc' = "exited"
    /\ UNCHANGED <<source, back, sticks, mask_prev, pressed, exc, signal, sent, pump,
                   packet, age, pose, posed, frames, recorder, driven>>
    /\ UNCHANGED pad

\* The rest of finally: the source is closed, the last frames are drained, and a strip that
\* is still in memory is saved with the valves neutral.
CloseSource == IF source = "local" THEN StopMonitoring ELSE UNCHANGED pad
Finally ==
    /\ pc = "finally"
    /\ CloseSource
    /\ LET strip == IF is_logging THEN Drained ELSE log
           some == n_samples(strip) > 0 \/ n_imu_raw_samples(strip) > 0
       IN /\ log' = strip
          /\ capture' = IF is_logging THEN [capture EXCEPT !.frames = <<>>] ELSE capture
          /\ is_logging' = (is_logging /\ ~some)
          /\ sent' = IF some THEN Neutral ELSE sent
          /\ pc' = IF some THEN "lastsave" ELSE "stopping"
    /\ UNCHANGED <<source, back, sticks, mask_prev, pressed, exc, signal, pump, feed,
                   blocks, recorded, made, file, driven>>
\* emergency_stop(reset_pump), stop and shutdown.
Stop ==
    /\ pc = "stopping" /\ pc' = "exited"
    /\ sent' = Neutral /\ pump' = FALSE
    /\ UNCHANGED <<source, back, sticks, mask_prev, pressed, exc, signal, feed,
                   recorder, driven>>
    /\ UNCHANGED pad
-----------------------------------------------------------------------------
(* The other threads. *)

\* The remote client sends its sticks and buttons; an unread packet is replaced.
Packet ==
    /\ source = "udp" /\ presses > 0 /\ pc \notin {"opening", "exited"}
    /\ \E a \in [Axes -> Positions], down \in Masks :
        packet' = {[axes |-> a, down |-> down]}
    /\ age' = 0 /\ presses' = presses - 1
    /\ UNCHANGED <<source, pc, back, sticks, mask_prev, pressed, exc, signal, sent,
                   pump, pose, posed, frames, failures, recorder, driven>>
    /\ UNCHANGED <<device, listed, values, connected, stopped, tries, scanner, unplugs>>

\* A frame of the IMUs: the joints under a command may have moved; only the stroke looks.
Frame ==
    /\ frames > 0 /\ frames' = frames - 1 /\ pc # "exited"
    /\ posed' = TRUE
    /\ \E moved \in SUBSET {j \in Joints : sent[j] # 0 /\ exc.wave = "stroke"} :
        pose' = [j \in Joints |->
            IF j \notin moved THEN pose[j] ELSE IF sent[j] > 0 THEN pose[j] + 1 ELSE pose[j] - 1]
    /\ capture' = IF capture.on THEN [capture EXCEPT !.frames = Append(@, frames)] ELSE capture
    /\ made' = IF is_logging /\ pc # "stopping" THEN [made EXCEPT !.frames = Append(@, frames)] ELSE made
    /\ UNCHANGED <<source, pc, back, sticks, mask_prev, pressed, exc, signal, sent,
                   pump, packet, age, log, is_logging, blocks, recorded, file, driven, failures>>
    /\ UNCHANGED pad

Pad ==
    /\ source = "local" /\ pc # "exited"
    /\ GamepadNext
    /\ UNCHANGED loop

\* A pad has been found, or a client is there, before the loop begins.
Init ==
    /\ GamepadInit
    /\ \E session \in Sessions, d \in [Joints -> {1}] :
        /\ source = session.source
        /\ exc = make_excitation(session.wave, d)
        /\ presses = session.inputs /\ unplugs = session.unplugs
        /\ frames = session.frames /\ failures = session.failures
        /\ posed \in (IF session.wave = "stroke" /\ frames > 0 THEN BOOLEAN ELSE {TRUE})
    /\ source = "udp" => device = "gone"
    /\ pc = "opening" /\ back = "poll"
    /\ sticks = [a \in Axes |-> 0] /\ mask_prev = {} /\ pressed = {}
    /\ signal = Neutral /\ sent = Neutral /\ pump = FALSE
    /\ packet = {} /\ age = StaleTicks + 1
    /\ pose \in Poses
    /\ capture = [on |-> FALSE, frames |-> <<>>]
    /\ log = EmptyLog /\ is_logging = FALSE /\ blocks = <<>> /\ recorded = -1
    /\ made = Nothing /\ file = Nothing
    /\ driven = [j \in Joints |-> 0]

Loop ==
    Open \/ Poll \/ ButtonA \/ Rest \/ Reloaded \/ Build \/ Log \/ Save \/ Clear
    \/ Finally \/ Stop
Done == pc = "exited" /\ UNCHANGED vars
Next == Loop \/ Failure \/ Packet \/ Frame \/ Pad \/ Done

Spec == Init /\ [][Next]_vars
-----------------------------------------------------------------------------
(* Properties. *)

\* While the loop is held up by a save or a reload, and once the program has ended, no valve
\* is commanded: a joint left commanded would keep moving.
BusyIsNeutral == pc \in Busy \cup {"lastsave", "exited"} => sent = Neutral

\* Every sample and every raw frame of a recording is in memory or in the files just
\* written, in order and with all its columns; between recordings, and when the program ends
\* without an error, it is in the files.
Remembered ==
    /\ Strips.columns = made.columns
    /\ write_imu_raw(log) \o (IF is_logging THEN capture.frames ELSE <<>>) = made.frames
NothingLost ==
    /\ Written \/ Remembered
    /\ pc \in {"clearing", "stopping"} \/ (pc = "poll" /\ ~is_logging) => Written

\* The labels of a strip are true: the sidecar tells for every row which joints the excitation
\* was routed to and where its block begins, and a stage of no excitation has none.
Labelled(strip) ==
    \A i \in DOMAIN strip.columns["block"] :
        LET b == strip.columns["block"][i]
        IN /\ b \in DOMAIN strip.blocks
           /\ strip.blocks[b].target = strip.columns["target"][i]
           /\ \A k \in 1..i : strip.columns["block"][k] = b <=> k > strip.blocks[b].first_sample_idx
SidecarMatches ==
    /\ pc = "log" /\ stage(exc) \in {"off", "rest"} => signal = Neutral
    /\ \A strip \in {file, Strips} : Labelled(strip)

\* A joint enters excitation through the taper: its signal never exceeds what taper and clip
\* leave of the waveform's largest, for the time since the joint came under excitation.
EntersSlowly ==
    pc = "log" => \A j \in Joints :
        signal[j] \in -Level(exc, driven[j])..Level(exc, driven[j])

\* A stroke moves nothing when one of its joints is outside its limits, and without the
\* overlay it never pushes a joint further into its margin.
StrokeTurnsBack ==
    pc = "log" /\ exc.wave = "stroke" => \A j \in Joints :
        signal[j] # 0 =>
            /\ \A k \in target_joints(exc) : exc.angles[k] \in Limits[k][1]..Limits[k][2]
            /\ exc.strokes[j] = 1 /\ exc.angles[j] >= Highest(j) => signal[j] < 0
            /\ exc.strokes[j] = 1 /\ exc.angles[j] <= Lowest(j) => signal[j] > 0

\* A recording ends by itself: it has no more samples than fit in its time, however often
\* the operator starts and stops.
RecordingIsBounded == n_samples(log) <= RecordTicks + 1

\* A recording is complete, labelled with what was done, and no longer than it may be.
RecordingIsTrue == NothingLost /\ SidecarMatches /\ RecordingIsBounded

\* The excitation never jumps at a joint that comes under it, and it drives no joint out of
\* its limits.  It may step where a stroke turns, for the overlay goes and comes untapered.
ExcitationIsGentle == EntersSlowly /\ StrokeTurnsBack
=============================================================================
