------------------------------ MODULE ImuReader ------------------------------
(***************************************************************************)
(* The firmware of the IMU reader: pico_imu_reader/main.c.  Core 0 brings  *)
(* the sensors up, calibrates them and then carries frames to the host;    *)
(* core 1 reads the sensors, watches for one that is lost and publishes    *)
(* frames through two slots without a lock.  A frame is the number of its  *)
(* publication, written in two parts and a sequence.  What a sensor        *)
(* measures is only told apart by how many reads old it is.                *)
(***************************************************************************)
EXTENDS Integers, FiniteSets

CONSTANTS
    Sensors,
    LostReads, StuckReads, \* IMU_LOST_READS, IMU_STUCK_READS
    MaxAttempts,           \* STARTUP_CALIBRATION_MAX_ATTEMPTS
    MaxFrames              \* bound: frames published

ASSUME GuardAssumption == LostReads \in Nat \ {0} /\ StuckReads \in Nat \ {0}
ASSUME ReaderAssumption == IsFiniteSet(Sensors) /\ MaxAttempts \in Nat \ {0} /\ MaxFrames \in Nat

VARIABLES
    main, attempt,             \* core 0: its step, the calibration window
    dead,                      \* the sensors that will not answer again
    bad, same, have, age,      \* core 1, per sensor: bad_reads, same_reads, have_last; reads since a new value
    core1, writing,            \* its step, the slot it fills
    lost,                      \* g_imu_lost_mask
    slots, published, slot,    \* slots, published_sequence, published_slot
    last, sequence, index, copy, \* core 0: last_sequence, and stream_copy_latest's locals
    host                       \* the last frame the host was sent

guard == <<bad, same, have, age, lost>>
bridge == <<slots, published, slot>>
transport == <<last, sequence, index, copy, host>>
reader == <<main, attempt, dead, guard, core1, writing, bridge, transport>>

Numbers == 0 .. MaxFrames
\* Bound: from this age on a value is just too old.
Frozen == LostReads * StuckReads
Slot == [a : Numbers, b : Numbers, sequence : Numbers, age : [Sensors -> 0 .. Frozen]]
Empty == [a |-> 0, b |-> 0, sequence |-> 0, age |-> [s \in Sensors |-> 0]]
Attempts == 1 .. MaxAttempts
Transporting == {"look", "load", "index", "copy", "rest", "confirm", "send", "wait"}

ReaderTypeOK ==
    /\ main \in {"usb", "init", "calibrate", "report", "launch", "failed", "lost"} \cup Transporting
    /\ attempt \in Attempts
    /\ dead \subseteq Sensors /\ lost \subseteq Sensors
    /\ bad \in [Sensors -> 0 .. LostReads] /\ same \in [Sensors -> 0 .. StuckReads]
    /\ have \in [Sensors -> BOOLEAN] /\ age \in [Sensors -> 0 .. Frozen]
    /\ core1 \in {"off", "read", "due", "fill", "number", "switch", "publish", "parked", "wedged"}
    /\ writing \in {0, 1} /\ slots \in [{0, 1} -> Slot] /\ published \in Numbers /\ slot \in {0, 1}
    /\ last \in Numbers /\ sequence \in Numbers /\ index \in {0, 1}
    /\ copy \in Slot /\ host \in Slot

ReaderInit ==
    /\ main = "usb" /\ attempt = 1 /\ dead = {}
    /\ bad = [s \in Sensors |-> 0] /\ same = [s \in Sensors |-> 0]
    /\ have = [s \in Sensors |-> FALSE] /\ age = [s \in Sensors |-> 0] /\ lost = {}
    /\ core1 = "off" /\ writing = 0 /\ slots = [i \in {0, 1} |-> Empty] /\ published = 0 /\ slot = 0
    /\ last = 0 /\ sequence = 0 /\ index = 0 /\ copy = Empty /\ host = Empty

\* A connector works loose.
SensorDies ==
    /\ \E s \in Sensors \ dead : dead' = dead \cup {s}
    /\ UNCHANGED <<main, attempt, guard, core1, writing, bridge, transport>>

-----------------------------------------------------------------------------
(* Core 0, start-up.                                                       *)

Goes(from, to) == main = from /\ main' = to
CoreOneUnchanged == UNCHANGED <<dead, guard, core1, writing, bridge>>

Connect ==
    /\ Goes("usb", "init") /\ UNCHANGED <<attempt, transport>> /\ CoreOneUnchanged
\* setup_I2C_pins and initialize_sensors; a failure is reported for ever.
Initialize ==
    /\ \/ Goes("init", "calibrate") \/ Goes("init", "failed")
    /\ UNCHANGED <<attempt, transport>> /\ CoreOneUnchanged
\* startup_calibrate_gyro_biases: a window is accepted only when every sensor passes
\* every gate; one that stops answering late in it dies in the model just after.
Calibrate ==
    /\ main = "calibrate"
    /\ \/ dead = {} /\ main' = "launch" /\ UNCHANGED attempt
       \/ attempt < MaxAttempts /\ attempt' = attempt + 1 /\ UNCHANGED main
       \/ attempt = MaxAttempts /\ main' = "failed" /\ UNCHANGED attempt
    /\ UNCHANGED transport /\ CoreOneUnchanged
Launch ==
    /\ Goes("launch", "look") /\ core1' = "read" /\ attempt' = 1
    /\ UNCHANGED <<dead, guard, writing, bridge, transport>>

-----------------------------------------------------------------------------
(* Core 1: update_loop and stream_publish_frame.                           *)

CoreZeroUnchanged == UNCHANGED <<main, attempt, transport, dead>>

\* What the reads of one pass may be: a sensor that answers no more fails or
\* repeats itself, and any other may do so now and then.  A first read is news.
Reads == {r \in [Sensors -> {"new", "same", "bad"}] :
             \A s \in Sensors : /\ s \in dead /\ have[s] => r[s] # "new"
                                /\ r[s] = "same" => have[s]}
\* Mutant of Repeats: a failed read is taken for news.
Repeats_ResetByFailure(read, count) == IF read = "same" THEN count + 1 ELSE 0
Repeats(read, count) == IF read = "same" THEN count + 1 ELSE IF read = "new" THEN 0 ELSE count
Lost(fails, repeats) == {s \in Sensors : fails[s] >= LostReads \/ repeats[s] >= StuckReads}
ReadSensors ==
    /\ core1 = "read"
    /\ \E r \in Reads :
          /\ bad' = [s \in Sensors |-> IF r[s] = "bad" THEN bad[s] + 1 ELSE 0]
          /\ same' = [s \in Sensors |-> Repeats(r[s], same[s])]
          /\ have' = [s \in Sensors |-> have[s] \/ r[s] # "bad"]
          /\ age' = [s \in Sensors |-> IF r[s] = "new" THEN 0 ELSE IF age[s] < Frozen THEN age[s] + 1 ELSE Frozen]
    /\ lost' = Lost(bad', same')
    /\ core1' = IF lost' # {} THEN "parked" ELSE "due"
    /\ UNCHANGED <<writing, bridge>> /\ CoreZeroUnchanged
\* The output period is longer than a pass.
NotDue ==
    /\ core1 = "due" /\ core1' = "read"
    /\ UNCHANGED <<guard, writing, bridge>> /\ CoreZeroUnchanged
NextSlot == 1 - slot
Begin ==
    /\ core1 = "due" /\ published < MaxFrames /\ core1' = "fill" /\ writing' = NextSlot
    /\ slots' = [slots EXCEPT ![writing'].a = published + 1]
    /\ UNCHANGED <<guard, published, slot>> /\ CoreZeroUnchanged
Fill ==
    /\ core1 = "fill" /\ core1' = "number"
    /\ slots' = [slots EXCEPT ![writing].b = published + 1, ![writing].age = age]
    /\ UNCHANGED <<guard, writing, published, slot>> /\ CoreZeroUnchanged
Number ==
    /\ core1 = "number" /\ core1' = "switch"
    /\ slots' = [slots EXCEPT ![writing].sequence = published + 1]
    /\ UNCHANGED <<guard, writing, published, slot>> /\ CoreZeroUnchanged
Switch ==
    /\ core1 = "switch" /\ core1' = "publish" /\ slot' = writing
    /\ UNCHANGED <<guard, writing, slots, published>> /\ CoreZeroUnchanged
Publish ==
    /\ core1 = "publish" /\ core1' = "read" /\ published' = published + 1
    /\ UNCHANGED <<guard, writing, slots, slot>> /\ CoreZeroUnchanged
\* The bus or the loop hangs.
Wedge ==
    /\ core1 = "read" /\ core1' = "wedged"
    /\ UNCHANGED <<guard, writing, bridge>> /\ CoreZeroUnchanged

-----------------------------------------------------------------------------
(* Core 0: usb_transport_loop and stream_copy_latest.                      *)

Look ==
    /\ main = "look" /\ main' = IF lost # {} THEN "lost" ELSE "load"
    /\ UNCHANGED <<attempt, transport>> /\ CoreOneUnchanged
Load ==
    /\ main = "load"
    /\ IF published \in {0, last} THEN main' = "wait" /\ UNCHANGED sequence
       ELSE main' = "index" /\ sequence' = published
    /\ UNCHANGED <<attempt, last, index, copy, host>> /\ CoreOneUnchanged
Index ==
    /\ Goes("index", "copy") /\ index' = slot
    /\ UNCHANGED <<attempt, last, sequence, copy, host>> /\ CoreOneUnchanged
Copy ==
    /\ Goes("copy", "rest") /\ copy' = [Empty EXCEPT !.a = slots[index].a]
    /\ UNCHANGED <<attempt, last, sequence, index, host>> /\ CoreOneUnchanged
CopyRest ==
    /\ Goes("rest", "confirm") /\ copy' = [slots[index] EXCEPT !.a = copy.a]
    /\ UNCHANGED <<attempt, last, sequence, index, host>> /\ CoreOneUnchanged
\* Mutant of Confirmed: nothing is looked at.
Confirmed_Never == TRUE
Confirmed == published = sequence /\ copy.sequence = sequence
Confirm ==
    /\ main = "confirm" /\ main' = IF Confirmed THEN "send" ELSE "load"
    /\ last' = IF Confirmed THEN sequence ELSE last
    /\ copy' = IF Confirmed THEN copy ELSE Empty
    /\ sequence' = 0 /\ index' = 0
    /\ UNCHANGED <<attempt, host>> /\ CoreOneUnchanged
\* print_output_data: the frame is dropped when the host does not keep up.
Send ==
    /\ Goes("send", "look") /\ host' \in {host, copy} /\ copy' = Empty
    /\ UNCHANGED <<attempt, last, sequence, index>> /\ CoreOneUnchanged
\* No new frame: after STREAM_STALL_US without one the stream is given up.  A loop
\* that runs publishes long before that.
Wait ==
    /\ main = "wait"
    /\ main' = IF last # 0 /\ core1 \in {"wedged", "parked"} THEN "lost" ELSE "look"
    /\ UNCHANGED <<attempt, transport>> /\ CoreOneUnchanged

-----------------------------------------------------------------------------
CoreOne == ReadSensors \/ NotDue \/ Begin \/ Fill \/ Number \/ Switch \/ Publish
CoreZero == Connect \/ Initialize \/ Calibrate \/ Launch \/ Look \/ Load \/ Index \/ Copy \/ CopyRest
            \/ Confirm \/ Send \/ Wait
ReaderNext == SensorDies \/ Wedge \/ CoreOne \/ CoreZero

\* Each core runs on its own.
ReaderSpec == ReaderInit /\ [][ReaderNext]_reader /\ WF_reader(CoreOne) /\ WF_reader(CoreZero)

-----------------------------------------------------------------------------
(* Properties.                                                             *)

\* No torn frame reaches the host: whatever core 1 writes during the copy, a frame
\* that is sent is one publication, whole (stream_copy_latest).
WholeFrames == host.a = host.sequence /\ host.b = host.sequence

\* No frozen joint: a frame that is sent never holds a value older than the guard
\* allows, also when failed and repeated reads take turns (update_loop).
FrozenIsBounded == \A s \in Sensors : host.age[s] < Frozen

\* What the firmware may send.
SoundFrames == WholeFrames /\ FrozenIsBounded

\* A sensor that answers no more ends the stream, and so does a loop that hangs after
\* the first frame: core 0 never goes on repeating what it has.
Streaming == main \in Transporting
LossIsReported ==
    /\ Streaming /\ dead # {} /\ core1 # "wedged" ~> main = "lost" \/ core1 = "wedged"
    /\ core1 = "wedged" /\ last # 0 ~> main = "lost"
=============================================================================
