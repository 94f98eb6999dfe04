---------------------------- MODULE PidCollector ----------------------------
(***************************************************************************)
(* The operator side of the PID collector: the loop of                     *)
(* native_stack/src/pid_main.cpp with its RandomCollection                 *)
(* (ik_collection.cpp), which tracks random targets with a PID controller  *)
(* a joint, and recovers inwards when the pose leaves the joint margin.    *)
(* The loop is sequential: a tick is five steps, split where it reads      *)
(* something new.  A pose is "out" of the margin, "in" the tighter range   *)
(* in which a recovery ends, or at the "edge" between them.  A PID output  *)
(* is the segment it was computed in.                                      *)
(***************************************************************************)
EXTENDS Naturals

CONSTANT Joints  \* boom, arm, bucket

VARIABLES
    scripted,    \* --scripted: input comes from stdin, which is never lost
    at,          \* the next step of the tick
    requests, sticks, fresh, reset,  \* what the tick has read: edges, sticks off centre, IMU, epoch
    active, pump, input, recording,  \* the flags of main()
    overlay,     \* excitation.enabled()
    failed,      \* capture.failed or a failed writer
    initialized, recovering, segment, held,  \* RandomCollection; held also stands for have_pid_
    frame,       \* frame.active and frame.output of the tick
    written,     \* what the valves were last told: sticks, overlay, PID
    left         \* history: the pose was out since the PID was started, and not in since

read == <<requests, sticks, fresh, reset>>
flags == <<active, pump, input, recording>>
controller == <<initialized, recovering, segment, held>>
collectorVars == <<scripted, at, read, flags, overlay, failed, controller, frame, written, left>>

Buttons == {"record", "save", "pump", "assist", "excitation"}
Places == {"out", "edge", "in"}
Segments == {"none", "random", "recovery"}
NoPid == [j \in Joints |-> "none"]
Neutral == [manual |-> FALSE, overlay |-> FALSE, assist |-> NoPid]
NoFrame == [active |-> FALSE, valid |-> FALSE, overlay |-> FALSE, assist |-> NoPid]

CollectorTypeOK ==
    /\ scripted \in BOOLEAN /\ at \in {"read", "record", "decide", "step", "write", "push", "gone"}
    /\ requests \subseteq Buttons /\ sticks \in BOOLEAN /\ fresh \in BOOLEAN /\ reset \in BOOLEAN
    /\ active \in BOOLEAN /\ pump \in BOOLEAN /\ input \in BOOLEAN /\ recording \in BOOLEAN
    /\ overlay \in BOOLEAN /\ failed \in BOOLEAN
    /\ initialized \in BOOLEAN /\ recovering \in BOOLEAN /\ segment \in Segments
    /\ held \in [Joints -> Segments]
    /\ frame \in [active : BOOLEAN, valid : BOOLEAN, overlay : BOOLEAN, assist : [Joints -> Segments]]
    /\ written \in [manual : BOOLEAN, overlay : BOOLEAN, assist : [Joints -> Segments]]
    /\ left \in BOOLEAN

\* --record-on-start may have opened a strip.
CollectorInit ==
    /\ scripted \in BOOLEAN /\ at = "read" /\ requests = {} /\ sticks = FALSE /\ fresh = FALSE /\ reset = FALSE
    /\ active = FALSE /\ pump = FALSE /\ input = TRUE /\ recording \in BOOLEAN
    /\ overlay = FALSE /\ failed = FALSE
    /\ initialized = FALSE /\ recovering = FALSE /\ segment = "none" /\ held = NoPid
    /\ frame = NoFrame /\ written = Neutral /\ left = FALSE

-----------------------------------------------------------------------------
(* RandomCollection.                                                       *)

ResetController ==
    /\ initialized' = FALSE /\ recovering' = FALSE /\ held' = NoPid
    /\ UNCHANGED segment
\* Mutant of Cleared: the PID outputs of the last segment live on.
Cleared_Kept == held
\* reset_pids: outputs, integrals and limits start anew.
Cleared == NoPid

\* The part of step() that decides the mode.
Reenters(place) == recovering /\ place = "in"
Leaves(place) == place = "out"
Recovers(place) == Leaves(place) \/ (recovering /\ ~Reenters(place))
Fresh(place) == Recovers(place) # recovering
Kept(place) == IF Fresh(place) THEN Cleared ELSE held
Mode(place) == IF Recovers(place) THEN "recovery" ELSE "random"

\* A joint's PID is computed when its period has passed, and when it has no output.
Computed(place, due) ==
    [j \in Joints |-> IF j \in due \/ Kept(place)[j] = "none" THEN Mode(place) ELSE Kept(place)[j]]

-----------------------------------------------------------------------------
(* The lambdas of main().                                                  *)

Pause == active' = FALSE /\ overlay' = FALSE /\ ResetController
Halt == Pause /\ pump' = FALSE

Go(here, next) == at = here /\ at' = next /\ UNCHANGED scripted

\* The exception path and the end of the loop: neutral, finish, shutdown.
Leave ==
    /\ at' = "gone" /\ Halt /\ recording' = FALSE /\ written' = Neutral /\ sticks' = FALSE
    /\ UNCHANGED <<scripted, requests, fresh, reset, input, frame, left>>

-----------------------------------------------------------------------------
(* A tick.                                                                 *)

\* The IMU bytes: a new epoch while recording rotates the strip or fails.
Packet ==
    /\ reset' \in {reset, reset \/ recording}
    /\ \/ UNCHANGED <<failed, recording>>
       \/ recording /\ failed' = TRUE /\ recording' = FALSE
ReadInput ==
    /\ Go("read", "record") /\ Packet
    /\ \/ /\ input /\ sticks' \in BOOLEAN
          /\ requests' \in SUBSET (IF scripted THEN Buttons ELSE Buttons \ {"save"})
          /\ UNCHANGED <<active, overlay, controller, pump, input>>
       \/ /\ input /\ ~scripted /\ input' = FALSE
          /\ requests' = {} /\ sticks' = FALSE /\ Halt
       \/ /\ ~input /\ requests' = {} /\ sticks' = FALSE
          /\ UNCHANGED <<active, overlay, controller, pump, input>>
    /\ UNCHANGED <<fresh, frame, written, left>>
Quit == at \in {"read", "record"} /\ Leave /\ UNCHANGED failed
\* The writer thread may fail at any time; the tick that finds it out ends the program.
Fails == at = "record" /\ failed /\ Leave /\ UNCHANGED failed
WriterFails ==
    /\ recording /\ ~failed /\ failed' = TRUE
    /\ UNCHANGED <<scripted, at, read, flags, overlay, controller, frame, written, left>>

Saves == "save" \in requests \/ ("record" \in requests /\ recording)
Begins(opened) == ~Saves /\ "record" \in requests /\ opened
\* On a button, or when the strip is long enough.
Ends(late) == Saves \/ (late /\ recording /\ ~reset)
Pumps(late) == (pump /\ ~reset /\ ~Ends(late)) # ("pump" \in requests)
Pauses(opened, late) ==
    reset \/ Begins(opened) \/ Ends(late) \/ ("pump" \in requests /\ ~Pumps(late))
\* A strip begins with the packet at hand, which may spoil it at once.
Serve(opened, late, spoilt) ==
    /\ Go("record", "decide") /\ ~failed
    /\ recording' = ((recording \/ (Begins(opened) /\ ~spoilt)) /\ ~Ends(late))
    /\ failed' = (Begins(opened) /\ spoilt)
    /\ sticks' = (sticks /\ ~Ends(late)) /\ pump' = Pumps(late)
    /\ IF Pauses(opened, late) THEN Pause ELSE UNCHANGED <<active, overlay, controller>>
    /\ reset' = FALSE /\ UNCHANGED <<requests, fresh, input, frame, written, left>>

Ready(usable) == usable /\ input /\ recording /\ pump
Starts(usable) == "assist" \in requests /\ Ready(usable) /\ ~sticks /\ ~active
Stops(usable) == ~Ready(usable) \/ sticks \/ ("assist" \in requests /\ active)
\* The IMU sample is looked at, then Start and B are served.
Decide(usable) ==
    /\ Go("decide", "step") /\ fresh' = usable
    /\ active' = ((active /\ ~Stops(usable)) \/ Starts(usable))
    /\ IF Stops(usable) \/ Starts(usable) THEN ResetController ELSE UNCHANGED controller
    /\ LET on == overlay /\ ~Stops(usable)
       IN overlay' = IF "excitation" \notin requests THEN on
                     ELSE ~on /\ active' /\ ~recovering'
    /\ left' = (left /\ ~Starts(usable))
    /\ UNCHANGED <<requests, sticks, reset, pump, input, recording, failed, frame, written>>

Waits ==
    /\ Go("step", "write") /\ ~active /\ frame' = NoFrame
    /\ UNCHANGED <<read, flags, overlay, failed, controller, written, left>>
\* A clock that stood still, jumped or has a gap, or an unusable pose.
Interrupted ==
    /\ Go("step", "write") /\ active /\ Pause
    /\ frame' = [NoFrame EXCEPT !.active = TRUE]
    /\ UNCHANGED <<read, pump, input, recording, failed, written, left>>
\* The inverse kinematics finds no joint target for the random reference.
Unreachable(place) ==
    /\ Go("step", "write") /\ active /\ ~Recovers(place)
    /\ initialized' = TRUE /\ recovering' = FALSE /\ segment' = "random" /\ held' = Cleared
    /\ frame' = [NoFrame EXCEPT !.active = TRUE]
    /\ left' = (left /\ place # "in")
    /\ UNCHANGED <<read, flags, overlay, failed, written>>
Step(place, due) ==
    /\ Go("step", "write") /\ active
    /\ initialized' = TRUE /\ recovering' = Recovers(place) /\ segment' = Mode(place)
    /\ held' = Computed(place, due)
    /\ overlay' = (overlay /\ ~Recovers(place))
    /\ frame' = [active |-> TRUE, valid |-> TRUE, overlay |-> overlay', assist |-> held']
    /\ left' = (place = "out" \/ (left /\ place # "in"))
    /\ UNCHANGED <<read, flags, failed, written>>

\* The guard and the valves.
Guarded ==
    /\ Go("write", "push") /\ fresh
    /\ written' = IF Ready(fresh) /\ (frame.active => frame.valid)
                  THEN [manual |-> sticks, overlay |-> frame.overlay, assist |-> frame.assist]
                  ELSE Neutral
    /\ UNCHANGED <<read, flags, overlay, failed, controller, frame, left>>
\* Without a usable pose or velocity the guard lets nothing pass.
Unguarded ==
    /\ Go("write", "push") /\ written' = Neutral /\ Pause
    /\ pump' = (pump /\ ~fresh)
    /\ UNCHANGED <<read, input, recording, failed, frame, left>>

\* The valves could not be written; the exception path tries again.
WriteFails == at = "write" /\ Leave /\ UNCHANGED failed

\* The row of the tick, refused by a full queue or a failed writer.
PushRow ==
    /\ Go("push", "read") /\ (recording => ~failed)
    /\ UNCHANGED <<read, flags, overlay, failed, controller, frame, written, left>>
Refused == at = "push" /\ recording /\ failed' = TRUE /\ Leave

CollectorNext ==
    \/ ReadInput \/ Quit \/ Fails \/ WriterFails \/ WriteFails
    \/ \E opened, late, spoilt \in BOOLEAN : Serve(opened, late, spoilt)
    \/ \E usable \in BOOLEAN : Decide(usable)
    \/ Waits \/ Interrupted \/ Guarded \/ Unguarded \/ PushRow \/ Refused
    \/ \E place \in Places : Unreachable(place) \/ \E due \in SUBSET Joints : Step(place, due)
CollectorSpec == CollectorInit /\ [][CollectorNext]_collectorVars

-----------------------------------------------------------------------------
(* Properties.                                                             *)

\* Between ticks the PID runs only into a recording, with the pump on and the
\* input there, whatever was saved, lost, switched or rotated in between (pause,
\* halt, finish).
RunsRecorded == at = "read" /\ active => recording /\ pump /\ input

\* A PID that is off is reset: it starts with no output, no overlay and no
\* recovery of the time before (pause, RandomCollection::reset).
OffIsReset == ~active => ~overlay /\ ~initialized /\ ~recovering /\ held = NoPid

\* Once the pose left the margin, and until it is back in the tighter range, the
\* valves get recovery outputs only and no overlay; outside a recovery no output
\* of one is held over, at whatever rates the joints are updated.  Off-centre
\* sticks never add to either (step, main).
RecoveryHolds ==
    at = "push" =>
        /\ \A j \in Joints : written.assist[j] \in {"none", IF left THEN "recovery" ELSE "random"}
        /\ left => ~written.overlay
        /\ written.manual => written.assist = NoPid /\ ~written.overlay

\* What the operator side of the collector promises at every step.
CollectorIsSafe == RunsRecorded /\ OffIsReset /\ RecoveryHolds
=============================================================================
