------------------------------ MODULE Recorder ------------------------------
(***************************************************************************)
(* A recording session: the loop of native_stack/src/record_main.cpp with  *)
(* its control connection, driving the core of the control service.  One   *)
(* iteration handles the buttons, sends a drive packet and asks for the    *)
(* status, then acts on the answer: it clears faults, begins, continues,   *)
(* ends or gives up a take.  In between the service ticks, other           *)
(* connections disarm or stop it, another producer drives and closes, and  *)
(* the IMU comes and goes.                                                 *)
(*                                                                         *)
(* What a take stores is TakeCapture and EpisodeWriter; the service itself *)
(* is ControlService, of which this module keeps the core and whether the  *)
(* recorder or another producer holds the lease.  The pump permission      *)
(* changes no decision here and is left out.  Time is kept as ages: the    *)
(* clock always reads Present, and the passing of time makes what is       *)
(* remembered older, up to an age beyond every limit.                      *)
(***************************************************************************)
EXTENDS SafetyCore, FiniteSets

CONSTANTS
    Present,      \* what the clock reads
    MaxStall,     \* the longest an iteration takes that ends no take
    Recovery,     \* time between two attempts to clear a fault (1 s)
    MaxTake,      \* --max-episode-s, --auto-record-s
    ArmingWait,   \* the longest wait of an automatic session for arming (20 s)
    AutoEpisodes, \* --auto-episodes
    MaxEvents     \* bound: button presses, other connections and changes of the IMU

ASSUME PresentAssumption ==
    /\ Present \in Nat /\ Present > Lease /\ Present > Decay /\ Present > ArmDuration
ASSUME HoldAssumption == ArmDuration > 0
ASSUME SessionAssumption ==
    /\ MaxStall \in Nat /\ Recovery \in Nat /\ MaxTake \in Nat
    /\ ArmingWait \in Nat /\ AutoEpisodes \in Nat \ {0} /\ MaxEvents \in Nat

VARIABLES
    core, healthy, \* the service: its core, and whether the IMU is healthy
    lessee,         \* who holds the drive lease: "none", "recorder" or "other"
    wire,          \* packets sent and not yet served
    reply, answered, \* the last status, and whether this iteration has it
    pc, after,     \* the recorder's step, and the step that follows the end of a take
    auto,          \* an automatic session
    taking,        \* there is a Writer
    pending, rearm, was_armed, imu_ready, episodes, \* locals of main (auto_done)
    stall, cleared, waiting, length, \* time since the last answer, recovery, session_start, begin
    events,        \* the events of the environment so far
    left, driven   \* history: see Served

service == <<core, healthy, lessee>>
connection == <<wire, reply, answered>>
locals == <<auto, taking, pending, rearm, was_armed, imu_ready, episodes>>
timers == <<stall, cleared, waiting, length>>
history == <<left, driven>>
vars == <<service, connection, pc, after, locals, timers, events, history>>

\* left, driven and other are history: the service does not send them.
Status == [state : SafetyState, healthy : BOOLEAN,
           left : BOOLEAN, driven : BOOLEAN, other : BOOLEAN]
Buttons == {"start", "save", "discard", "rearm"}

\* The packets of this recorder; a drive packet always holds the deadman and arm flags.
Packet(op, rows) ==
    [op |-> op, wellformed |-> TRUE, deadman |-> op = "drive", arm |-> op = "drive",
     pump |-> FALSE, rows |-> rows, sent |-> 0, timed |-> FALSE, t0 |-> 0,
     observed |-> FALSE, observation |-> 0]
DrivePacket(row) == Packet("drive", <<row>>)
DisarmPacket == Packet("disarm", <<>>)
StatusPacket == Packet("status", <<>>)
Stick == [a \in Axes |-> Full]

TypeOK ==
    /\ core \in CoreType /\ healthy \in BOOLEAN /\ lessee \in {"none", "recorder", "other"}
    /\ wire \in Seq(Shape) /\ reply \in Status /\ answered \in BOOLEAN
    /\ pc \in {"top", "drive", "status", "sample", "abandoning", "clearing", "saving",
              "end", "closing", "ended"}
    /\ after \in {"drive", "end", "closing"}
    /\ auto \in BOOLEAN /\ taking \in BOOLEAN /\ pending \in BOOLEAN /\ rearm \in BOOLEAN
    /\ was_armed \in BOOLEAN /\ imu_ready \in BOOLEAN /\ episodes \in Nat
    /\ stall \in Nat /\ cleared \in Nat /\ waiting \in Nat /\ length \in Nat /\ events \in Nat
    /\ left \in BOOLEAN /\ driven \in BOOLEAN

NoStatus ==
    [state |-> "disarmed", healthy |-> FALSE, left |-> FALSE, driven |-> FALSE, other |-> FALSE]

\* The session is set up: its first disarm is on the way, to a service that an
\* earlier session may have left in a fault, or another producer holds.
Init ==
    /\ core \in {CoreInit, Fault(CoreInit)} /\ healthy \in BOOLEAN /\ lessee \in {"none", "other"}
    /\ wire = <<DisarmPacket>> /\ reply = NoStatus /\ answered = FALSE
    /\ pc = "top" /\ after = "end"
    /\ auto \in BOOLEAN /\ pending = auto
    /\ taking = FALSE /\ rearm = FALSE /\ was_armed = FALSE
    /\ imu_ready \in BOOLEAN /\ episodes = 0
    /\ stall = 0 /\ cleared = Recovery /\ waiting = 0 /\ length = 0
    /\ events = 0 /\ left = FALSE /\ driven = FALSE

-----------------------------------------------------------------------------
(* The service.                                                            *)

Older(time) == IF time > 0 THEN time - 1 ELSE 0
Aged(c) == [c EXCEPT !.arm_started = Older(@), !.updated = Older(@),
                     !.decay_started = Older(@), !.plan.t0 = Older(@)]

\* The core goes on to c; left says whether it was ever not armed since the
\* status that began the take, or may begin it.
Becomes(c) == core' = c /\ left' = ((taking \/ answered) /\ (left \/ c.state # "armed"))

\* The next packet of the recorder.  Its drive packet is skipped while another producer
\* owns the lease; driven says whether one of this iteration was accepted by a core that
\* is armed.  A disarm is obeyed whoever owns the lease, and frees it.
\* Mutant of Listens: a drive packet is accepted whoever owns the lease.
Listens_ToAll == TRUE
Listens == lessee \in {"none", "recorder"}

Served ==
    LET p == Head(wire)
    IN  /\ wire # <<>> /\ wire' = Tail(wire)
        /\ \/ p.op = "drive" /\ Listens /\ Becomes(ReceiveDrive(core, p, Present, healthy))
              /\ driven' = (core'.state = "armed") /\ lessee' = "recorder"
              /\ UNCHANGED <<reply, answered>>
           \/ p.op = "drive" /\ ~Listens /\ UNCHANGED <<core, lessee, reply, answered, history>>
           \/ p.op = "disarm" /\ Becomes(Disarm(core)) /\ lessee' = "none"
              /\ UNCHANGED <<reply, answered, driven>>
           \/ p.op = "status"
              /\ reply' = [state |-> core.state, healthy |-> healthy,
                           left |-> taking /\ left, driven |-> driven,
                           other |-> lessee = "other"]
              /\ answered' = TRUE /\ left' = (taking /\ left)
              /\ UNCHANGED <<core, lessee, driven>>
        /\ UNCHANGED <<healthy, pc, after, locals, timers, events>>

Event == pc # "ended" /\ events < MaxEvents /\ events' = events + 1

\* The IMU is lost or comes back; the tick that notices it checks the core.
ImuTurns ==
    /\ Event /\ healthy' = ~healthy /\ Becomes(Tick(core, Present, healthy'))
    /\ UNCHANGED <<lessee, connection, pc, after, locals, timers, driven>>
\* An emergency stop of another connection, a missed deadline, a reset of the IMU, a
\* serial error; or the disarm of another connection, which frees the lease.
Stopped ==
    /\ Event
    /\ \/ Becomes(Fault(core)) /\ UNCHANGED lessee
       \/ Becomes(Disarm(core)) /\ lessee' = "none"
    /\ UNCHANGED <<healthy, connection, pc, after, locals, timers, driven>>

\* Another producer drives, centred or not, or releases its deadman, while it owns the
\* lease or nobody does; and it closes, or sends what the service refuses.
OtherDrives ==
    /\ Event /\ lessee \in {"none", "other"} /\ lessee' = "other"
    /\ \E row \in {Zero, Stick}, deadman \in BOOLEAN :
          Becomes(ReceiveDrive(core, [DrivePacket(row) EXCEPT !.deadman = deadman], Present, healthy))
    /\ UNCHANGED <<healthy, connection, pc, after, locals, timers, driven>>
OtherCloses ==
    /\ Event /\ lessee = "other" /\ lessee' = "none" /\ Becomes(Fault(core))
    /\ UNCHANGED <<healthy, connection, pc, after, locals, timers, driven>>

\* One unit passes; a status is answered within it, or times out (Throws).
Blocked == pc \in {"saving", "abandoning", "closing"}
Upto(limit, age) == IF age < limit THEN age + 1 ELSE age
Passes ==
    /\ wire = <<>> /\ pc \notin {"status", "ended"}
    /\ Blocked \/ stall < MaxStall
    /\ Becomes(Tick(Aged(core), Present, healthy))
    /\ stall' = IF Blocked THEN stall ELSE stall + 1
    /\ cleared' = Upto(Recovery, cleared)
    /\ waiting' = IF auto THEN Upto(ArmingWait + 1, waiting) ELSE waiting
    /\ length' = IF taking THEN Upto(MaxTake, length) ELSE 0
    /\ UNCHANGED <<healthy, lessee, connection, pc, after, locals, events, driven>>

-----------------------------------------------------------------------------
(* The recorder, up to the status.                                         *)

Goto(from, to) == pc = from /\ pc' = to

\* The buttons pressed since the last iteration; an automatic session has no
\* operator.  Ending a take comes before anything else.
Press ==
    \E pressed \in SUBSET Buttons :
        LET ends == pressed \cap {"save", "discard"} # {} \/ ("start" \in pressed /\ taking)
        IN  /\ auto => pressed = {}
            /\ events + Cardinality(pressed) <= MaxEvents
            /\ events' = events + Cardinality(pressed)
            /\ Goto("top", IF ends /\ taking THEN "saving" ELSE "drive")
            /\ after' = IF ends /\ taking THEN "drive" ELSE "end"
            /\ pending' = (~ends /\ (pending \/ "start" \in pressed))
            /\ rearm' = ("rearm" \in pressed /\ ~was_armed)
            /\ UNCHANGED <<service, connection, auto, taking, was_armed, imu_ready, episodes,
                           timers, history>>

\* SIGINT, SIGTERM or quit: an open take is saved first.
Quit ==
    /\ Goto("top", IF taking THEN "saving" ELSE "closing")
    /\ after' = IF taking THEN "closing" ELSE "end"
    /\ pending' = FALSE
    /\ UNCHANGED <<service, connection, auto, taking, rearm, was_armed, imu_ready, episodes,
                   timers, events, history>>

\* Mutant of Motion: the sticks are sent whatever the controller is doing.
Motion_Sticks(stick) == stick
Motion(stick) == IF was_armed THEN stick ELSE Zero

\* Mutant of Drives: a centred stick of an armed controller needs no packet.
Drives_WhenMoved(stick) == imu_ready /\ ~(was_armed /\ stick = Zero)
Drives(stick) == imu_ready

Send ==
    /\ Goto("drive", "status") /\ rearm' = FALSE /\ answered' = FALSE /\ driven' = FALSE
    /\ \E stick \in {Zero, Stick} :
          wire' = wire \o (IF rearm THEN <<DisarmPacket>> ELSE <<>>)
                       \o (IF Drives(stick) THEN <<DrivePacket(Motion(stick))>> ELSE <<>>)
                       \o <<StatusPacket>>
    /\ UNCHANGED <<service, reply, after, auto, taking, pending, was_armed, imu_ready, episodes,
                   timers, events, left>>

-----------------------------------------------------------------------------
(* The recorder, from the status on.                                       *)

\* What every answer changes.
Answered(to) ==
    /\ answered /\ Goto("status", to) /\ answered' = FALSE
    /\ was_armed' = (reply.state = "armed") /\ imu_ready' = reply.healthy
    /\ stall' = 0
    /\ UNCHANGED <<service, reply, after, auto, rearm, episodes, waiting, events, history>>

\* A fault ends the take, if there is one, and is cleared; an automatic session
\* throws instead (abandon's require, and the loop's own).
SeesFault ==
    /\ reply.state = "fault" /\ ~auto /\ Answered(IF taking THEN "abandoning" ELSE "clearing")
    /\ UNCHANGED <<wire, taking, pending, cleared, length>>
Clear ==
    /\ Goto("clearing", "end")
    /\ IF cleared >= Recovery THEN cleared' = 0 /\ wire' = <<DisarmPacket>>
                              ELSE UNCHANGED <<cleared, wire>>
    /\ UNCHANGED <<service, reply, answered, after, locals, stall, waiting, length, events, history>>

\* Writer::abandon has joined its thread; the take stays ".partial".
Abandoned ==
    /\ Goto("abandoning", IF reply.state = "fault" THEN "clearing" ELSE "end")
    /\ taking' = FALSE /\ pending' = FALSE
    /\ UNCHANGED <<service, connection, after, auto, rearm, was_armed, imu_ready, episodes,
                   timers, events, history>>

Healthy == reply.healthy /\ reply.state = "armed"

Begin ==
    /\ pending /\ ~taking /\ Healthy /\ Answered("sample")
    /\ taking' = TRUE /\ pending' = FALSE /\ length' = 0
    /\ UNCHANGED <<wire, cleared>>

\* The controller is no longer armed and healthy.
Lost == ~Healthy

Lose ==
    /\ taking /\ Lost /\ reply.state # "fault" /\ ~auto /\ Answered("abandoning")
    /\ UNCHANGED <<wire, taking, pending, cleared, length>>
GoOn ==
    /\ reply.state # "fault" /\ ~(pending /\ Healthy) /\ ~(taking /\ Lost)
    /\ Answered(IF taking THEN "sample" ELSE "end")
    /\ UNCHANGED <<wire, taking, pending, cleared, length>>

\* A row is pushed with this status, and the take may have its length.
Sample ==
    /\ Goto("sample", IF length >= MaxTake THEN "saving" ELSE "end") /\ after' = "end"
    /\ UNCHANGED <<service, connection, locals, timers, events, history>>

\* An automatic take that had its length, and what follows it.
Last == auto /\ after = "end" /\ episodes + 1 >= AutoEpisodes
Another == auto /\ after = "end" /\ episodes + 1 < AutoEpisodes

\* Writer::finish has saved or discarded the take, however long it took.
Finished ==
    /\ Goto("saving", IF Last THEN "closing" ELSE after) /\ after' = "end"
    /\ taking' = FALSE /\ pending' = Another /\ waiting' = IF Another THEN 0 ELSE waiting
    /\ episodes' = IF Last \/ Another THEN episodes + 1 ELSE episodes
    /\ UNCHANGED <<service, connection, auto, rearm, was_armed, imu_ready,
                   stall, cleared, length, events, history>>

Overdue == auto /\ ~taking /\ pending /\ waiting > ArmingWait

EndIteration ==
    /\ Goto("end", "top") /\ ~Overdue /\ reply' = NoStatus
    /\ driven' = FALSE /\ left' = (taking /\ left)
    /\ UNCHANGED <<service, wire, answered, after, locals, timers, events>>

\* What throws: the pad, a send, a status that does not come, a camera, the disk,
\* a fault or a lost take of an automatic session, its wait for arming.  The
\* take stays ".partial".
Throws ==
    /\ pc \notin {"closing", "ended"} /\ pc' = "closing"
    /\ wire' = Append(wire, DisarmPacket) /\ taking' = FALSE /\ reply' = NoStatus
    /\ answered' = FALSE /\ driven' = FALSE /\ left' = FALSE /\ after' = "end" /\ rearm' = FALSE
    /\ UNCHANGED <<service, auto, pending, was_armed, imu_ready, episodes, timers, events>>

\* ~Control; the connection closes after the service has taken its packets.
Close ==
    /\ Goto("closing", "ended") /\ wire' = wire \o <<DisarmPacket, StatusPacket>>
    /\ UNCHANGED <<service, reply, answered, after, locals, timers, events, history>>

Loop == Press \/ Quit \/ Send \/ SeesFault \/ Clear \/ Begin \/ Lose \/ Abandoned \/ GoOn \/ Sample
        \/ Finished \/ EndIteration \/ Throws \/ Close
Next == Loop \/ Served \/ ImuTurns \/ Stopped \/ OtherDrives \/ OtherCloses \/ Passes

\* The recorder and the service are scheduled, and time passes.
Spec == Init /\ [][Next]_vars /\ WF_vars(Loop) /\ WF_vars(Served) /\ SF_vars(Passes)

-----------------------------------------------------------------------------
(* Properties.                                                             *)

\* The rows of a take belong to one uninterrupted time in which the controller was
\* armed: a hold that was lost between two statuses cannot be back at the second one,
\* because the recorder asks after every drive packet and arming takes more than one
\* (record_main's loop, ControlCore::receive).  That is so of the recorder's own hold;
\* another producer that holds the lease at the status may have re-armed in between.
OneHold == pc = "sample" /\ ~reply.other => ~reply.left

\* The drive packet a row names was sent in the row's own iteration and accepted by the
\* armed controller, also when the IMU, foreign stops or another producer came and went
\* in between (requested_sequence, imu_ready); unless another producer holds the lease at
\* the status, whose motion is then what the row shows.
RowsHaveTheirDrive == pc = "sample" /\ ~reply.other => reply.driven

\* An automatic session ends, whatever the IMU, the controller and the takes do:
\* with its episodes, by the wait for arming, or with an error.
AutoEnds == auto ~> pc = "ended"

\* Once disturbances cease, the recorder clears a fault by itself and the controller
\* is armed for good, whatever the operator holds the sticks at, whenever the fault
\* came and however long a take took to save, unless the session or the IMU is gone, or
\* another producer that fell silent before it armed keeps the lease and nobody disarms.
Rearms == \/ <>(pc = "ended") \/ []<>(~healthy) \/ <>[](core.state = "armed")
          \/ <>[](lessee = "other" /\ core.state = "disarmed")

\* Neither a session nor a machine is left waiting: the session ends and the arm comes back.
NeverStuck == AutoEnds /\ Rearms
=============================================================================
