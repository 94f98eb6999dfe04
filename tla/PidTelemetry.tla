---------------------------- MODULE PidTelemetry ----------------------------
(***************************************************************************)
(* The strips of the PID collector: MlpWriter with the PidAttachment of    *)
(* native_stack/src/pid_record.cpp and the loop of pid_main.cpp as its     *)
(* producer.  Each row of a strip has a frame of controller telemetry,     *)
(* which takes a second queue beside the writer's; the writer thread finds *)
(* the frame of a row by its tick.  The loop pushes the frame before the   *)
(* row, and it ends the program where the MLP collector carries on.        *)
(***************************************************************************)
EXTENDS MlpWriter

VARIABLES
    attached,  \* the attachment's queue: the ticks of the frames
    framed,    \* the frame of this tick is pushed, its row is not
    taking     \* the writer thread has popped a row and not its frame

telemetry == <<attached, framed, taking>>
pidVars == <<vars, telemetry>>

\* The tick of the n-th record of strip t, and the order of ticks.
TickOf(t, n) == <<t, n>>
Earlier(a, b) == a[1] < b[1] \/ (a[1] = b[1] /\ a[2] < b[2])

TelemetryTypeOK ==
    /\ TypeOK /\ attached \in Seq(Nat \X Nat) /\ Len(attached) <= Capacity
    /\ framed \in BOOLEAN /\ taking \in BOOLEAN

TelemetryInit == Init /\ attached = <<>> /\ framed = FALSE /\ taking = FALSE

-----------------------------------------------------------------------------
(* A tick of the PID collector.                                            *)

\* The exception path: nothing but finish(false) and shutdown follow.
Throw == phase' = "exit" /\ failed' = TRUE /\ Stop(FALSE)

\* After the serial input: a failed recording ends the program.
RequireHealthy ==
    /\ phase = "feed" /\ op = NoCall
    /\ IF failed \/ state = "Failed" THEN Throw
       ELSE phase' = "buttons" /\ UNCHANGED <<op, recording, failed>>
    /\ UNCHANGED <<current, strips, refusedStart, shared, thread, telemetry>>

\* The frame of the tick, before its row.
PushFrame ==
    /\ phase = "drive" /\ op = NoCall /\ recording /\ ~framed /\ Offered < MaxRecords
    /\ IF Len(attached) < Capacity
       THEN /\ attached' = Append(attached, TickOf(current, strips[current].offered + 1))
            /\ framed' = TRUE /\ UNCHANGED <<phase, op, recording, failed>>
       ELSE Throw /\ UNCHANGED <<attached, framed>>
    /\ UNCHANGED <<current, strips, refusedStart, shared, thread, taking>>
PushRowOfFrame ==
    /\ phase = "drive" /\ framed /\ framed' = FALSE
    /\ Offer("drive")
    /\ IF failed \/ ~Accepts THEN Throw
       ELSE phase' = "feed" /\ UNCHANGED <<op, recording, failed>>
    /\ UNCHANGED <<current, refusedStart, state, transition, quit, thread, attached, taking>>
\* Without a recording a tick pushes nothing.
SkipRow ==
    /\ At("drive", "feed") /\ ~recording
    /\ UNCHANGED <<op, recording, failed, current, strips, refusedStart, shared, thread, telemetry>>

\* The calls, the capture, the buttons and the end are those of the MLP collector.
Shares ==
    /\ \/ FinishStores \/ BeginPushes \/ CapturePacket \/ Rotate \/ RotateStarts
       \/ Buttons \/ (~framed /\ PushBlock) \/ Exit \/ Shutdown
    /\ UNCHANGED telemetry
PidLoop == RequireHealthy \/ PushFrame \/ PushRowOfFrame \/ SkipRow \/ Shares

-----------------------------------------------------------------------------
(* The writer thread.                                                      *)

IsRow == Open /\ queue # <<>> /\ Head(queue).kind = "drive"

\* Popping a row frees its slot before its frame is taken.
PopRow ==
    /\ pc = "loop" /\ ~taking /\ IsRow
    /\ queue' = Tail(queue) /\ record' = Head(queue) /\ taking' = TRUE
    /\ UNCHANGED <<loop, state, transition, dropped, quit, pc, strip, disk, hurt, faults,
                   attached, framed>>

Sought == TickOf(strip.t, record.n)

\* Mutant of Remaining: the frame in front is taken for the row's.
Remaining_First(tick) == attached
\* Frames without a row are older than the row: take drops them.
First(tick) == CHOOSE i \in 1 .. Len(attached) + 1 :
    /\ \A k \in 1 .. i - 1 : Earlier(attached[k], tick)
    /\ i <= Len(attached) => ~Earlier(attached[i], tick)
Remaining(tick) == SubSeq(attached, First(tick), Len(attached))

Finds == LET rest == Remaining(Sought) IN rest # <<>> /\ Head(rest) = Sought

\* take: the frame of the row, or an exception that ends the strip.
TakeFrame ==
    /\ taking /\ taking' = FALSE
    /\ IF Finds
       THEN /\ attached' = Tail(Remaining(Sought)) /\ disk' = Written(record)
            /\ UNCHANGED <<state, strip, hurt>>
       ELSE /\ attached' = Remaining(Sought) /\ state' = "Failed"
            /\ strip' = NoRecord /\ hurt' = hurt \cup {strip.t}
            /\ UNCHANGED disk
    /\ UNCHANGED <<loop, queue, transition, dropped, quit, pc, record, faults, framed>>

PidThread ==
    \/ PopRow \/ TakeFrame
    \/ /\ ~taking /\ UNCHANGED telemetry
       /\ \/ ~IsRow /\ Pop
          \/ Opened \/ Mark \/ Close \/ Rename \/ SyncDirectory \/ Settle \/ Idle \/ Fail \/ End

TelemetryNext == PidLoop \/ PidThread
TelemetrySpec == TelemetryInit /\ [][TelemetryNext]_pidVars /\ WF_pidVars(PidThread)

-----------------------------------------------------------------------------
(* Properties.                                                             *)

\* Every row that is written finds its own frame, whatever was refused, failed
\* or left behind by an earlier strip: "missing PID telemetry" and "clock
\* mismatch" are never thrown (push, take).
RowsHaveTelemetry == taking => Finds
=============================================================================
