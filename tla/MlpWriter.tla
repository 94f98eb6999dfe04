------------------------------ MODULE MlpWriter ------------------------------
(***************************************************************************)
(* The strips of the MLP collector: MlpWriter of                           *)
(* native_stack/src/mlp_record.cpp with its only producer, the control     *)
(* loop of mlp_main.cpp and the RawCapture it installs in the IMU parser.  *)
(* The loop pushes fixed-size records into a bounded single-producer,      *)
(* single-consumer queue and never waits; a writer thread turns them into  *)
(* ".partial" files and commits a strip by renaming its manifest last.     *)
(* Besides the queue the two threads share only atomics: the state, a      *)
(* transition number and a count of refused records.  The loads and        *)
(* stores between which the other thread can change the outcome are        *)
(* separate steps.                                                         *)
(***************************************************************************)
EXTENDS Integers, Sequences, Functions

CONSTANTS
    Capacity, Reserve,  \* slots of the queue, those kept for Start and Finish
    MaxTransition, MaxRecords, MaxFaults  \* bounds: transitions, records offered, failing writes

ASSUME QueueAssumption == Capacity \in Nat /\ Reserve \in 1 .. Capacity - 1
ASSUME BoundAssumption == MaxTransition \in Nat /\ MaxRecords \in Nat /\ MaxFaults \in Nat

VARIABLES
    phase, op,         \* where the loop is in its tick, and the call it is in
    recording, failed, \* RawCapture::recording and ::failed
    current, strips,   \* the strip being captured, and what was offered to each
    refusedStart,      \* the last start() found the queue full
    queue, state, transition, dropped, quit,
    pc, record, strip, \* the writer thread: its step, its record, the Start of the open strip
    disk, hurt, faults \* the files of each strip, the strips a failure hit

loop == <<phase, op, recording, failed, current, strips, refusedStart>>
shared == <<queue, state, transition, dropped, quit>>
thread == <<pc, record, strip, disk, hurt, faults>>
vars == <<loop, shared, thread>>

Ids == 1 .. MaxTransition
Phases == {"feed", "buttons", "drive", "exit", "gone"}
States == {"Idle", "Opening", "Recording", "Closing", "Failed"}
Live == {"Opening", "Recording"}
Data == {"raw", "block", "drive"}
NoRecord == [kind |-> "none"]
StartOf(t) == [kind |-> "start", t |-> t, drops |-> dropped]
\* Mutant of FinishOf: the number before the increment, not after it.
FinishOf_Stale(t, complete) == [kind |-> "finish", t |-> t - 1, complete |-> complete]
FinishOf(t, complete) == [kind |-> "finish", t |-> t, complete |-> complete]

Outputs == <<"raw", "excitation", "drive", "session">>
NoFiles == [manifest |-> "none", kinds |-> {}, written |-> 0, last |-> 0, renamed |-> 0]
NoStrip == [drops |-> 0, offered |-> 0, kinds |-> {}, end |-> "none"]

Call == [what : {"none", "packet", "rotate"}] \cup [what : {"finish"}, complete : BOOLEAN]
        \cup [what : {"start"}, old : States]
NoCall == [what |-> "none"]
Packet == [what |-> "packet"]
Starts == [kind : {"start"}, t : Ids, drops : Nat]
Records == Starts \cup [kind : {"finish"}, t : Ids, complete : BOOLEAN] \cup [kind : Data, n : Nat]

TypeOK ==
    /\ phase \in Phases /\ op \in Call /\ recording \in BOOLEAN /\ failed \in BOOLEAN
    /\ current \in 0 .. MaxTransition /\ refusedStart \in BOOLEAN
    /\ strips \in [Ids -> [drops : Nat, offered : 0 .. MaxRecords, kinds : SUBSET Data,
                           end : {"none", "open", "saved", "spoiled"}]]
    /\ queue \in Seq(Records) /\ Len(queue) <= Capacity /\ state \in States
    /\ transition \in 0 .. MaxTransition /\ dropped \in Nat /\ quit \in BOOLEAN
    /\ pc \in {"loop", "opening", "marking", "closing", "renaming", "settling", "idling", "ended"}
    /\ record \in Records \cup {NoRecord} /\ strip \in Starts \cup {NoRecord}
    /\ disk \in [Ids -> [manifest : {"none", "incomplete", "complete"}, kinds : SUBSET Data,
                         written : Nat, last : Nat, renamed : 0 .. Len(Outputs)]]
    /\ hurt \subseteq Ids /\ faults \in 0 .. MaxFaults

Init ==
    /\ phase = "feed" /\ op = NoCall /\ recording = FALSE /\ failed = FALSE
    /\ current = 0 /\ strips = [t \in Ids |-> NoStrip] /\ refusedStart = FALSE
    /\ queue = <<>> /\ state = "Idle" /\ transition = 0 /\ dropped = 0 /\ quit = FALSE
    /\ pc = "loop" /\ record = NoRecord /\ strip = NoRecord
    /\ disk = [t \in Ids |-> NoFiles] /\ hurt = {} /\ faults = 0

-----------------------------------------------------------------------------
(* The producer's calls.                                                   *)

\* A push reads the state and the queue; a writer that fails in between drops
\* the record, as it does when it fails right after.

Accepts == state \in Live /\ Len(queue) < Capacity - Reserve

Refused == IF state \in Live /\ ~Accepts THEN dropped + 1 ELSE dropped

Offered == FoldFunction(+, 0, [t \in Ids |-> strips[t].offered])

\* push of a data record; its number stands for its sequence number or tick.
Offer(kind) ==
    LET n == strips[current].offered + 1 IN
    /\ Offered < MaxRecords
    /\ strips' = [strips EXCEPT ![current].offered = n,
                             ![current].kinds = IF Accepts THEN @ \cup {kind} ELSE @]
    /\ queue' = IF Accepts THEN Append(queue, [kind |-> kind, n |-> n]) ELSE queue
    /\ dropped' = Refused

Ended(end) == [strips EXCEPT ![current].end = IF @ = "open" THEN end ELSE @]

\* finish loads the state, then stores Closing whatever the state has become.
Finish(complete) ==
    op' = IF state \in Live THEN [what |-> "finish", complete |-> complete] ELSE NoCall
FinishStores ==
    /\ op.what = "finish" /\ op' = NoCall /\ transition' = transition + 1
    /\ \/ /\ Len(queue) < Capacity
          /\ queue' = Append(queue, FinishOf(transition', op.complete)) /\ state' = "Closing"
          /\ strips' = Ended(IF op.complete THEN "saved" ELSE "spoiled")
          /\ UNCHANGED dropped
       \/ /\ Len(queue) = Capacity
          /\ state' = "Failed" /\ dropped' = dropped + 1 /\ strips' = Ended("spoiled")
          /\ UNCHANGED queue
    /\ UNCHANGED <<phase, recording, failed, current, refusedStart, quit, thread>>

Begun(t) == [strips EXCEPT ![t] = [NoStrip EXCEPT !.drops = dropped, !.end = "open"]]

\* begin: start stores Opening, and puts the state it had loaded back when the queue is full.
Begin ==
    /\ IF state \in Live THEN UNCHANGED <<state, op>>
       ELSE /\ transition + 2 <= MaxTransition
            /\ state' = "Opening" /\ op' = [what |-> "start", old |-> state]
    /\ UNCHANGED <<recording, failed, current, strips, refusedStart, queue, transition, dropped, quit>>
BeginPushes ==
    /\ op.what = "start" /\ transition' = transition + 1
    /\ \/ /\ Len(queue) < Capacity
          /\ queue' = Append(queue, StartOf(transition'))
          /\ current' = transition' /\ strips' = Begun(transition')
          /\ recording' = TRUE /\ refusedStart' = FALSE /\ op' \in {NoCall, Packet}
          /\ UNCHANGED state
       \/ /\ Len(queue) = Capacity
          /\ state' = op.old /\ refusedStart' = TRUE /\ op' = NoCall
          /\ UNCHANGED <<queue, current, strips, recording>>
    /\ UNCHANGED <<phase, failed, dropped, quit, thread>>

\* RawCapture::packet of the strip's epoch.
CapturePacket ==
    /\ recording /\ (op = Packet \/ (op = NoCall /\ phase = "feed"))
    /\ Offer("raw")
    /\ IF Accepts THEN op' = NoCall /\ UNCHANGED <<recording, failed>>
       ELSE recording' = FALSE /\ failed' = TRUE /\ Finish(FALSE)
    /\ UNCHANGED <<phase, current, refusedStart, state, transition, quit, thread>>

\* RawCapture::packet of a new epoch: rotate, whatever the state.
Rotate ==
    /\ recording /\ op = NoCall /\ phase = "feed"
    /\ transition + 3 <= MaxTransition /\ transition' = transition + 2
    /\ state' = "Opening"
    /\ \/ /\ Len(queue) < Capacity
          /\ queue' = Append(queue, FinishOf(transition + 1, TRUE))
          /\ op' = [what |-> "rotate"] /\ strips' = Ended("saved")
          /\ UNCHANGED <<recording, failed, dropped>>
       \/ /\ Len(queue) = Capacity
          /\ dropped' = dropped + 1 /\ recording' = FALSE /\ failed' = TRUE
          /\ UNCHANGED <<queue, op, strips>>
    /\ UNCHANGED <<phase, current, refusedStart, quit, thread>>
RotateStarts ==
    /\ op.what = "rotate"
    /\ \/ /\ Len(queue) < Capacity
          /\ queue' = Append(queue, StartOf(transition))
          /\ current' = transition /\ strips' = Begun(transition) /\ op' = Packet
          /\ UNCHANGED <<recording, failed, dropped>>
       \/ /\ Len(queue) = Capacity
          /\ dropped' = dropped + 1 /\ recording' = FALSE /\ failed' = TRUE /\ op' = NoCall
          /\ UNCHANGED <<queue, current, strips>>
    /\ UNCHANGED <<phase, refusedStart, state, transition, quit, thread>>

-----------------------------------------------------------------------------
(* A tick of the collector.                                                *)

At(here, next) == phase = here /\ op = NoCall /\ phase' = next
Stop(complete) == recording' = FALSE /\ Finish(complete)

\* After the serial input: the failed handling.
Check ==
    /\ At("feed", "buttons")
    /\ IF failed \/ state = "Failed" THEN failed' = FALSE /\ Stop(FALSE)
       ELSE UNCHANGED <<failed, recording, op>>
    /\ UNCHANGED <<current, strips, refusedStart, shared, thread>>
Buttons ==
    /\ At("buttons", "drive")
    /\ \/ Stop(TRUE) /\ UNCHANGED <<failed, current, strips, refusedStart, shared>>
       \/ ~recording /\ Begin
       \/ UNCHANGED <<op, recording, failed, current, strips, refusedStart, shared>>
    /\ UNCHANGED thread

Push(kind) == Offer(kind) /\ failed' = (failed \/ ~Accepts)
\* A new excitation block precedes its first row (bound: one a strip).
PushBlock ==
    /\ At("drive", "drive") /\ recording /\ "block" \notin strips[current].kinds
    /\ Push("block")
    /\ UNCHANGED <<op, recording, current, refusedStart, state, transition, quit, thread>>
\* The row of the tick, and the strip's time limit.
PushDrive ==
    /\ At("drive", "feed")
    /\ IF recording THEN Push("drive") ELSE UNCHANGED <<failed, strips, queue, dropped>>
    /\ \/ UNCHANGED <<op, recording>>
       \/ recording /\ Stop(TRUE)
    /\ UNCHANGED <<current, refusedStart, state, transition, quit, thread>>

\* The end of the loop, and its exception path.
Exit ==
    /\ At("feed", "exit")
    /\ \E complete \in {~failed, FALSE} : Stop(complete)
    /\ UNCHANGED <<failed, current, strips, refusedStart, shared, thread>>
Shutdown ==
    /\ At("exit", "gone") /\ quit' = TRUE
    /\ UNCHANGED <<op, recording, failed, current, strips, refusedStart,
                   queue, state, transition, dropped, thread>>

-----------------------------------------------------------------------------
(* The writer thread.                                                      *)

Step(from, to) == pc = from /\ pc' = to
Open == strip # NoRecord

\* Mutant of Ends: the thread ends with the queue it finds when it is told to.
Ends_Early == quit
Ends == quit /\ queue = <<>>

\* A data record is written only into an open strip.
Written(r) ==
    IF Open THEN [disk EXCEPT ![strip.t].kinds = @ \cup {r.kind}, ![strip.t].written = @ + 1,
                              ![strip.t].last = r.n]
    ELSE disk

Pop ==
    /\ pc = "loop" /\ queue # <<>> /\ ~Ends
    /\ queue' = Tail(queue) /\ record' = Head(queue)
    /\ \/ record'.kind = "start" /\ pc' = (IF Open THEN "closing" ELSE "opening") /\ UNCHANGED disk
       \/ record'.kind = "finish" /\ pc' = (IF Open THEN "closing" ELSE "settling") /\ UNCHANGED disk
       \/ record'.kind \in Data /\ pc' = pc /\ disk' = Written(record')
    /\ UNCHANGED <<loop, state, transition, dropped, quit, strip, hurt, faults>>

\* The transition is loaded here; the state is exchanged in Mark.
Opened ==
    /\ Step("opening", IF transition = record.t THEN "marking" ELSE "loop")
    /\ strip' = record /\ disk' = [disk EXCEPT ![record.t].manifest = "incomplete"]
    /\ UNCHANGED <<loop, shared, record, hurt, faults>>
Mark ==
    /\ Step("marking", "loop")
    /\ state' = IF state = "Opening" THEN "Recording" ELSE state
    /\ UNCHANGED <<loop, queue, transition, dropped, quit, record, strip, disk, hurt, faults>>

Complete ==
    /\ record.kind = "finish" /\ record.complete
    /\ dropped = strip.drops /\ {"raw", "drive"} \subseteq disk[strip.t].kinds

\* close: flush, the manifest with its verdict, and the syncs.
Close ==
    /\ pc = "closing"
    /\ IF Complete THEN pc' = "renaming" /\ disk' = [disk EXCEPT ![strip.t].manifest = "complete"] /\ UNCHANGED strip
       ELSE /\ pc' = (IF record.kind = "start" THEN "opening" ELSE "settling")
            /\ strip' = NoRecord /\ UNCHANGED disk
    /\ UNCHANGED <<loop, shared, record, hurt, faults>>
Rename ==
    /\ pc = "renaming" /\ disk[strip.t].renamed < Len(Outputs)
    /\ disk' = [disk EXCEPT ![strip.t].renamed = @ + 1]
    /\ UNCHANGED <<loop, shared, pc, record, strip, hurt, faults>>
SyncDirectory ==
    /\ Step("renaming", "settling") /\ disk[strip.t].renamed = Len(Outputs)
    /\ strip' = NoRecord
    /\ UNCHANGED <<loop, shared, record, disk, hurt, faults>>

Settled == transition = record.t

\* After a Finish: the transition is loaded here, the state exchanged in Idle.
Settle ==
    /\ Step("settling", IF Settled THEN "idling" ELSE "loop")
    /\ UNCHANGED <<loop, shared, record, strip, disk, hurt, faults>>
Idle ==
    /\ Step("idling", "loop")
    /\ state' = IF state = "Closing" THEN "Idle" ELSE state
    /\ UNCHANGED <<loop, queue, transition, dropped, quit, record, strip, disk, hurt, faults>>

\* Any file operation of a step may fail: the exception ends the strip in fail().
Fail ==
    /\ faults < MaxFaults /\ faults' = faults + 1
    /\ pc \in {"opening", "closing", "renaming"} \/ (pc = "loop" /\ Open /\ record.kind \in Data)
    /\ pc' = "loop" /\ strip' = NoRecord /\ state' = "Failed"
    /\ hurt' = hurt \cup {r.t : r \in {x \in {record, strip} : x.kind = "start"}}
    /\ \/ UNCHANGED disk
       \/ pc = "closing" /\ Complete /\ disk' = [disk EXCEPT ![strip.t].manifest = "complete"]
    /\ UNCHANGED <<loop, queue, transition, dropped, quit, record>>

End ==
    /\ Step("loop", "ended") /\ Ends /\ strip' = NoRecord
    /\ UNCHANGED <<loop, shared, record, disk, hurt, faults>>

Collector ==
    \/ FinishStores \/ BeginPushes \/ CapturePacket \/ Rotate \/ RotateStarts
    \/ Check \/ Buttons \/ PushBlock \/ PushDrive \/ Exit \/ Shutdown
Thread ==
    \/ Pop \/ Opened \/ Mark \/ Close \/ Rename \/ SyncDirectory \/ Settle \/ Idle \/ Fail \/ End

Next == Collector \/ Thread

\* The writer thread is scheduled; what the operator does is his own.
Spec == Init /\ [][Next]_vars /\ WF_vars(Thread)

-----------------------------------------------------------------------------
(* Properties.                                                             *)

Final(t) == {Outputs[i] : i \in 1 .. disk[t].renamed}
Committed(t) == "session" \in Final(t)

\* A manifest that lost its ".partial" vouches for a whole strip, whatever
\* failed or was refused: every file has its final name, both kinds of samples
\* are there, the operator or an epoch ended it, and no record is missing
\* between two others (close, push).
CommittedIsWhole ==
    \A t \in Ids : Committed(t) =>
        /\ Final(t) = {Outputs[i] : i \in 1 .. Len(Outputs)}
        /\ disk[t].manifest = "complete" /\ strips[t].end = "saved"
        /\ {"raw", "drive"} \subseteq disk[t].kinds /\ disk[t].written = disk[t].last

\* When the collector has shut down, every strip that was saved is committed,
\* unless a record was refused since it began or a write of it failed: neither
\* a strip begun behind it nor the shutdown loses it (start, rotate, run).
SavedIsCommitted ==
    \A t \in Ids \ hurt :
        /\ pc = "ended" /\ strips[t].end = "saved" /\ strips[t].drops = dropped
        /\ {"raw", "drive"} \subseteq strips[t].kinds
        => Committed(t)

\* While a strip is captured and the writer has not failed, the writer is
\* opening or recording: the end of an earlier strip never turns the new one
\* off (the transition numbers of start, rotate and finish).
CapturedIsLive ==
    recording /\ op.what \notin {"finish", "start"} => state \in Live \cup {"Failed"}

\* The three together: a strip is captured by a live writer, committed when it is
\* saved, and whole when it is committed.
StripsAreSafe == CapturedIsLive /\ SavedIsCommitted /\ CommittedIsWhole

\* Closing ends, unless a strip could not be begun behind it (run, start).
ClosingEnds == state = "Closing" ~> state # "Closing" \/ refusedStart
=============================================================================
