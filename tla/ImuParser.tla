------------------------------ MODULE ImuParser ------------------------------
(***************************************************************************)
(* The serial parser of the IMU stream: ImuParser of core.cpp, fed once a  *)
(* tick by the control loop.  Bytes are numbers below Base, the width of   *)
(* every field is one byte, a sensor's floats are one byte (0 is a value   *)
(* that is not finite or not a unit quaternion), and the checksum is the   *)
(* sum modulo Base.  sent, taken and delivered are the history: the bytes  *)
(* fed, the frames accepted, the samples handed to the sink.               *)
(***************************************************************************)
EXTENDS Integers, Sequences, SequencesExt

CONSTANTS
    Base,          \* bytes are 0 .. Base - 1; timestamps wrap at Base
    Sync,          \* the two bytes every frame starts with
    DataType, ControlType, DescriptorType, ReportType, \* the type bytes
    Blocking,      \* control messages that block the firmware (5 .. 8)
    MaxCount, Expected, \* sensors a frame may have; sensors the parser expects
    MaxGap,        \* the largest step of the device clock within an epoch
    Capacity,      \* bytes the parser can hold
    Transmissions, \* what one read of the serial port may return
    MaxSent, MaxTicks \* bounds: bytes fed in all, ticks

Bytes == 0 .. Base - 1
Types == {DataType, ControlType, DescriptorType, ReportType}
ASSUME ByteAssumption ==
    Base \in Nat \ {0} /\ Sync \in Bytes \X Bytes /\ Types \cup Blocking \subseteq Bytes
ASSUME TypeAssumption ==
    /\ DataType \notin {ControlType, DescriptorType, ReportType}
    /\ ControlType \notin {DescriptorType, ReportType} /\ DescriptorType # ReportType
ASSUME CountAssumption == MaxCount \in Bytes /\ Expected \in 1 .. MaxCount /\ MaxGap \in Bytes
ASSUME TransmissionAssumption ==
    Transmissions \subseteq Seq(Bytes) /\ MaxSent \in Nat /\ MaxTicks \in Nat

\* frame_length: 0 for a frame that cannot be.
FrameLength(type, count) ==
    IF type = ControlType THEN 5 ELSE IF count \notin 1 .. MaxCount THEN 0 ELSE
    CASE type = DataType -> 6 + count
      [] type = DescriptorType -> 5 + count
      [] type = ReportType -> 6 + count
      [] OTHER -> 0
Longest == 6 + MaxCount
ASSUME CapacityAssumption == Capacity \in Nat /\ Capacity >= Longest

VARIABLES
    now, unfed,      \* the tick's clock, what it has read and not fed yet
    buffer,          \* buffer_, size_
    valid, received, device, epoch, \* sample_
    blocked, resets, invalid, \* firmware_blocked, resets, invalid_frames
    anchored, previous, extended, \* have_ts_, previous_ts_, extended_ts_
    seen,            \* what the loop saw when the tick began
    sent, taken, delivered

sample == <<valid, received, device, epoch>>
clock == <<anchored, previous, extended>>
history == <<sent, taken, delivered>>
vars == <<now, unfed, buffer, sample, blocked, resets, invalid, clock, seen, history>>

View == [valid |-> valid, received |-> received, blocked |-> blocked,
         resets |-> resets, invalid |-> invalid]
Sample == [device : Nat, epoch : Nat]
\* An accepted frame, by its place in sent.
Frame == [first : Nat, type : Types, count : Bytes, good : BOOLEAN]

TypeOK ==
    /\ now \in Nat /\ unfed \in Seq(Bytes) /\ buffer \in Seq(Bytes)
    /\ valid \in BOOLEAN /\ received \in Nat /\ device \in Nat /\ epoch \in Nat
    /\ blocked \in BOOLEAN /\ resets \in Nat /\ invalid \in Nat
    /\ anchored \in BOOLEAN /\ previous \in Bytes /\ extended \in Nat
    /\ seen \in [valid : BOOLEAN, received : Nat, blocked : BOOLEAN, resets : Nat, invalid : Nat]
    /\ sent \in Seq(Bytes) /\ taken \in Seq(Frame) /\ delivered \in Seq(Sample)

Init ==
    /\ now = 0 /\ unfed = <<>> /\ buffer = <<>>
    /\ valid = FALSE /\ received = 0 /\ device = 0 /\ epoch = 0
    /\ blocked = FALSE /\ resets = 0 /\ invalid = 0
    /\ anchored = FALSE /\ previous = 0 /\ extended = 0
    /\ seen = [valid |-> FALSE, received |-> 0, blocked |-> FALSE, resets |-> 0, invalid |-> 0]
    /\ sent = <<>> /\ taken = <<>> /\ delivered = <<>>

-----------------------------------------------------------------------------
(* The buffer.                                                             *)

Sum(bytes) == FoldLeft(LAMBDA a, b : a + b, 0, bytes) % Base
Synced == buffer[1] = Sync[1] /\ buffer[2] = Sync[2]
Length == FrameLength(buffer[3], buffer[4])
\* parse has nothing left to do.
Idle == IF Len(buffer) < 4 THEN TRUE ELSE Synced /\ Length # 0 /\ Len(buffer) < Length
Complete == ~Idle /\ Synced /\ Length # 0
SumHolds == Sum(SubSeq(buffer, 3, Length - 1)) = buffer[Length]

Consume(n) == buffer' = SubSeq(buffer, n + 1, Len(buffer))
ParserUnchanged == UNCHANGED <<sample, blocked, resets, clock, taken, delivered>>

\* A tick reads the port.
Read ==
    /\ unfed = <<>> /\ Idle /\ now < MaxTicks /\ now' = now + 1 /\ seen' = View
    /\ \E bytes \in Transmissions :
          /\ Len(sent) + Len(bytes) <= MaxSent
          /\ unfed' = bytes /\ sent' = sent \o bytes
    /\ UNCHANGED <<buffer, sample, blocked, resets, invalid, clock, taken, delivered>>
\* feed: one byte, for which a full buffer gives up its oldest.
Feed ==
    /\ Idle /\ unfed # <<>> /\ unfed' = Tail(unfed)
    /\ IF Len(buffer) = Capacity
       THEN buffer' = Append(Tail(buffer), Head(unfed)) /\ invalid' = invalid + 1
       ELSE buffer' = Append(buffer, Head(unfed)) /\ UNCHANGED invalid
    /\ UNCHANGED <<now, sent, seen>> /\ ParserUnchanged
Skip ==
    /\ ~Idle /\ ~Synced /\ Consume(1)
    /\ UNCHANGED <<now, unfed, invalid, seen, sent>> /\ ParserUnchanged
Unknown ==
    /\ ~Idle /\ Synced /\ Length = 0 /\ Consume(1) /\ invalid' = invalid + 1
    /\ UNCHANGED <<now, unfed, seen, sent>> /\ ParserUnchanged
\* Mutant of Corrupt: the whole frame is thrown away, not its first byte.
Corrupt_DropsFrame ==
    /\ Complete /\ ~SumHolds /\ Consume(Length)
    /\ UNCHANGED <<now, unfed, invalid, seen, sent>> /\ ParserUnchanged
Corrupt ==
    /\ Complete /\ ~SumHolds /\ Consume(1)
    /\ UNCHANGED <<now, unfed, invalid, seen, sent>> /\ ParserUnchanged

\* A report of every sensor whose calibration was accepted.
Good == buffer[4] = Expected /\ buffer[5] % 2 = 1
Accepts(type) ==
    /\ Complete /\ SumHolds /\ buffer[3] = type /\ Consume(Length)
    /\ taken' = Append(taken, [first |-> Len(sent) - Len(unfed) - Len(buffer) + 1,
                               type |-> type, count |-> buffer[4], good |-> Good])
    /\ UNCHANGED <<now, unfed, seen, sent>>

-----------------------------------------------------------------------------
(* The frames.                                                             *)

Timestamp == buffer[5]
Delta == (Timestamp - previous) % Base
Jumps == anchored /\ (Delta = 0 \/ Delta > MaxGap)
Usable == ~Jumps /\ buffer[4] = Expected /\ \A i \in 6 .. 5 + buffer[4] : buffer[i] # 0

\* parse_sample: the device clock is extended, or anchored anew after a jump.
Data ==
    /\ Accepts(DataType)
    /\ anchored' = ~Jumps /\ previous' = Timestamp
    /\ extended' = IF ~anchored THEN Timestamp ELSE IF Jumps THEN extended ELSE extended + Delta
    /\ resets' = IF Jumps THEN resets + 1 ELSE resets
    /\ valid' = Usable /\ received' = now /\ device' = extended' /\ epoch' = resets'
    /\ invalid' = IF Usable THEN invalid ELSE invalid + 1
    /\ delivered' = IF Usable THEN Append(delivered, [device |-> device', epoch |-> epoch'])
                    ELSE delivered
    /\ UNCHANGED blocked

\* Every other frame ends the stream.
EndsStream ==
    /\ valid' = FALSE /\ resets' = resets + 1
    /\ UNCHANGED <<received, device, epoch, invalid, delivered>>
Control ==
    /\ Accepts(ControlType) /\ EndsStream
    /\ blocked' = (blocked \/ buffer[4] \in Blocking) /\ UNCHANGED clock
\* A descriptor says that the device starts anew.  Mutant: the clock goes on.
Descriptor ==
    /\ Accepts(DescriptorType) /\ EndsStream
    /\ anchored' = FALSE /\ UNCHANGED <<previous, extended, blocked>>
\* Mutant of Report: its verdict is not read.
Report_AnyVerdict ==
    /\ Accepts(ReportType) /\ EndsStream /\ blocked' = FALSE /\ UNCHANGED clock
Report ==
    /\ Accepts(ReportType) /\ EndsStream
    /\ blocked' = ~Good /\ UNCHANGED clock

Parse == Skip \/ Unknown \/ Corrupt \/ Data \/ Control \/ Descriptor \/ Report
Next == Read \/ Feed \/ Parse
Spec == Init /\ [][Next]_vars

-----------------------------------------------------------------------------
(* Properties.                                                             *)

Whole(p) ==
    /\ p + 3 <= Len(sent) /\ sent[p] = Sync[1] /\ sent[p + 1] = Sync[2]
    /\ LET n == FrameLength(sent[p + 2], sent[p + 3])
       IN  /\ n # 0 /\ p + n - 1 <= Len(sent)
           /\ Sum(SubSeq(sent, p + 2, p + n - 2)) = sent[p + n - 1]
Covers(f, p) == f.first <= p /\ p < f.first + FrameLength(f.type, f.count)
Passed == Len(sent) - Len(unfed) - Len(buffer)

\* Resynchronisation loses no frame: whatever noise, cut or corrupt frame comes
\* before, a frame that arrived whole is accepted, unless it lies within another
\* accepted frame or still waits in the buffer (parse consumes one byte at a time
\* until a frame checks).
NoFrameLost == \A p \in 1 .. Passed : Whole(p) => \E i \in DOMAIN taken : Covers(taken[i], p)

\* The parser never waits with a full buffer, so feed never drops the oldest byte.
NeverFull == Idle => Len(buffer) < Capacity /\ Len(buffer) < Longest

\* Within an epoch the device clock of the delivered samples only grows, across
\* the wrap of the timestamp, noise, restarts and jumps (parse_sample, resets).
EpochsGrow ==
    \A i, j \in DOMAIN delivered :
        i < j => \/ delivered[i].epoch < delivered[j].epoch
                 \/ /\ delivered[i].epoch = delivered[j].epoch
                    /\ delivered[i].device < delivered[j].device

\* What the control loop relies on: a tick that counts no reset and no invalid frame
\* leaves the sample as it was or makes it a valid one of this tick, and a sample
\* that was not valid is only replaced by one of this tick (ControlService's
\* ParserMayTurn).
LoopSees ==
    /\ resets = seen.resets /\ invalid = seen.invalid =>
          /\ blocked = seen.blocked
          /\ \/ valid = seen.valid /\ received = seen.received
             \/ valid /\ received = now
    /\ valid /\ ~seen.valid => received = now

\* A blocked firmware is not hidden by data that follows: while the parser says
\* that it is not blocked, no blocking message came after the last good report.
BlockedIsSeen ==
    ~blocked =>
        \A i \in DOMAIN taken :
            taken[i].type = ControlType /\ taken[i].count \in Blocking =>
                \E j \in i + 1 .. Len(taken) : taken[j].type = ReportType /\ taken[j].good

\* What the loop may take a tick of the parser for, and a sample of an epoch.
TickIsSeen == LoopSees /\ BlockedIsSeen /\ EpochsGrow
\* What the parser may not lose.
NothingIsLost == NoFrameLost /\ NeverFull
=============================================================================
