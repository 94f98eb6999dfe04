-------------------------- MODULE Recordings_proofs --------------------------
(***************************************************************************)
(* The programs that write recordings, for any queues, streams and bounds. *)
(* A take of the recorder (EpisodeWriter): what is shown is complete, and  *)
(* the files, the syncs and the rename implement one atomic commit         *)
(* (TakeCommit).  A strip of the MLP collector (MlpWriter): it is captured *)
(* by a live writer, committed when it is saved, whole when committed.  A  *)
(* strip of the PID collector (PidTelemetry): every row meets its frame.   *)
(***************************************************************************)
EXTENDS EpisodeWriter, PidTelemetry, SequenceTheorems, TLAPS

-----------------------------------------------------------------------------
(* A take (EpisodeWriter).                                                 *)

Item == [image : BOOLEAN, frames : Nat]
Image(item) == IF item.image THEN 1 ELSE 0

\* How far the loop, the thread and the directory have come together.
StageInv ==
    /\ main = "idle" => /\ thread_ = "none" /\ name = "none" /\ rows = 0 /\ frames = 0
                        /\ content = [f \in Files |-> 0] /\ ~failed_ /\ broken = {} /\ queue_ = <<>>
                        /\ counted = [s \in Streams |-> 0]
    /\ main \in {"idle", "recording"} => ~done
    /\ main = "recording" => thread_ = "running" \/ failed_
    /\ thread_ = "running" => main \in {"recording", "joining"} /\ ~failed_
    /\ thread_ = "ended" /\ ~failed_ /\ main # "dead" => queue_ = <<>>

\* What is written and what is queued are together what was pushed: the records in
\* the queue continue the count of images that the thread has reached.
QueueInv ==
    /\ \A i \in 1 .. Len(queue_) - 1 : queue_[i + 1].frames = queue_[i].frames + Image(queue_[i + 1])
    /\ queue_ # <<>> => queue_[Len(queue_)].frames = frames
    /\ ~failed_ /\ main # "dead" =>
          \A s \in Streams : IF queue_ = <<>> THEN counted[s] = frames
                             ELSE counted[s] + Image(queue_[1]) = queue_[1].frames
    /\ ~failed_ /\ main \in {"recording", "joining"} =>
          /\ content[Rows] + Len(queue_) = rows /\ content[Summary] = 0 /\ broken = {}
          /\ \A s \in Streams : content[s] = counted[s]

\* A take is complete before its files are synced, and synced before it is renamed.
WholeTake ==
    /\ save = "save" /\ ~failed_ /\ frames > 0 /\ content[Rows] = rows
    /\ \A s \in Streams : content[s] = frames
CommitInv ==
    /\ main \in {"summary", "syncing", "renaming"} => WholeTake
    /\ main \in {"syncing", "renaming"} \/ name = "ready" => content[Summary] = 1
    /\ main = "renaming" \/ name = "ready" => Files \cup {Directory} \subseteq synced
    /\ Directory \in synced => Files \subseteq synced
    /\ name = "ready" => WholeTake /\ main \in {"committing", "saved", "kept", "dead"}
    /\ main \in {"committing", "saved"} => name = "ready"
    /\ told \/ Session \in synced => told /\ name = "ready" /\ Session \in synced

LEMMA FileFacts ==
    /\ Rows \in Files /\ Summary \in Files /\ Streams \subseteq Files /\ Rows # Summary
    /\ \A s \in Streams : s # Rows /\ s # Summary
    /\ \A f \in Files : f \in Streams \/ f = Rows \/ f = Summary
    /\ Directory \notin Files /\ Session \notin Files /\ Directory # Session
    /\ MaxRows \in Nat /\ QueueLimit \in Nat /\ QueueLimit > 0
BY StreamAssumption, LimitAssumption DEF Files, Rows, Summary, Directory, Session

LEMMA SpoiledFacts ==
    ASSUME NEW wanted, NEW lost, NEW c \in Spoiled(wanted, lost)
    PROVE  /\ c \in [Files -> Nat]
           /\ \A f \in Files : f \notin lost => c[f] = wanted[f]
<1>1. c \in [Files -> 0 .. MaxRows] /\ \A f \in Files : f \notin lost => c[f] = wanted[f]
  BY DEF Spoiled
<1> QED
  BY <1>1, FileFacts

LEMMA LeftFacts ==
    ASSUME NEW sure, Left(sure)
    PROVE  content' \in [Files -> Nat] /\ \A f \in Files \cap sure : content'[f] = content[f]
<1>1. content' \in [Files -> 0 .. MaxRows] /\ \A f \in Files \cap sure : content'[f] = content[f]
  BY DEF Left
<1> QED
  BY <1>1, FileFacts

\* What the head of the queue leaves.
LEMMA QueueFacts ==
    ASSUME NEW q \in Seq(Item), q # <<>>
    PROVE  /\ Head(q) = q[1] /\ Head(q) \in Item /\ Tail(q) \in Seq(Item) /\ Len(Tail(q)) = Len(q) - 1
           /\ \A i \in 1 .. Len(q) - 1 : Tail(q)[i] = q[i + 1]
           /\ Len(q) \in Nat /\ Len(q) > 0 /\ (Tail(q) = <<>> <=> Len(q) = 1)
<1>1. Len(q) \in Nat /\ Len(q) > 0 /\ Head(q) = q[1] /\ q[1] \in Item
  OBVIOUS
<1>2. Tail(q) \in Seq(Item) /\ Len(Tail(q)) = Len(q) - 1
  BY <1>1
<1>3. \A i \in 1 .. Len(q) - 1 : Tail(q)[i] = q[i + 1]
  BY <1>1
<1>4. Tail(q) = <<>> <=> Len(q) = 1
  BY <1>1, <1>2, EmptySeq
<1> QED
  BY <1>1, <1>2, <1>3, <1>4

\* Every variable of a take keeps its type, whatever fails.
LEMMA TakeTypeStep == TakeTypeOK /\ [TakeNext]_takeVars => TakeTypeOK'
<1> SUFFICES ASSUME TakeTypeOK, [TakeNext]_takeVars PROVE TakeTypeOK'
  OBVIOUS
<1> USE FileFacts DEF TakeTypeOK, Steps, Outcomes, progress, worker, directory, Goto
<1>1. CASE OpenTake \/ OpenFails
  BY <1>1 DEF OpenTake, OpenFails
<1>2. ASSUME NEW image \in BOOLEAN, PushRow(image) PROVE TakeTypeOK'
  <2>1. /\ rows' = rows + 1 /\ frames' = frames + (IF image THEN 1 ELSE 0) /\ rows < MaxRows
        /\ queue_' = Append(queue_, [image |-> image, frames |-> frames']) /\ Len(queue_) < QueueLimit
        /\ UNCHANGED <<main, save, done, worker, directory>>
    BY <1>2 DEF PushRow, HasRoom
  <2>2. rows' \in 0 .. MaxRows /\ frames' \in 0 .. rows' /\ frames' \in Nat
    BY <2>1
  <2>3. [image |-> image, frames |-> frames'] \in [image : BOOLEAN, frames : Nat]
    BY <2>2
  <2>4. queue_' \in Seq([image : BOOLEAN, frames : Nat]) /\ Len(queue_') <= QueueLimit
    BY <2>1, <2>3
  <2> QED
    BY <2>1, <2>2, <2>4
<1>3. CASE FinishTake \/ Abandon
  BY <1>3 DEF FinishTake, Abandon, Leave
<1>4. CASE Joined
  BY <1>4 DEF Joined
<1>5. CASE Discard
  <2>1. content' \in [Files -> Nat]
    BY <1>5 DEF Discard
  <2> QED
    BY <1>5, <2>1 DEF Discard
<1>6. CASE WriteSummary
  BY <1>6 DEF WriteSummary
<1>7. CASE (\E f \in Files : SyncFile(f)) \/ SyncPartial
  BY <1>7 DEF SyncFile, SyncPartial
<1>8. CASE RenameTake \/ SyncSession
  <2>1. CASE RenameTake
    BY <2>1 DEF RenameTake
  <2>2. CASE SyncSession
    BY <2>2 DEF SyncSession
  <2> QED
    BY <1>8, <2>1, <2>2
<1>9. CASE WriteRecord \/ CompressFails
  <2>1. /\ thread_ = "running" /\ queue_ # <<>> /\ queue_' = Tail(queue_)
        /\ thread_' \in {"running", "ended"} /\ failed_' \in BOOLEAN
        /\ UNCHANGED <<progress, done, synced, name, told>>
    BY <1>9 DEF WriteRecord, CompressFails
  <2>2. queue_' \in Seq(Item) /\ Len(queue_') <= QueueLimit
    BY <2>1, QueueFacts DEF Item
  <2>3. content' \in [Files -> Nat]
    BY <1>9, SpoiledFacts DEF WriteRecord, CompressFails
  <2>4. counted' \in [Streams -> Nat]
    <3>1. CASE WriteRecord
      BY <3>1 DEF WriteRecord
    <3>2. CASE CompressFails
      BY <3>2 DEF CompressFails
    <3> QED
      BY <1>9, <3>1, <3>2
  <2>5. broken' \subseteq Files
    <3>1. broken' = broken \/ \E lost \in SUBSET (Streams \cup {Rows}) : broken' = broken \cup lost
      BY <1>9 DEF WriteRecord, CompressFails
    <3> QED
      BY <3>1
  <2> QED
    BY <2>1, <2>2, <2>3, <2>4, <2>5 DEF Item
<1>10. CASE Flush
  <2>1. content' \in [Files -> Nat] /\ broken' \subseteq Files /\ failed_' \in BOOLEAN
    BY <1>10, SpoiledFacts DEF Flush
  <2> QED
    BY <1>10, <2>1 DEF Flush
<1>11. CASE Kill \/ PowerFails
  <2>1. content' \in [Files -> Nat]
    BY <1>11, LeftFacts DEF Kill, PowerFails
  <2> QED
    BY <1>11, <2>1 DEF Kill, PowerFails
<1>12. CASE UNCHANGED takeVars
  BY <1>12 DEF takeVars
<1> QED
  BY <1>1, <1>2, <1>3, <1>4, <1>5, <1>6, <1>7, <1>8, <1>9, <1>10, <1>11, <1>12
  DEF TakeNext, RecorderLoop, WriterThread

THEOREM TakeTypes == RecorderSpec => []TakeTypeOK
<1>1. TakeInit => TakeTypeOK
  <2> SUFFICES ASSUME TakeInit PROVE TakeTypeOK
    OBVIOUS
  <2>1. queue_ \in Seq([image : BOOLEAN, frames : Nat]) /\ Len(queue_) = 0
    BY DEF TakeInit
  <2>2. counted \in [Streams -> Nat] /\ content \in [Files -> Nat] /\ 0 \in 0 .. MaxRows /\ 0 \in 0 .. 0
    BY FileFacts DEF TakeInit
  <2>3. 0 <= QueueLimit
    BY FileFacts
  <2> QED
    BY <2>1, <2>2, <2>3 DEF TakeInit, TakeTypeOK, Steps
<1> QED
  BY <1>1, TakeTypeStep, PTL DEF RecorderSpec

LEMMA StageStep == TakeTypeOK /\ StageInv /\ [TakeNext]_takeVars => StageInv'
<1> SUFFICES ASSUME TakeTypeOK, StageInv, [TakeNext]_takeVars PROVE StageInv'
  OBVIOUS
<1> USE DEF StageInv, progress, worker, directory, Goto, Outcomes
<1>1. CASE OpenTake \/ OpenFails
  BY <1>1 DEF OpenTake, OpenFails
<1>2. CASE \E image \in BOOLEAN : PushRow(image)
  BY <1>2 DEF PushRow, HasRoom
<1>3. CASE FinishTake \/ Abandon
  BY <1>3 DEF FinishTake, Abandon, Leave
<1>4. CASE Joined \/ Discard \/ WriteSummary \/ (\E f \in Files : SyncFile(f)) \/ SyncPartial \/ RenameTake \/ SyncSession
  BY <1>4 DEF Joined, Discard, WriteSummary, SyncFile, SyncPartial, RenameTake, SyncSession
<1>5. CASE WriteRecord \/ CompressFails
  <2>1. /\ thread_ = "running" /\ UNCHANGED <<progress, done, name>>
        /\ (failed_' = TRUE /\ thread_' = "ended") \/ UNCHANGED <<failed_, thread_>>
    BY <1>5 DEF WriteRecord, CompressFails
  <2>2. main \in {"recording", "joining"} /\ ~failed_ /\ main' = main
    BY <2>1
  <2> QED
    BY <2>1, <2>2
<1>6. CASE Flush
  BY <1>6 DEF Flush
<1>7. CASE Kill \/ PowerFails
  BY <1>7 DEF Kill, PowerFails
<1>8. CASE UNCHANGED takeVars
  BY <1>8 DEF takeVars
<1> QED
  BY <1>1, <1>2, <1>3, <1>4, <1>5, <1>6, <1>7, <1>8 DEF TakeNext, RecorderLoop, WriterThread

\* The queue alone: its records count on, whoever takes or adds one.
LEMMA QueueStep ==
    ASSUME TakeTypeOK, TakeTypeOK', StageInv, StageInv', QueueInv, [TakeNext]_takeVars
    PROVE  QueueInv'
<1> USE DEF QueueInv, progress, worker, directory, Goto
<1>0. /\ queue_ \in Seq(Item) /\ Len(queue_) \in Nat /\ rows \in Nat /\ frames \in Nat
      /\ counted \in [Streams -> Nat] /\ content \in [Files -> Nat]
      /\ \A i \in 1 .. Len(queue_) : queue_[i] \in Item
      /\ \A item \in Item : item.frames \in Nat /\ Image(item) \in Nat
      /\ queue_ = <<>> <=> Len(queue_) = 0
  <2>1. queue_ \in Seq(Item) /\ frames \in Nat /\ rows \in Nat
    BY FileFacts DEF TakeTypeOK, Item
  <2>2. Len(queue_) \in Nat /\ \A i \in 1 .. Len(queue_) : queue_[i] \in Item
    BY <2>1
  <2>3. queue_ = <<>> <=> Len(queue_) = 0
    BY <2>1, EmptySeq
  <2>4. \A item \in Item : item.frames \in Nat /\ Image(item) \in Nat
    BY DEF Item, Image
  <2> QED
    BY <2>1, <2>2, <2>3, <2>4 DEF TakeTypeOK
<1>1. CASE OpenTake
  BY <1>0, <1>1, FileFacts DEF OpenTake, StageInv
<1>2. ASSUME NEW image \in BOOLEAN, PushRow(image) PROVE QueueInv'
  <2> DEFINE item == [image |-> image, frames |-> frames']
  <2>1. /\ main = "recording" /\ ~failed_ /\ rows' = rows + 1 /\ frames' = frames + Image(item)
        /\ queue_' = Append(queue_, item) /\ item.frames = frames'
        /\ UNCHANGED <<main, save, done, worker, directory>>
    BY <1>2 DEF PushRow, HasRoom, Image
  <2>2. item \in Item /\ frames' \in Nat
    BY <1>2, FileFacts DEF TakeTypeOK, Item
  <2> HIDE DEF item
  <2>3. /\ Len(queue_') = Len(queue_) + 1 /\ queue_'[Len(queue_) + 1] = item
        /\ \A i \in 1 .. Len(queue_) : queue_'[i] = queue_[i]
        /\ queue_' # <<>>
    BY <1>0, <2>1, <2>2
  <2>4. \A i \in 1 .. Len(queue_') - 1 : queue_'[i + 1].frames = queue_'[i].frames + Image(queue_'[i + 1])
    <3> SUFFICES ASSUME NEW i \in 1 .. Len(queue_)
                 PROVE  queue_'[i + 1].frames = queue_'[i].frames + Image(queue_'[i + 1])
      <4>1. Len(queue_') - 1 = Len(queue_)
        BY <1>0, <2>3
      <4> QED
        BY <4>1
    <3>1. CASE i = Len(queue_)
      BY <1>0, <2>1, <2>3, <3>1
    <3>2. CASE i # Len(queue_)
      <4>1. i \in 1 .. Len(queue_) - 1 /\ i + 1 \in 1 .. Len(queue_)
        BY <1>0, <3>2
      <4> QED
        BY <2>3, <4>1
    <3> QED
      BY <3>1, <3>2
  <2>5. queue_'[Len(queue_')].frames = frames'
    BY <1>0, <2>1, <2>3
  <2>6. \A s \in Streams : counted[s] + Image(queue_'[1]) = queue_'[1].frames
    <3>1. CASE queue_ = <<>>
      BY <1>0, <2>1, <2>3, <3>1
    <3>2. CASE queue_ # <<>>
      <4>1. queue_'[1] = queue_[1]
        BY <1>0, <2>3, <3>2
      <4> QED
        BY <2>1, <3>2, <4>1
    <3> QED
      BY <3>1, <3>2
  <2>7. content[Rows] + Len(queue_') = rows' /\ content[Summary] = 0 /\ broken = {} /\ \A s \in Streams : content[s] = counted[s]
    <3>1. content[Rows] + Len(queue_) = rows /\ content[Rows] \in Nat
      BY <1>0, <2>1, FileFacts
    <3>2. content[Rows] + Len(queue_') = rows'
      <4>1. rows' = rows + 1 /\ Len(queue_') = Len(queue_) + 1
        BY <2>1, <2>3
      <4> QED
        BY <1>0, <3>1, <4>1
    <3> QED
      BY <2>1, <3>2
  <2> QED
    BY <2>1, <2>3, <2>4, <2>5, <2>6, <2>7
<1>3. CASE OpenFails \/ FinishTake \/ Abandon
  BY <1>3 DEF OpenFails, FinishTake, Abandon, Leave
<1>4. CASE Joined \/ Discard \/ WriteSummary \/ (\E f \in Files : SyncFile(f)) \/ SyncPartial \/ RenameTake \/ SyncSession
  BY <1>4 DEF Joined, Discard, WriteSummary, SyncFile, SyncPartial, RenameTake, SyncSession
<1>5. CASE WriteRecord \/ CompressFails
  <2> DEFINE q == Tail(queue_)
  <2>1. queue_ # <<>> /\ queue_' = q /\ UNCHANGED <<main, save, rows, frames>> /\ thread_ = "running" /\ ~failed_
    BY <1>5 DEF WriteRecord, CompressFails, StageInv
  <2>2. /\ Head(queue_) = queue_[1] /\ queue_[1] \in Item /\ Len(q) = Len(queue_) - 1
        /\ \A i \in 1 .. Len(queue_) - 1 : q[i] = queue_[i + 1]
        /\ Len(queue_) > 0 /\ (q = <<>> <=> Len(queue_) = 1)
    BY <1>0, <2>1, QueueFacts
  <2> HIDE DEF q
  <2>3. \A i \in 1 .. Len(q) - 1 : q[i + 1].frames = q[i].frames + Image(q[i + 1])
    <3> TAKE i \in 1 .. Len(q) - 1
    <3>1. i \in 1 .. Len(queue_) - 1 /\ i + 1 \in 1 .. Len(queue_) - 1
      BY <1>0, <2>2
    <3>2. q[i] = queue_[i + 1] /\ q[i + 1] = queue_[(i + 1) + 1]
      BY <2>2, <3>1
    <3> QED
      BY <3>1, <3>2
  <2>4. q # <<>> => q[Len(q)].frames = frames
    <3> SUFFICES ASSUME q # <<>> PROVE q[Len(q)].frames = frames
      OBVIOUS
    <3>1. Len(queue_) - 1 \in 1 .. Len(queue_) - 1 /\ (Len(queue_) - 1) + 1 = Len(queue_)
      BY <1>0, <2>2
    <3> QED
      BY <2>1, <2>2, <3>1
  <2>5. ~failed_' => /\ WriteRecord /\ thread_' = thread_ /\ broken' = broken
                     /\ content' \in Spoiled([f \in Files |-> IF f \in (IF queue_[1].image THEN Streams \cup {Rows} ELSE {Rows})
                                                              THEN content[f] + 1 ELSE content[f]], {})
                     /\ counted' = [s \in Streams |-> IF queue_[1].image THEN counted[s] + 1 ELSE counted[s]]
    BY <1>5, <2>1, <2>2 DEF WriteRecord, CompressFails
  <2>6. ASSUME ~failed_'
        PROVE  /\ content'[Rows] = content[Rows] + 1 /\ content'[Summary] = content[Summary] /\ broken' = broken
               /\ \A s \in Streams : /\ counted'[s] = counted[s] + Image(queue_[1])
                                     /\ content'[s] = content[s] + Image(queue_[1])
    <3>1. \A f \in Files : content'[f] = IF f \in (IF queue_[1].image THEN Streams \cup {Rows} ELSE {Rows})
                                         THEN content[f] + 1 ELSE content[f]
      BY <2>5, <2>6, SpoiledFacts
    <3> QED
      BY <1>0, <2>5, <2>6, <3>1, FileFacts DEF Image
  <2>7. ASSUME ~failed_', NEW s \in Streams
        PROVE  IF q = <<>> THEN counted'[s] = frames ELSE counted'[s] + Image(q[1]) = q[1].frames
    <3>1. counted'[s] = queue_[1].frames
      BY <1>0, <2>1, <2>2, <2>6, <2>7, FileFacts DEF StageInv
    <3>2. CASE q = <<>>
      BY <2>1, <2>2, <3>1, <3>2
    <3>3. CASE q # <<>>
      <4>1. 1 \in 1 .. Len(queue_) - 1 /\ q[1] = queue_[1 + 1]
        BY <1>0, <2>2, <3>3
      <4> QED
        BY <3>1, <3>3, <4>1
    <3> QED
      BY <3>2, <3>3
  <2>8. ASSUME ~failed_'
        PROVE  /\ content'[Rows] + Len(q) = rows /\ content'[Summary] = 0 /\ broken' = {}
               /\ \A s \in Streams : content'[s] = counted'[s]
    BY <1>0, <2>1, <2>2, <2>6, <2>8, FileFacts DEF StageInv
  <2> QED
    BY <2>1, <2>3, <2>4, <2>7, <2>8
<1>6. CASE Flush
  <2>1. /\ queue_ = <<>> /\ queue_' = queue_ /\ thread_ = "running" /\ ~failed_ /\ UNCHANGED <<progress, counted>>
        /\ main \in {"recording", "joining"}
    BY <1>6 DEF Flush, StageInv
  <2>2. ~failed_' => broken' = {} /\ \A f \in Files : content'[f] = content[f]
    <3>1. PICK lost \in SUBSET (Streams \cup {Rows}) :
              content' \in Spoiled(content, lost) /\ broken' = broken \cup lost /\ failed_' = (broken' # {})
      BY <1>6 DEF Flush
    <3>2. ~failed_' => broken' = {} /\ lost = {}
      BY <3>1
    <3> QED
      BY <3>1, <3>2, SpoiledFacts
  <2> QED
    BY <2>1, <2>2, FileFacts
<1>7. CASE Kill \/ PowerFails
  BY <1>7 DEF Kill, PowerFails
<1>8. CASE UNCHANGED takeVars
  BY <1>8 DEF takeVars
<1> QED
  BY <1>1, <1>2, <1>3, <1>4, <1>5, <1>6, <1>7, <1>8 DEF TakeNext, RecorderLoop, WriterThread

LEMMA CommitStep ==
    ASSUME TakeTypeOK, StageInv, QueueInv, CommitInv, [TakeNext]_takeVars
    PROVE  CommitInv'
<1> USE FileFacts DEF CommitInv, WholeTake, progress, worker, directory, Goto, Outcomes
<1>0. /\ Directory \notin Files \/ Directory \in synced \/ Directory \notin synced
      /\ rows \in Nat /\ frames \in Nat /\ counted \in [Streams -> Nat] /\ content \in [Files -> Nat]
  BY DEF TakeTypeOK
<1>1. CASE OpenTake \/ OpenFails
  BY <1>1 DEF OpenTake, OpenFails, StageInv
<1>2. CASE \E image \in BOOLEAN : PushRow(image)
  BY <1>2 DEF PushRow
<1>3. CASE FinishTake \/ Abandon
  BY <1>3 DEF FinishTake, Abandon, Leave
<1>4. CASE Joined
  <2>1. main = "joining" /\ thread_ = "ended" /\ UNCHANGED <<save, rows, frames, queue_, done, worker, directory>>
    BY <1>4 DEF Joined
  <2>2. /\ main' \in {"kept", "discarding", "summary"}
        /\ main' = "summary" => save # "keep" /\ save # "discard" /\ Counted /\ frames # 0
    BY <1>4 DEF Joined
  <2>3. main' = "summary" => WholeTake
    <3> SUFFICES ASSUME main' = "summary" PROVE WholeTake
      OBVIOUS
    <3>1. ~failed_ /\ save = "save" /\ frames > 0 /\ \A s \in Streams : counted[s] = frames
      BY <1>0, <2>2 DEF Counted, TakeTypeOK
    <3>2. queue_ = <<>> /\ Len(queue_) = 0
      BY <2>1, <3>1 DEF StageInv
    <3>3. content[Rows] = rows /\ \A s \in Streams : content[s] = counted[s]
      BY <1>0, <2>1, <3>1, <3>2 DEF QueueInv
    <3> QED
      BY <3>1, <3>3
  <2> QED
    BY <2>1, <2>2, <2>3
<1>5. CASE Discard
  BY <1>5 DEF Discard
<1>6. CASE WriteSummary
  <2>1. /\ main = "summary" /\ name # "ready" /\ main' \in {"syncing", "kept"}
        /\ UNCHANGED <<save, rows, frames, queue_, done, worker, broken, synced, name, told>>
        /\ main' = "syncing" => content' = [content EXCEPT ![Summary] = 1]
    BY <1>6 DEF WriteSummary
  <2>2. main' = "syncing" => content'[Summary] = 1 /\ content'[Rows] = content[Rows] /\ \A s \in Streams : content'[s] = content[s]
    BY <1>0, <2>1
  <2> QED
    BY <2>1, <2>2
<1>7. CASE \E f \in Files : SyncFile(f)
  <2>1. PICK f \in Files : main = "syncing" /\ main' \in {"syncing", "kept"} /\ synced' \in {synced, synced \cup {f}}
                             /\ UNCHANGED <<save, rows, frames, queue_, done, worker, content, broken, name, told>>
    BY <1>7 DEF SyncFile
  <2>2. name # "ready" /\ ~told
    BY <2>1
  <2> QED
    BY <2>1, <2>2
<1>8. CASE SyncPartial
  BY <1>8 DEF SyncPartial, Unsynced, Directory, Session
<1>9. CASE RenameTake \/ SyncSession
  BY <1>9 DEF RenameTake, SyncSession, Directory, Session
<1>10. CASE WriterThread
  <2>1. thread_ = "running" /\ UNCHANGED <<progress, synced, name, told>>
    BY <1>10 DEF WriterThread, WriteRecord, CompressFails, Flush
  <2> QED
    BY <2>1 DEF StageInv
<1>11. CASE Kill
  <2>1. /\ main \notin {"saved", "discarded", "kept", "dead"} /\ main' = "dead"
        /\ UNCHANGED <<save, rows, frames, queue_, done, failed_, counted, broken, synced, name, told>>
    BY <1>11 DEF Kill, Alive
  <2>2. name = "ready" => \A f \in Files : content'[f] = content[f]
    BY <1>11, <2>1, LeftFacts DEF Kill
  <2> QED
    BY <2>1, <2>2
<1>12. CASE PowerFails
  <2>1. /\ main' = "dead" /\ UNCHANGED <<save, rows, frames, queue_, done, failed_, counted, broken, synced, told>>
        /\ name' \in IF Session \in synced THEN {name} ELSE {"none", "partial", name}
    BY <1>12 DEF PowerFails
  <2>2. name' = "ready" => name = "ready"
    BY <2>1
  <2>3. name = "ready" => \A f \in Files : content'[f] = content[f]
    BY <1>12, LeftFacts DEF PowerFails
  <2> QED
    BY <2>1, <2>2, <2>3
<1>13. CASE UNCHANGED takeVars
  BY <1>13 DEF takeVars
<1> QED
  BY <1>1, <1>2, <1>3, <1>4, <1>5, <1>6, <1>7, <1>8, <1>9, <1>10, <1>11, <1>12, <1>13
  DEF TakeNext, RecorderLoop

TakeInv == StageInv /\ QueueInv /\ CommitInv

LEMMA TakeInvariant == RecorderSpec => []TakeInv
<1>1. TakeInit => TakeInv
  BY FileFacts DEF TakeInit, TakeInv, StageInv, QueueInv, CommitInv, Directory, Session
<1>2. TakeTypeOK /\ TakeTypeOK' /\ TakeInv /\ [TakeNext]_takeVars => TakeInv'
  BY StageStep, QueueStep, CommitStep DEF TakeInv
<1> QED
  BY <1>1, <1>2, TakeTypes, PTL DEF RecorderSpec

\* A take with the name that the exporter accepts has every record that was pushed.
THEOREM ReadyTakesAreComplete == RecorderSpec => []ReadyIsComplete
<1>1. TakeInv => ReadyIsComplete
  BY DEF TakeInv, CommitInv, WholeTake, ReadyIsComplete
<1> QED
  BY <1>1, TakeInvariant, PTL

LEMMA TakeStepRefines ==
    ASSUME TakeTypeOK, TakeTypeOK', TakeInv, TakeInv', [TakeNext]_takeVars
    PROVE  [Take!Next]_(Take!vars)
<1> DEFINE s == CHOOSE s \in Streams : TRUE
<1>0. s \in Streams
  BY StreamAssumption
<1>1. Shown = IF name = "ready" THEN OfferedRows ELSE Take!NoTake
  BY <1>0 DEF Shown, OfferedRows, TakeInv, CommitInv, WholeTake, Take!NoTake
<1>2. Shown' = IF name' = "ready" THEN OfferedRows' ELSE Take!NoTake
  BY <1>0 DEF Shown, OfferedRows, TakeInv, CommitInv, WholeTake, Take!NoTake
<1>3. name = "ready" => frames > 0 /\ Shown # Take!NoTake
  BY <1>1, FileFacts DEF TakeTypeOK, OfferedRows, TakeInv, CommitInv, WholeTake, Take!NoTake
<1>4. name' = "ready" => name = "ready" \/ RenameTake
  BY DEF TakeNext, takeVars, RecorderLoop, WriterThread, OpenTake, OpenFails, PushRow, FinishTake, Abandon,
     Leave, Joined, Discard, WriteSummary, SyncFile, SyncPartial, SyncSession, WriteRecord, CompressFails,
     Flush, Kill, PowerFails, directory
<1> USE DEF progress, worker, directory, Goto
<1>5. ASSUME NEW image \in BOOLEAN, PushRow(image) PROVE Take!Next
  <2>1. /\ main = "recording" /\ rows' = rows + 1 /\ frames' = frames + (IF image THEN 1 ELSE 0)
        /\ UNCHANGED <<name, told>>
    BY <1>5 DEF PushRow
  <2>2. name # "ready"
    BY <2>1 DEF TakeInv, CommitInv
  <2>3. OfferedRows' \in {[OfferedRows EXCEPT !.rows = @ + 1], [OfferedRows EXCEPT !.rows = @ + 1, !.images = @ + 1]}
    <3>1. /\ OfferedRows.rows = rows /\ OfferedRows.images = frames
          /\ OfferedRows = [rows |-> rows, images |-> frames] /\ OfferedRows' = [rows |-> rows + 1, images |-> frames']
      BY <2>1 DEF OfferedRows
    <3>2. CASE image
      <4>1. OfferedRows' = [OfferedRows EXCEPT !.rows = rows + 1, !.images = frames + 1]
        <5>1. [OfferedRows EXCEPT !.rows = rows + 1] = [rows |-> rows + 1, images |-> frames]
          BY <3>1
        <5>2. [[rows |-> rows + 1, images |-> frames] EXCEPT !.images = frames + 1]
              = [rows |-> rows + 1, images |-> frames + 1]
          OBVIOUS
        <5>3. [OfferedRows EXCEPT !.rows = rows + 1, !.images = frames + 1]
              = [[OfferedRows EXCEPT !.rows = rows + 1] EXCEPT !.images = frames + 1]
          OBVIOUS
        <5>4. frames' = frames + 1
          BY <2>1, <3>2
        <5> QED
          BY <3>1, <5>1, <5>2, <5>3, <5>4
      <4> QED
        BY <3>1, <4>1
    <3>3. CASE ~image
      <4>1. frames' = frames
        BY <2>1, <3>3, FileFacts DEF TakeTypeOK
      <4>2. OfferedRows' = [OfferedRows EXCEPT !.rows = rows + 1]
        BY <2>1, <3>1, <4>1
      <4> QED
        BY <3>1, <4>2
    <3> QED
      BY <3>2, <3>3
  <2>4. Take!Offer
    BY <1>1, <1>2, <2>1, <2>2, <2>3 DEF Take!Offer
  <2> QED
    BY <2>4 DEF Take!Next
<1>6. CASE RenameTake
  <2>1. main = "renaming" /\ UNCHANGED <<rows, frames, told>> /\ name # "ready" /\ frames > 0
    BY <1>6 DEF RenameTake, TakeInv, CommitInv, WholeTake
  <2>2. CASE name' = "ready"
    <3>1. Take!Commit
      BY <1>1, <1>2, <2>1, <2>2 DEF Take!Commit, OfferedRows
    <3> QED
      BY <3>1 DEF Take!Next
  <2>3. CASE name' # "ready"
    BY <1>1, <1>2, <2>1, <2>3 DEF Take!vars, OfferedRows
  <2> QED
    BY <2>2, <2>3
<1>7. CASE SyncSession
  <2>1. main = "committing" /\ UNCHANGED <<rows, frames, name>> /\ name = "ready"
    BY <1>7 DEF SyncSession, TakeInv, CommitInv
  <2>2. Shown' = Shown /\ OfferedRows' = OfferedRows
    BY <1>1, <1>2, <2>1 DEF OfferedRows
  <2>3. CASE told' = TRUE
    <3>1. Take!Confirm
      BY <1>3, <2>1, <2>2, <2>3 DEF Take!Confirm
    <3> QED
      BY <3>1 DEF Take!Next
  <2>4. CASE told' = told
    BY <2>2, <2>4 DEF Take!vars
  <2> QED
    BY <1>7, <2>3, <2>4 DEF SyncSession
<1>8. CASE PowerFails
  <2>1. UNCHANGED <<rows, frames, told>> /\ (Session \in synced => name' = name)
    BY <1>8 DEF PowerFails
  <2>2. OfferedRows' = OfferedRows
    BY <2>1 DEF OfferedRows
  <2>3. CASE name = "ready" /\ name' # "ready"
    <3>1. ~told
      BY <2>1, <2>3 DEF TakeInv, CommitInv
    <3>2. Take!Lose
      BY <1>2, <2>1, <2>2, <2>3, <3>1 DEF Take!Lose
    <3> QED
      BY <3>2 DEF Take!Next
  <2>4. CASE name = "ready" <=> name' = "ready"
    BY <1>1, <1>2, <2>1, <2>2, <2>4 DEF Take!vars
  <2> QED
    BY <1>4, <1>8, <2>3, <2>4 DEF PowerFails, RenameTake, TakeInv, CommitInv
<1>9. ASSUME ~(\E image \in BOOLEAN : PushRow(image)), ~RenameTake, ~SyncSession, ~PowerFails
      PROVE  UNCHANGED Take!vars
  <2>1. UNCHANGED <<rows, frames, told>>
    BY <1>9 DEF TakeNext, takeVars, RecorderLoop, WriterThread, OpenTake, OpenFails, FinishTake, Abandon,
       Leave, Joined, Discard, WriteSummary, SyncFile, SyncPartial, WriteRecord, CompressFails, Flush, Kill
  <2>2. name = "ready" => name' = "ready"
    BY <1>9 DEF TakeNext, takeVars, RecorderLoop, WriterThread, OpenTake, OpenFails, FinishTake, Abandon,
       Leave, Joined, Discard, WriteSummary, SyncFile, SyncPartial, WriteRecord, CompressFails, Flush, Kill,
       TakeInv, CommitInv, StageInv
  <2> QED
    BY <1>1, <1>2, <1>4, <1>9, <2>1, <2>2 DEF Take!vars, OfferedRows
<1> QED
  BY <1>5, <1>6, <1>7, <1>8, <1>9

\* The writer implements one atomic commit: a take appears with every record that
\* it was offered or never, and what was confirmed stays.
THEOREM TakeIsAtomic == RecorderSpec => TakeSpec
<1>1. TakeInit => Take!Init
  BY DEF TakeInit, Take!Init, OfferedRows, Shown, Take!NoTake
<1>2. TakeTypeOK /\ TakeTypeOK' /\ TakeInv /\ TakeInv' /\ [TakeNext]_takeVars => [Take!Next]_(Take!vars)
  BY TakeStepRefines
<1> QED
  BY <1>1, <1>2, TakeTypes, TakeInvariant, PTL DEF RecorderSpec, TakeSpec, Take!Spec

-----------------------------------------------------------------------------
(* The strips of a collector (MlpWriter).                                  *)

Finishes == [kind : {"finish"}, t : Nat, complete : BOOLEAN]
Samples == [kind : Data, n : Nat]
Items == Starts \cup Finishes \cup Samples

LEMMA ItemFacts ==
    ASSUME NEW r \in Items
    PROVE  /\ r.kind \in {"start", "finish"} \cup Data
           /\ r.kind = "start" => r \in Starts /\ r.t \in Ids /\ r.drops \in Nat
           /\ r.kind = "finish" => r.complete \in BOOLEAN
           /\ r.kind \in Data => r.n \in Nat
           /\ "start" \notin Data /\ "finish" \notin Data
<1>1. r \in Starts => r.kind = "start" /\ r.t \in Ids /\ r.drops \in Nat
  BY DEF Starts
<1>2. r \in Finishes => r.kind = "finish" /\ r.complete \in BOOLEAN
  BY DEF Finishes
<1>3. r \in Samples => r.kind \in Data /\ r.n \in Nat
  BY DEF Samples
<1> QED
  BY <1>1, <1>2, <1>3 DEF Items, Data

\* The records that are on their way to a strip: its Start stands at i in the line L,
\* and what was pushed for it follows until the next Start or Finish.
Alone(L, i) == \A j \in i + 1 .. Len(L) : L[j].kind \in Data
Ending(L, i, j) == j \in i + 1 .. Len(L) /\ L[j].kind \notin Data /\ \A m \in i + 1 .. j - 1 : L[m].kind \in Data
Follows(L, i, j) == j \in i + 1 .. Len(L) /\ \A m \in i + 1 .. j : L[m].kind \in Data

\* What holds of a strip s with the files d whose Start stands at i in the line L,
\* when dr records were refused so far and cu is the strip being captured: the
\* line ends it the way it was ended, no kind of record is missing, and unless
\* one was refused since it began the records continue the numbers in the files.
Good(L, i, s, d, dr, cu, live) ==
    LET t == L[i].t IN
    /\ t <= cu /\ L[i].drops = s.drops /\ s.drops <= dr
    /\ \A j \in i + 1 .. Len(L) : L[j].kind = "start" => t < L[j].t
    /\ Alone(L, i) => t = cu /\ s.end \in {"open", "spoiled"}
    /\ \A j \in 1 .. Len(L) : Ending(L, i, j) =>
          (s.end = "saved" <=> L[j].kind = "finish" /\ L[j].complete)
    /\ s.end = "open" /\ t = cu => Alone(L, i)
    /\ \A k \in s.kinds : k \in d.kinds \/ \E j \in 1 .. Len(L) : Follows(L, i, j) /\ L[j].kind = k
    /\ dr = s.drops =>
          /\ d.written = d.last
          /\ \A j \in 1 .. Len(L) : Follows(L, i, j) => L[j].n = d.last + (j - i)
          /\ Alone(L, i) /\ live => s.offered = d.last + (Len(L) - i)

\* Records that leave the line from its front say nothing of the strips behind them.
LEMMA GoodShift ==
    ASSUME NEW L \in Seq(Items), NEW M \in Seq(Items), NEW k \in Nat, Len(L) = Len(M) + k, NEW i \in 1 .. Len(M),
           \A j \in i .. Len(M) : M[j] = L[j + k],
           NEW s, NEW d, NEW dr, NEW cu, NEW live, Good(L, i + k, s, d, dr, cu, live), d.last \in Nat
    PROVE  Good(M, i, s, d, dr, cu, live)
<1>0. Len(M) \in Nat /\ Len(L) \in Nat
  OBVIOUS
<1>1. \A j \in i + 1 .. Len(M) : j + k \in (i + k) + 1 .. Len(L) /\ M[j] = L[j + k]
  BY <1>0
<1>2. \A j \in (i + k) + 1 .. Len(L) : j - k \in i + 1 .. Len(M) /\ M[j - k] = L[j]
  <2> TAKE j \in (i + k) + 1 .. Len(L)
  <2>1. j - k \in i + 1 .. Len(M) /\ (j - k) + k = j
    BY <1>0
  <2> QED
    BY <1>1, <2>1
<1>3. Alone(M, i) <=> Alone(L, i + k)
  BY <1>1, <1>2 DEF Alone
<1>4. \A j \in 1 .. Len(M) : Ending(M, i, j) => Ending(L, i + k, j + k) /\ M[j] = L[j + k] /\ j + k \in 1 .. Len(L)
  <2> SUFFICES ASSUME NEW j \in 1 .. Len(M), Ending(M, i, j)
               PROVE  Ending(L, i + k, j + k) /\ M[j] = L[j + k] /\ j + k \in 1 .. Len(L)
    OBVIOUS
  <2>1. j \in i + 1 .. Len(M) /\ j + k \in (i + k) + 1 .. Len(L) /\ M[j] = L[j + k] /\ j + k \in 1 .. Len(L)
    BY <1>0, <1>1 DEF Ending
  <2>2. ASSUME NEW m \in (i + k) + 1 .. (j + k) - 1 PROVE L[m].kind \in Data
    <3>0. j \in Int /\ m \in Int /\ i \in Int /\ j + k <= Len(L) /\ i + k + 1 <= m /\ m <= j + k - 1
      BY <1>0, <2>1
    <3>1. m \in (i + k) + 1 .. Len(L) /\ m - k \in i + 1 .. j - 1
      BY <1>0, <3>0
    <3> QED
      BY <1>2, <3>1 DEF Ending
  <2> QED
    BY <2>1, <2>2 DEF Ending
<1>5. \A j \in 1 .. Len(M) : Follows(M, i, j) => Follows(L, i + k, j + k) /\ M[j] = L[j + k] /\ j + k \in 1 .. Len(L)
  <2> SUFFICES ASSUME NEW j \in 1 .. Len(M), Follows(M, i, j)
               PROVE  Follows(L, i + k, j + k) /\ M[j] = L[j + k] /\ j + k \in 1 .. Len(L)
    OBVIOUS
  <2>1. j \in i + 1 .. Len(M) /\ j + k \in (i + k) + 1 .. Len(L) /\ M[j] = L[j + k] /\ j + k \in 1 .. Len(L)
    BY <1>0, <1>1 DEF Follows
  <2>2. ASSUME NEW m \in (i + k) + 1 .. j + k PROVE L[m].kind \in Data
    <3>1. m \in (i + k) + 1 .. Len(L) /\ m - k \in i + 1 .. j
      BY <1>0, <2>1
    <3> QED
      BY <1>2, <3>1 DEF Follows
  <2> QED
    BY <2>1, <2>2 DEF Follows
<1>6. \A j \in 1 .. Len(L) : Follows(L, i + k, j) => Follows(M, i, j - k) /\ M[j - k] = L[j] /\ j - k \in 1 .. Len(M)
  <2> SUFFICES ASSUME NEW j \in 1 .. Len(L), Follows(L, i + k, j)
               PROVE  Follows(M, i, j - k) /\ M[j - k] = L[j] /\ j - k \in 1 .. Len(M)
    OBVIOUS
  <2>1. j \in (i + k) + 1 .. Len(L) /\ j - k \in i + 1 .. Len(M) /\ M[j - k] = L[j] /\ j - k \in 1 .. Len(M)
    BY <1>0, <1>2 DEF Follows
  <2>2. ASSUME NEW m \in i + 1 .. j - k PROVE M[m].kind \in Data
    <3>0. j \in Int /\ m \in Int /\ i \in Int /\ j - k <= Len(M) /\ i + 1 <= m /\ m <= j - k
      BY <1>0, <2>1
    <3>1. m \in i + 1 .. Len(M) /\ m + k \in (i + k) + 1 .. j
      BY <1>0, <3>0
    <3> QED
      BY <1>1, <3>1 DEF Follows
  <2> QED
    BY <2>1, <2>2 DEF Follows
<1>7. M[i] = L[i + k]
  BY <1>0
<1>8. \A j \in i + 1 .. Len(M) : M[j].kind = "start" => M[i].t < M[j].t
  BY <1>1, <1>7 DEF Good
<1>9. \A x \in s.kinds : x \in d.kinds \/ \E j \in 1 .. Len(M) : Follows(M, i, j) /\ M[j].kind = x
  <2> SUFFICES ASSUME NEW x \in s.kinds, x \notin d.kinds
               PROVE  \E j \in 1 .. Len(M) : Follows(M, i, j) /\ M[j].kind = x
    OBVIOUS
  <2>1. PICK j \in 1 .. Len(L) : Follows(L, i + k, j) /\ L[j].kind = x
    BY DEF Good
  <2>2. Follows(M, i, j - k) /\ M[j - k] = L[j] /\ j - k \in 1 .. Len(M)
    BY <1>6, <2>1
  <2> QED
    BY <2>1, <2>2
<1>10. ASSUME dr = s.drops
       PROVE  /\ d.written = d.last
              /\ \A j \in 1 .. Len(M) : Follows(M, i, j) => M[j].n = d.last + (j - i)
              /\ Alone(M, i) /\ live => s.offered = d.last + (Len(M) - i)
  <2>1. d.written = d.last /\ (Alone(L, i + k) /\ live => s.offered = d.last + (Len(L) - (i + k)))
    BY <1>10 DEF Good
  <2>2. ASSUME NEW j \in 1 .. Len(M), Follows(M, i, j) PROVE M[j].n = d.last + (j - i)
    <3>1. Follows(L, i + k, j + k) /\ M[j] = L[j + k] /\ j + k \in 1 .. Len(L)
      BY <1>5, <2>2
    <3>2. L[j + k].n = d.last + ((j + k) - (i + k))
      BY <1>10, <3>1 DEF Good
    <3>3. (j + k) - (i + k) = j - i
      BY <1>0
    <3> QED
      BY <3>1, <3>2, <3>3
  <2>3. Len(L) - (i + k) = Len(M) - i
    BY <1>0
  <2> QED
    BY <1>3, <2>1, <2>2, <2>3
<1>11. \A j \in 1 .. Len(M) : Ending(M, i, j) =>
          (s.end = "saved" <=> M[j].kind = "finish" /\ M[j].complete)
  BY <1>4 DEF Good
<1>12. /\ M[i].t <= cu /\ M[i].drops = s.drops /\ s.drops <= dr
       /\ Alone(M, i) => M[i].t = cu /\ s.end \in {"open", "spoiled"}
       /\ s.end = "open" /\ M[i].t = cu => Alone(M, i)
  BY <1>3, <1>7 DEF Good
<1> QED
  BY <1>8, <1>9, <1>10, <1>11, <1>12 DEF Good

\* What the line says of a strip is kept when nothing is added to it: records may be
\* refused, a strip that is captured may be spoiled, and the counts of refused samples go up.
LEMMA GoodSame ==
    ASSUME NEW L \in Seq(Items), NEW i \in 1 .. Len(L),
           NEW s, NEW d, NEW dr, NEW cu, NEW live, Good(L, i, s, d, dr, cu, live),
           NEW s2, NEW d2, NEW dr2, NEW live2,
           s2.drops = s.drops, s2.kinds = s.kinds, dr \in Nat, dr2 \in Nat, dr <= dr2, s.drops \in Nat,
           d2.written = d.written, d2.last = d.last, d2.kinds = d.kinds,
           s2.end = s.end \/ (s.end = "open" /\ s2.end = "spoiled" /\ Alone(L, i)),
           live2 /\ dr2 = s.drops => live /\ s2.offered = s.offered
    PROVE  Good(L, i, s2, d2, dr2, cu, live2)
<1>1. Alone(L, i) => \A j \in 1 .. Len(L) : ~Ending(L, i, j)
  BY DEF Alone, Ending
<1>2. dr2 = s.drops => dr = s.drops
  BY DEF Good
<1>3. s2.end = "saved" <=> s.end = "saved"
  OBVIOUS
<1>4. \A j \in 1 .. Len(L) : Ending(L, i, j) => (s2.end = "saved" <=> L[j].kind = "finish" /\ L[j].complete)
  BY <1>3 DEF Good
<1>5. s.drops <= dr2
  BY DEF Good
<1>6. dr2 = s2.drops =>
          /\ d2.written = d2.last
          /\ \A j \in 1 .. Len(L) : Follows(L, i, j) => L[j].n = d2.last + (j - i)
          /\ Alone(L, i) /\ live2 => s2.offered = d2.last + (Len(L) - i)
  BY <1>2 DEF Good
<1>7. \A k \in s2.kinds : k \in d2.kinds \/ \E j \in 1 .. Len(L) : Follows(L, i, j) /\ L[j].kind = k
  BY DEF Good
<1> QED
  BY <1>4, <1>5, <1>6, <1>7 DEF Good

LEMMA AppendFacts ==
    ASSUME NEW L \in Seq(Items), NEW r \in Items, NEW M, M = Append(L, r)
    PROVE  /\ M \in Seq(Items) /\ Len(M) = Len(L) + 1 /\ Len(L) \in Nat /\ M[Len(M)] = r
           /\ \A j \in 1 .. Len(L) : M[j] = L[j]
OBVIOUS

\* A sample that is accepted goes on with the strip that is captured.
LEMMA GoodMore ==
    ASSUME NEW L \in Seq(Items), NEW i \in 1 .. Len(L), NEW r \in Items, NEW M, M = Append(L, r),
           NEW s, NEW d, NEW dr, NEW cu, NEW live, Good(L, i, s, d, dr, cu, TRUE), Alone(L, i),
           r.kind \in Data, r.n = s.offered + 1, s.offered \in Nat, d.last \in Nat,
           NEW s2, s2.offered = s.offered + 1, s2.kinds = s.kinds \cup {r.kind},
           s2.drops = s.drops, s2.end = s.end
    PROVE  Good(M, i, s2, d, dr, cu, live)
<1>0. /\ Len(M) = Len(L) + 1 /\ Len(L) \in Nat /\ M[Len(M)] = r /\ \A j \in 1 .. Len(L) : M[j] = L[j]
      /\ r.kind # "start"
  BY AppendFacts, ItemFacts
<1>1. Alone(M, i)
  <2> SUFFICES ASSUME NEW j \in i + 1 .. Len(M) PROVE M[j].kind \in Data
    BY DEF Alone
  <2> QED
    BY <1>0 DEF Alone
<1>2. \A j \in 1 .. Len(M) : ~Ending(M, i, j)
  BY <1>1 DEF Alone, Ending
<1>3. ASSUME NEW j \in i + 1 .. Len(L) PROVE Follows(L, i, j) /\ Follows(M, i, j)
  <2>1. j \in i + 1 .. Len(M)
    BY <1>0
  <2>2. ASSUME NEW m \in i + 1 .. j PROVE L[m].kind \in Data /\ M[m].kind \in Data
    <3>1. m \in i + 1 .. Len(L) /\ m \in i + 1 .. Len(M)
      BY <1>0, <2>1
    <3> QED
      BY <1>1, <3>1 DEF Alone
  <2> QED
    BY <2>1, <2>2 DEF Follows
<1>4. Follows(M, i, Len(M))
  <2>1. Len(M) \in i + 1 .. Len(M)
    BY <1>0
  <2> QED
    BY <1>1, <2>1 DEF Alone, Follows
<1>5. \A k \in s2.kinds : k \in d.kinds \/ \E j \in 1 .. Len(M) : Follows(M, i, j) /\ M[j].kind = k
  <2> SUFFICES ASSUME NEW k \in s2.kinds, k \notin d.kinds
               PROVE  \E j \in 1 .. Len(M) : Follows(M, i, j) /\ M[j].kind = k
    OBVIOUS
  <2>1. CASE k = r.kind
    BY <1>0, <1>4, <2>1
  <2>2. CASE k \in s.kinds
    <3>1. PICK j \in 1 .. Len(L) : Follows(L, i, j) /\ L[j].kind = k
      BY <2>2 DEF Good
    <3>2. j \in i + 1 .. Len(L) /\ j \in 1 .. Len(M)
      BY <1>0, <3>1 DEF Follows
    <3> QED
      BY <1>0, <1>3, <3>1, <3>2
  <2> QED
    BY <2>1, <2>2
<1>6. ASSUME dr = s.drops
      PROVE  /\ d.written = d.last /\ s2.offered = d.last + (Len(M) - i)
             /\ \A j \in 1 .. Len(M) : Follows(M, i, j) => M[j].n = d.last + (j - i)
  <2>1. d.written = d.last /\ s.offered = d.last + (Len(L) - i)
    BY <1>6 DEF Good
  <2>2. ASSUME NEW j \in 1 .. Len(M), Follows(M, i, j) PROVE M[j].n = d.last + (j - i)
    <3>1. CASE j = Len(M)
      BY <1>0, <2>1, <3>1
    <3>2. CASE j # Len(M)
      <4>1. j \in i + 1 .. Len(L) /\ j \in 1 .. Len(L)
        BY <1>0, <2>2, <3>2 DEF Follows
      <4>2. L[j].n = d.last + (j - i)
        BY <1>3, <1>6, <4>1 DEF Good
      <4> QED
        BY <1>0, <4>1, <4>2
    <3> QED
      BY <3>1, <3>2
  <2>3. s2.offered = d.last + (Len(M) - i)
    BY <1>0, <2>1
  <2> QED
    BY <2>1, <2>2, <2>3
<1>7. \A j \in i + 1 .. Len(M) : M[j].kind = "start" => M[i].t < M[j].t
  BY <1>1, ItemFacts DEF Alone, Data
<1>8. M[i] = L[i]
  BY <1>0
<1> QED
  BY <1>1, <1>2, <1>5, <1>6, <1>7, <1>8 DEF Good

\* Whatever is pushed does not concern a strip that was ended in the line.
LEMMA GoodOther ==
    ASSUME NEW L \in Seq(Items), NEW i \in 1 .. Len(L), NEW r \in Items, NEW M, M = Append(L, r),
           NEW s, NEW d, NEW dr, NEW cu \in Int, NEW live, Good(L, i, s, d, dr, cu, live), ~Alone(L, i),
           r.kind = "start" => L[i].t < r.t, NEW cu2 \in Int, cu <= cu2, NEW live2, L[i].t \in Int
    PROVE  Good(M, i, s, d, dr, cu2, live2)
<1>0. /\ Len(M) = Len(L) + 1 /\ Len(L) \in Nat /\ M[Len(M)] = r /\ \A j \in 1 .. Len(L) : M[j] = L[j]
  BY AppendFacts
<1>1. PICK c \in i + 1 .. Len(L) : L[c].kind \notin Data
  BY DEF Alone
<1>2. c \in 1 .. Len(L) /\ M[c] = L[c] /\ c \in i + 1 .. Len(M) /\ c \in i + 1 .. Len(M) - 1 /\ c < Len(M)
  BY <1>0, <1>1
<1>3. ~Alone(M, i)
  BY <1>1, <1>2 DEF Alone
<1>4. ~Ending(M, i, Len(M)) /\ ~Follows(M, i, Len(M))
  BY <1>1, <1>2 DEF Ending, Follows
<1>5. \A j \in 1 .. Len(L) : (Ending(M, i, j) <=> Ending(L, i, j)) /\ (Follows(M, i, j) <=> Follows(L, i, j))
  BY <1>0 DEF Ending, Follows
<1>6. \A j \in 1 .. Len(M) : j = Len(M) \/ j \in 1 .. Len(L)
  BY <1>0
<1>7. \A j \in 1 .. Len(M) : Ending(M, i, j) => (s.end = "saved" <=> M[j].kind = "finish" /\ M[j].complete)
  BY <1>0, <1>4, <1>5, <1>6 DEF Good
<1>8. \A k \in s.kinds : k \in d.kinds \/ \E j \in 1 .. Len(M) : Follows(M, i, j) /\ M[j].kind = k
  <2> SUFFICES ASSUME NEW k \in s.kinds, k \notin d.kinds
               PROVE  \E j \in 1 .. Len(M) : Follows(M, i, j) /\ M[j].kind = k
    OBVIOUS
  <2>1. PICK j \in 1 .. Len(L) : Follows(L, i, j) /\ L[j].kind = k
    BY DEF Good
  <2> QED
    BY <1>0, <1>5, <2>1
<1>9. dr = s.drops => d.written = d.last /\ \A j \in 1 .. Len(M) : Follows(M, i, j) => M[j].n = d.last + (j - i)
  BY <1>0, <1>4, <1>5, <1>6 DEF Good
<1>10. \A j \in i + 1 .. Len(M) : M[j].kind = "start" => M[i].t < M[j].t
  <2> SUFFICES ASSUME NEW j \in i + 1 .. Len(M), M[j].kind = "start" PROVE M[i].t < M[j].t
    OBVIOUS
  <2>1. M[i] = L[i]
    BY <1>0
  <2>2. CASE j = Len(M)
    BY <1>0, <2>1, <2>2
  <2>3. CASE j # Len(M)
    <3>1. j \in i + 1 .. Len(L) /\ M[j] = L[j]
      BY <1>0, <2>3
    <3> QED
      BY <2>1, <3>1 DEF Good
  <2> QED
    BY <2>2, <2>3
<1>11. M[i] = L[i] /\ L[i].t <= cu2 /\ ~(s.end = "open" /\ L[i].t = cu2)
  BY <1>0 DEF Good
<1> QED
  BY <1>3, <1>7, <1>8, <1>9, <1>10, <1>11 DEF Good

\* A Finish or the next Start ends a strip in the line.
LEMMA GoodEnd ==
    ASSUME NEW L \in Seq(Items), NEW i \in 1 .. Len(L), NEW r \in Items, NEW M, M = Append(L, r),
           NEW s, NEW d, NEW dr, NEW cu \in Int, NEW live, Good(L, i, s, d, dr, cu, live), Alone(L, i),
           r.kind = "start" => L[i].t < r.t, NEW cu2 \in Int, cu <= cu2, NEW live2, L[i].t \in Int,
           NEW s2, s2.drops = s.drops, s2.kinds = s.kinds, r.kind \notin Data,
           s2.end = "saved" <=> r.kind = "finish" /\ r.complete, s2.end = "open" => L[i].t # cu2
    PROVE  Good(M, i, s2, d, dr, cu2, live2)
<1>0. /\ Len(M) = Len(L) + 1 /\ Len(L) \in Nat /\ M[Len(M)] = r /\ \A j \in 1 .. Len(L) : M[j] = L[j]
  BY AppendFacts
<1>1. ~Alone(M, i)
  BY <1>0 DEF Alone
<1>2. \A j \in 1 .. Len(M) : Ending(M, i, j) => j = Len(M)
  BY <1>0 DEF Ending, Alone
<1>3. \A j \in 1 .. Len(L) : Follows(M, i, j) <=> Follows(L, i, j)
  BY <1>0 DEF Follows
<1>4. ~Follows(M, i, Len(M))
  BY <1>0 DEF Follows
<1>5. \A j \in 1 .. Len(M) : Ending(M, i, j) => (s2.end = "saved" <=> M[j].kind = "finish" /\ M[j].complete)
  BY <1>0, <1>2
<1>6. \A k \in s2.kinds : k \in d.kinds \/ \E j \in 1 .. Len(M) : Follows(M, i, j) /\ M[j].kind = k
  <2> SUFFICES ASSUME NEW k \in s2.kinds, k \notin d.kinds
               PROVE  \E j \in 1 .. Len(M) : Follows(M, i, j) /\ M[j].kind = k
    OBVIOUS
  <2>1. PICK j \in 1 .. Len(L) : Follows(L, i, j) /\ L[j].kind = k
    BY DEF Good
  <2> QED
    BY <1>0, <1>3, <2>1
<1>7. \A j \in 1 .. Len(M) : j = Len(M) \/ j \in 1 .. Len(L)
  <2>1. Len(M) = Len(L) + 1 /\ Len(L) \in Nat
    BY <1>0
  <2> QED
    BY <2>1
<1>8. dr = s2.drops => d.written = d.last /\ \A j \in 1 .. Len(M) : Follows(M, i, j) => M[j].n = d.last + (j - i)
  BY <1>0, <1>3, <1>4, <1>7 DEF Good
<1>9. \A j \in i + 1 .. Len(M) : M[j].kind = "start" => M[i].t < M[j].t
  <2> SUFFICES ASSUME NEW j \in i + 1 .. Len(M), M[j].kind = "start" PROVE M[i].t < M[j].t
    OBVIOUS
  <2>1. M[i] = L[i]
    BY <1>0
  <2>2. CASE j = Len(M)
    BY <1>0, <2>1, <2>2
  <2>3. CASE j # Len(M)
    <3>1. j \in i + 1 .. Len(L) /\ M[j] = L[j]
      BY <1>0, <2>3
    <3> QED
      BY <2>1, <3>1 DEF Good
  <2> QED
    BY <2>2, <2>3
<1>10. M[i] = L[i] /\ L[i].t <= cu2
  BY <1>0 DEF Good
<1>11. s2.drops <= dr /\ L[i].drops = s2.drops
  BY DEF Good
<1> QED
  BY <1>1, <1>5, <1>6, <1>8, <1>9, <1>10, <1>11 DEF Good

\* A strip that begins.
LEMMA GoodNew ==
    ASSUME NEW L \in Seq(Items), NEW r \in Items, NEW M, M = Append(L, r), r.kind = "start",
           NEW s, NEW d, NEW dr \in Nat, NEW live,
           r.drops = dr, s.drops = dr, s.offered = 0, s.kinds = {}, s.end = "open", d.written = 0, d.last = 0
    PROVE  Good(M, Len(M), s, d, dr, r.t, live)
<1>0. Len(M) \in Nat /\ M[Len(M)] = r /\ r.t \in Int
  BY AppendFacts, ItemFacts DEF Ids
<1>1. Alone(M, Len(M)) /\ \A j \in 1 .. Len(M) : ~Ending(M, Len(M), j) /\ ~Follows(M, Len(M), j)
  BY <1>0 DEF Alone, Ending, Follows
<1>2. \A j \in Len(M) + 1 .. Len(M) : FALSE
  BY <1>0
<1> QED
  BY <1>0, <1>1, <1>2 DEF Good

\* The thread moves the next sample of the strip that it writes from the line to the files.
SecondTaken(L, M) ==
    Len(L) = Len(M) + 1 /\ Len(M) >= 1 /\ M[1] = L[1] /\ \A j \in 2 .. Len(M) : M[j] = L[j + 1]

LEMMA GoodWritten ==
    ASSUME NEW L \in Seq(Items), NEW M \in Seq(Items), SecondTaken(L, M), L[2].kind \in Data,
           NEW s, NEW d, NEW dr, NEW cu, NEW live, Good(L, 1, s, d, dr, cu, live), d.last \in Nat,
           NEW d2, d2.kinds = d.kinds \cup {L[2].kind}, d2.written = d.written + 1, d2.last = L[2].n
    PROVE  Good(M, 1, s, d2, dr, cu, live)
<1>0. /\ Len(M) \in Nat /\ Len(L) \in Nat /\ 2 \in 1 .. Len(L)
      /\ Len(L) = Len(M) + 1 /\ Len(M) >= 1 /\ M[1] = L[1] /\ \A j \in 2 .. Len(M) : M[j] = L[j + 1]
  BY DEF SecondTaken
<1>1. \A j \in 2 .. Len(M) : j + 1 \in 2 .. Len(L) /\ M[j] = L[j + 1]
  BY <1>0
<1>2. \A j \in 3 .. Len(L) : j - 1 \in 2 .. Len(M) /\ M[j - 1] = L[j]
  <2> TAKE j \in 3 .. Len(L)
  <2>1. j - 1 \in 2 .. Len(M) /\ (j - 1) + 1 = j
    BY <1>0
  <2> QED
    BY <1>1, <2>1
<1>3. Alone(M, 1) <=> Alone(L, 1)
  <2>1. ASSUME Alone(L, 1) PROVE Alone(M, 1)
    BY <1>0, <1>1, <2>1 DEF Alone
  <2>2. ASSUME Alone(M, 1), NEW j \in 2 .. Len(L) PROVE L[j].kind \in Data
    <3>1. CASE j = 2
      BY <3>1
    <3>2. CASE j # 2
      BY <1>2, <2>2, <3>2 DEF Alone
    <3> QED
      BY <3>1, <3>2
  <2> QED
    BY <2>1, <2>2 DEF Alone
<1>4. \A j \in 1 .. Len(M) : Ending(M, 1, j) => Ending(L, 1, j + 1) /\ M[j] = L[j + 1] /\ j + 1 \in 1 .. Len(L)
  <2> SUFFICES ASSUME NEW j \in 1 .. Len(M), Ending(M, 1, j)
               PROVE  Ending(L, 1, j + 1) /\ M[j] = L[j + 1] /\ j + 1 \in 1 .. Len(L)
    OBVIOUS
  <2>1. j \in 2 .. Len(M) /\ j + 1 \in 2 .. Len(L) /\ M[j] = L[j + 1] /\ j + 1 \in 1 .. Len(L)
    BY <1>0, <1>1 DEF Ending
  <2>2. ASSUME NEW m \in 2 .. j PROVE L[m].kind \in Data
    <3>1. CASE m = 2
      BY <3>1
    <3>2. CASE m # 2
      <4>1. m \in 3 .. Len(L) /\ m - 1 \in 2 .. j - 1
        BY <1>0, <2>1, <3>2
      <4> QED
        BY <1>2, <4>1 DEF Ending
    <3> QED
      BY <3>1, <3>2
  <2>3. L[j + 1].kind \notin Data
    BY <2>1 DEF Ending
  <2>4. (j + 1) - 1 = j /\ 1 + 1 = 2
    BY <1>0
  <2> QED
    BY <2>1, <2>2, <2>3, <2>4 DEF Ending
<1>5. \A j \in 1 .. Len(M) : Follows(M, 1, j) => Follows(L, 1, j + 1) /\ M[j] = L[j + 1] /\ j + 1 \in 1 .. Len(L)
  <2> SUFFICES ASSUME NEW j \in 1 .. Len(M), Follows(M, 1, j)
               PROVE  Follows(L, 1, j + 1) /\ M[j] = L[j + 1] /\ j + 1 \in 1 .. Len(L)
    OBVIOUS
  <2>1. j \in 2 .. Len(M) /\ j + 1 \in 2 .. Len(L) /\ M[j] = L[j + 1] /\ j + 1 \in 1 .. Len(L)
    BY <1>0, <1>1 DEF Follows
  <2>2. ASSUME NEW m \in 2 .. j + 1 PROVE L[m].kind \in Data
    <3>1. CASE m = 2
      BY <3>1
    <3>2. CASE m # 2
      <4>1. m \in 3 .. Len(L) /\ m - 1 \in 2 .. j
        BY <1>0, <2>1, <3>2
      <4> QED
        BY <1>2, <4>1 DEF Follows
    <3> QED
      BY <3>1, <3>2
  <2> QED
    BY <2>1, <2>2 DEF Follows
<1>6. \A j \in 1 .. Len(L) : Follows(L, 1, j) =>
          j = 2 \/ (Follows(M, 1, j - 1) /\ M[j - 1] = L[j] /\ j - 1 \in 1 .. Len(M))
  <2> SUFFICES ASSUME NEW j \in 1 .. Len(L), Follows(L, 1, j), j # 2
               PROVE  Follows(M, 1, j - 1) /\ M[j - 1] = L[j] /\ j - 1 \in 1 .. Len(M)
    OBVIOUS
  <2>1. j \in 3 .. Len(L) /\ j - 1 \in 2 .. Len(M) /\ M[j - 1] = L[j] /\ j - 1 \in 1 .. Len(M)
    BY <1>0, <1>2 DEF Follows
  <2>2. ASSUME NEW m \in 2 .. j - 1 PROVE M[m].kind \in Data
    <3>1. m \in 2 .. Len(M) /\ m + 1 \in 2 .. j
      BY <1>0, <2>1
    <3> QED
      BY <1>1, <3>1 DEF Follows
  <2> QED
    BY <2>1, <2>2 DEF Follows
<1>7. \A j \in 2 .. Len(M) : M[j].kind = "start" => M[1].t < M[j].t
  BY <1>0, <1>1 DEF Good
<1>8. \A k \in s.kinds : k \in d2.kinds \/ \E j \in 1 .. Len(M) : Follows(M, 1, j) /\ M[j].kind = k
  <2> SUFFICES ASSUME NEW k \in s.kinds, k \notin d2.kinds
               PROVE  \E j \in 1 .. Len(M) : Follows(M, 1, j) /\ M[j].kind = k
    OBVIOUS
  <2>1. PICK j \in 1 .. Len(L) : Follows(L, 1, j) /\ L[j].kind = k
    BY DEF Good
  <2>2. j # 2
    BY <2>1
  <2> QED
    BY <1>6, <2>1, <2>2
<1>9. ASSUME dr = s.drops
      PROVE  /\ d2.written = d2.last
             /\ \A j \in 1 .. Len(M) : Follows(M, 1, j) => M[j].n = d2.last + (j - 1)
             /\ Alone(M, 1) /\ live => s.offered = d2.last + (Len(M) - 1)
  <2>1. Follows(L, 1, 2)
    BY <1>0 DEF Follows
  <2>2. L[2].n = d.last + 1 /\ d.written = d.last
    BY <1>0, <1>9, <2>1 DEF Good
  <2>3. ASSUME NEW j \in 1 .. Len(M), Follows(M, 1, j) PROVE M[j].n = d2.last + (j - 1)
    <3>1. L[j + 1].n = d.last + ((j + 1) - 1) /\ M[j] = L[j + 1]
      BY <1>5, <1>9, <2>3 DEF Good
    <3>2. (j + 1) - 1 = (j - 1) + 1 /\ j - 1 \in Int
      BY <2>3
    <3>3. d2.last = d.last + 1 /\ d.last \in Int
      BY <1>0, <2>2
    <3>4. M[j].n = d.last + ((j - 1) + 1)
      BY ONLY <3>1, <3>2
    <3>5. d.last + ((j - 1) + 1) = d2.last + (j - 1)
      BY ONLY <3>2, <3>3
    <3> QED
      BY ONLY <3>4, <3>5
  <2>4. Alone(M, 1) /\ live => s.offered = d.last + (Len(L) - 1)
    BY <1>3, <1>9 DEF Good
  <2> QED
    BY <1>0, <2>2, <2>3, <2>4
<1>10. \A j \in 1 .. Len(M) : Ending(M, 1, j) => (s.end = "saved" <=> M[j].kind = "finish" /\ M[j].complete)
  BY <1>4 DEF Good
<1>11. /\ M[1].t <= cu /\ M[1].drops = s.drops /\ s.drops <= dr
       /\ Alone(M, 1) => M[1].t = cu /\ s.end \in {"open", "spoiled"}
       /\ s.end = "open" /\ M[1].t = cu => Alone(M, 1)
  BY <1>0, <1>3 DEF Good
<1> QED
  BY <1>7, <1>8, <1>9, <1>10, <1>11 DEF Good

-----------------------------------------------------------------------------
(* The updates of the ledger of strips and of their files.                 *)

AStrip == [drops : Nat, offered : Nat, kinds : SUBSET Data, end : {"none", "open", "saved", "spoiled"}]
AFile == [manifest : {"none", "incomplete", "complete"}, kinds : SUBSET Data,
          written : Nat, last : Nat, renamed : Nat]

\* The ledger after an offer, the end and the beginning of a strip.
LEMMA OfferedTo ==
    ASSUME strips \in [Ids -> AStrip], current \in Ids, NEW kind \in Data, Offer(kind)
    PROVE  /\ strips' \in [Ids -> AStrip] /\ \A t \in Ids \ {current} : strips'[t] = strips[t]
           /\ strips'[current].offered = strips[current].offered + 1
           /\ strips'[current].kinds = IF Accepts THEN strips[current].kinds \cup {kind} ELSE strips[current].kinds
           /\ strips'[current].drops = strips[current].drops /\ strips'[current].end = strips[current].end
<1> DEFINE n == strips[current].offered + 1
           f == [strips EXCEPT ![current].offered = n]
           ks == IF Accepts THEN f[current].kinds \cup {kind} ELSE f[current].kinds
<1>1. n \in Nat
  BY DEF AStrip
<1>2. /\ f \in [Ids -> AStrip] /\ \A t \in Ids \ {current} : f[t] = strips[t]
      /\ f[current].offered = n /\ f[current].kinds = strips[current].kinds
      /\ f[current].drops = strips[current].drops /\ f[current].end = strips[current].end
  BY <1>1 DEF AStrip
<1> HIDE DEF f
<1>3. ks \in SUBSET Data
  BY <1>2 DEF AStrip
<1>4. strips' = [f EXCEPT ![current].kinds = ks]
  BY DEF Offer, f
<1> HIDE DEF ks
<1>5. /\ strips' \in [Ids -> AStrip] /\ \A t \in Ids \ {current} : strips'[t] = f[t]
      /\ strips'[current].kinds = ks /\ strips'[current].offered = f[current].offered
      /\ strips'[current].drops = f[current].drops /\ strips'[current].end = f[current].end
  BY <1>2, <1>3, <1>4 DEF AStrip
<1> QED
  BY <1>2, <1>5 DEF ks

LEMMA EndedTo ==
    ASSUME strips \in [Ids -> AStrip], current \in Ids, NEW end \in {"saved", "spoiled"}, strips' = Ended(end)
    PROVE  /\ strips' \in [Ids -> AStrip] /\ \A t \in Ids \ {current} : strips'[t] = strips[t]
           /\ strips'[current].end = IF strips[current].end = "open" THEN end ELSE strips[current].end
           /\ strips'[current].offered = strips[current].offered
           /\ strips'[current].drops = strips[current].drops /\ strips'[current].kinds = strips[current].kinds
<1> DEFINE e == IF strips[current].end = "open" THEN end ELSE strips[current].end
<1>1. e \in {"none", "open", "saved", "spoiled"}
  BY DEF AStrip
<1>2. strips' = [strips EXCEPT ![current].end = e]
  BY DEF Ended
<1> HIDE DEF e
<1>3. /\ strips' \in [Ids -> AStrip] /\ \A t \in Ids \ {current} : strips'[t] = strips[t]
      /\ strips'[current].end = e /\ strips'[current].offered = strips[current].offered
      /\ strips'[current].drops = strips[current].drops /\ strips'[current].kinds = strips[current].kinds
  BY <1>1, <1>2 DEF AStrip
<1> QED
  BY <1>3 DEF e

LEMMA BegunTo ==
    ASSUME strips \in [Ids -> AStrip], dropped \in Nat, NEW t \in Ids, strips' = Begun(t)
    PROVE  /\ strips' \in [Ids -> AStrip] /\ \A u \in Ids \ {t} : strips'[u] = strips[u]
           /\ strips'[t].end = "open" /\ strips'[t].offered = 0
           /\ strips'[t].drops = dropped /\ strips'[t].kinds = {}
<1> DEFINE f == [NoStrip EXCEPT !.drops = dropped]
           s == [f EXCEPT !.end = "open"]
<1>1. NoStrip \in AStrip /\ NoStrip.offered = 0 /\ NoStrip.kinds = {}
  BY DEF NoStrip, AStrip
<1>2. f \in AStrip /\ f.drops = dropped /\ f.offered = 0 /\ f.kinds = {}
  BY <1>1 DEF AStrip
<1>3. strips' = [strips EXCEPT ![t] = s]
  BY DEF Begun
<1> HIDE DEF f
<1>4. s \in AStrip /\ s.drops = dropped /\ s.offered = 0 /\ s.kinds = {} /\ s.end = "open"
  BY <1>2 DEF AStrip
<1> HIDE DEF s
<1> QED
  BY <1>3, <1>4

\* The files after a sample, a manifest and a rename.
LEMMA WrittenTo ==
    ASSUME disk \in [Ids -> AFile], strip \in Starts, NEW r \in Items, r.kind \in Data, disk' = Written(r)
    PROVE  /\ disk' \in [Ids -> AFile] /\ strip.t \in Ids /\ \A t \in Ids \ {strip.t} : disk'[t] = disk[t]
           /\ disk'[strip.t].kinds = disk[strip.t].kinds \cup {r.kind}
           /\ disk'[strip.t].written = disk[strip.t].written + 1 /\ disk'[strip.t].last = r.n
           /\ disk'[strip.t].manifest = disk[strip.t].manifest /\ disk'[strip.t].renamed = disk[strip.t].renamed
<1> DEFINE c == strip.t
           f == [disk EXCEPT ![c].kinds = disk[c].kinds \cup {r.kind}]
           g == [f EXCEPT ![c].written = f[c].written + 1]
<1>1. c \in Ids /\ strip # NoRecord
  BY DEF Starts, NoRecord
<1>2. r.n \in Nat
  BY ItemFacts
<1>3. /\ f \in [Ids -> AFile] /\ \A t \in Ids \ {c} : f[t] = disk[t]
      /\ f[c].kinds = disk[c].kinds \cup {r.kind} /\ f[c].written = disk[c].written
      /\ f[c].manifest = disk[c].manifest /\ f[c].renamed = disk[c].renamed
  BY <1>1 DEF AFile
<1>4. disk' = [g EXCEPT ![c].last = r.n]
  BY <1>1 DEF Written, Open
<1> HIDE DEF f
<1>5. /\ g \in [Ids -> AFile] /\ \A t \in Ids \ {c} : g[t] = f[t]
      /\ g[c].kinds = f[c].kinds /\ g[c].written = f[c].written + 1
      /\ g[c].manifest = f[c].manifest /\ g[c].renamed = f[c].renamed
  BY <1>1, <1>3 DEF AFile
<1> HIDE DEF g
<1>6. /\ disk' \in [Ids -> AFile] /\ \A t \in Ids \ {c} : disk'[t] = g[t]
      /\ disk'[c].kinds = g[c].kinds /\ disk'[c].written = g[c].written /\ disk'[c].last = r.n
      /\ disk'[c].manifest = g[c].manifest /\ disk'[c].renamed = g[c].renamed
  BY <1>1, <1>2, <1>4, <1>5 DEF AFile
<1> QED
  BY <1>1, <1>3, <1>5, <1>6

LEMMA ManifestTo ==
    ASSUME disk \in [Ids -> AFile], NEW c \in Ids, NEW m \in {"incomplete", "complete"},
           disk' = [disk EXCEPT ![c].manifest = m]
    PROVE  /\ disk' \in [Ids -> AFile] /\ \A t \in Ids \ {c} : disk'[t] = disk[t]
           /\ disk'[c].manifest = m /\ disk'[c].kinds = disk[c].kinds /\ disk'[c].written = disk[c].written
           /\ disk'[c].last = disk[c].last /\ disk'[c].renamed = disk[c].renamed
BY DEF AFile

LEMMA RenamedTo ==
    ASSUME disk \in [Ids -> AFile], NEW c \in Ids, disk' = [disk EXCEPT ![c].renamed = disk[c].renamed + 1]
    PROVE  /\ disk' \in [Ids -> AFile] /\ \A t \in Ids \ {c} : disk'[t] = disk[t]
           /\ disk'[c].renamed = disk[c].renamed + 1 /\ disk'[c].kinds = disk[c].kinds
           /\ disk'[c].written = disk[c].written /\ disk'[c].last = disk[c].last
           /\ disk'[c].manifest = disk[c].manifest
BY DEF AFile

-----------------------------------------------------------------------------
(* The two threads: what their steps and calls say of what they share.     *)

StripTypes ==
    /\ phase \in Phases /\ op \in Call /\ recording \in BOOLEAN /\ failed \in BOOLEAN
    /\ current \in Nat /\ transition \in Nat /\ dropped \in Nat /\ quit \in BOOLEAN
    /\ strips \in [Ids -> AStrip] /\ disk \in [Ids -> AFile]
    /\ queue \in Seq(Items) /\ state \in States
    /\ pc \in {"loop", "opening", "marking", "closing", "renaming", "settling", "idling", "ended"}
    /\ record \in Items \cup {NoRecord} /\ strip \in Starts \cup {NoRecord}

\* Where the writer thread stands, a strip is open or is not, and its record is of a kind.
ThreadShape ==
    /\ pc \in {"marking", "closing", "renaming"} => Open
    /\ pc \in {"opening", "settling", "idling", "ended"} => ~Open
    /\ pc = "opening" => record.kind = "start"
    /\ pc = "closing" => record.kind \in {"start", "finish"}
    /\ pc = "renaming" => record.kind = "finish"
    /\ pc = "ended" => quit /\ queue = <<>>

\* What the loop knows in the middle of a call: who has told the writer to stop, which
\* strip the numbers are of, and that nothing is captured outside the tick.
CallInv ==
    /\ current <= transition
    /\ op.what \in {"finish", "start"} => ~recording
    /\ recording \/ op.what = "start" => state \in Live \cup {"Failed"}
    /\ op.what = "start" => transition + 1 \in Ids /\ op.old \notin Live
    /\ op.what = "rotate" => recording /\ transition \in Ids /\ current < transition
    /\ op = Packet => recording
    /\ recording /\ op.what # "rotate" => current \in Ids /\ strips[current].end = "open"
    /\ (state \in Live /\ op.what # "start") \/ op.what \in {"finish", "rotate"} =>
          current \in Ids /\ strips[current].end # "spoiled"
    /\ phase \in {"exit", "gone"} => ~recording /\ op.what \in {"finish", "none"}
    /\ phase = "gone" => op.what = "none"
    /\ quit => phase = "gone"

Control == StripTypes /\ ThreadShape /\ CallInv

LEMMA CallFacts ==
    /\ NoCall \in Call /\ Packet \in Call /\ NoCall.what = "none" /\ Packet.what = "packet"
    /\ \A b \in BOOLEAN : [what |-> "finish", complete |-> b] \in Call
    /\ \A x \in States : [what |-> "start", old |-> x] \in Call
    /\ [what |-> "rotate"] \in Call
    /\ \A c \in Call : c.what \in {"none", "packet", "rotate", "finish", "start"}
    /\ \A c \in Call : (c.what = "finish" => c.complete \in BOOLEAN) /\ (c.what = "start" => c.old \in States)
    /\ NoRecord.kind = "none"
BY DEF NoCall, Packet, Call, NoRecord

LEMMA RecordFacts ==
    /\ \A t \in Ids : dropped \in Nat => StartOf(t) \in Items /\ StartOf(t).kind = "start"
                                          /\ StartOf(t).t = t /\ StartOf(t).drops = dropped
    /\ \A t \in Nat, b \in BOOLEAN : FinishOf(t, b) \in Items /\ FinishOf(t, b).kind = "finish" /\ FinishOf(t, b).complete = b
    /\ \A k \in Data, n \in Nat : [kind |-> k, n |-> n] \in Items
    /\ \A r \in Starts : r \in Items /\ r # NoRecord /\ r.kind = "start" /\ r.t \in Ids
<1>1. \A t \in Ids : dropped \in Nat => StartOf(t) \in Starts
  BY DEF StartOf, Starts
<1>2. \A t \in Nat, b \in BOOLEAN : FinishOf(t, b) \in Finishes
  BY DEF FinishOf, Finishes
<1>3. \A k \in Data, n \in Nat : [kind |-> k, n |-> n] \in Samples
  BY DEF Samples
<1>4. \A r \in Starts : r.kind = "start" /\ r.t \in Ids /\ r # NoRecord
  BY DEF Starts, NoRecord
<1> QED
  BY <1>1, <1>2, <1>3, <1>4 DEF Items, StartOf, FinishOf

LEMMA LineQueueFacts ==
    ASSUME NEW q \in Seq(Items)
    PROVE  /\ \A r \in Items : Append(q, r) \in Seq(Items)
           /\ q # <<>> => Tail(q) \in Seq(Items) /\ Head(q) \in Items
<1>1. ASSUME NEW r \in Items PROVE Append(q, r) \in Seq(Items)
  OBVIOUS
<1>2. ASSUME q # <<>> PROVE Tail(q) \in Seq(Items) /\ Head(q) \in Items
  BY <1>2
<1> QED
  BY <1>1, <1>2

\* An offer as the rest of a step sees it.
LEMMA OfferTypes ==
    ASSUME Control, current \in Ids, NEW kind \in Data, Offer(kind)
    PROVE  /\ strips' \in [Ids -> AStrip] /\ queue' \in Seq(Items) /\ dropped' \in Nat
           /\ strips'[current].end = strips[current].end
<1>1. strips[current].offered + 1 \in Nat
  BY DEF Control, StripTypes, AStrip
<1>2. [kind |-> kind, n |-> strips[current].offered + 1] \in Items
  BY <1>1, RecordFacts
<1>3. queue' \in Seq(Items)
  BY <1>2, LineQueueFacts DEF Offer, Control, StripTypes
<1>4. dropped' \in Nat
  BY DEF Offer, Refused, Control, StripTypes
<1> QED
  BY <1>3, <1>4, OfferedTo DEF Control, StripTypes

LEMMA ControlStep ==
    ASSUME Control, [Next]_vars
    PROVE  Control'
<1> USE DEF Control
<1>1. CASE FinishStores
  <2>1. current \in Ids /\ strips[current].end # "spoiled" /\ op.complete \in BOOLEAN /\ transition' \in Nat
    BY <1>1, CallFacts DEF CallInv, StripTypes, FinishStores
  <2>2. FinishOf(transition', op.complete) \in Items
    BY <2>1, RecordFacts
  <2>3. /\ queue' \in Seq(Items) /\ state' \in States /\ state' \notin Live /\ dropped' \in Nat
        /\ op' = NoCall /\ transition' = transition + 1
        /\ UNCHANGED <<phase, recording, failed, current, quit, thread>>
    <3>1. queue' = queue \/ queue' = Append(queue, FinishOf(transition', op.complete))
      BY <1>1 DEF FinishStores
    <3>2. queue' \in Seq(Items)
      BY <2>2, <3>1, LineQueueFacts DEF StripTypes
    <3>3. state' \in {"Closing", "Failed"} /\ dropped' \in Nat
      BY <1>1 DEF FinishStores, StripTypes
    <3> QED
      BY <1>1, <3>2, <3>3 DEF FinishStores, States, Live
  <2>4. strips' \in [Ids -> AStrip]
    <3>1. strips' = Ended("saved") \/ strips' = Ended("spoiled")
      BY <1>1 DEF FinishStores
    <3> QED
      BY <2>1, <3>1, EndedTo DEF StripTypes
  <2>5. StripTypes'
    BY <2>3, <2>4, CallFacts DEF StripTypes, thread
  <2>6. ThreadShape'
    BY <1>1, <2>3, CallFacts DEF ThreadShape, CallInv, thread, Open, FinishStores
  <2>7. CallInv'
    BY <1>1, <2>1, <2>3, CallFacts DEF CallInv, FinishStores, StripTypes
  <2> QED
    BY <2>5, <2>6, <2>7
<1>2. CASE BeginPushes
  <2>1. /\ transition + 1 \in Ids /\ ~recording /\ op.old \in States /\ op.old \notin Live
        /\ transition' = transition + 1 /\ transition + 1 \in Nat /\ dropped \in Nat
        /\ state \in Live \cup {"Failed"} /\ phase \notin {"exit", "gone"} /\ ~quit
    BY <1>2, CallFacts DEF CallInv, StripTypes, BeginPushes
  <2>2. StartOf(transition') \in Items
    BY <2>1, RecordFacts
  <2>3. CASE /\ queue' = Append(queue, StartOf(transition'))
             /\ current' = transition' /\ strips' = Begun(transition')
             /\ recording' = TRUE /\ op' \in {NoCall, Packet} /\ UNCHANGED state
    <3>1. strips' \in [Ids -> AStrip] /\ strips'[transition + 1].end = "open"
      BY <2>1, <2>3, BegunTo DEF StripTypes
    <3>2. /\ queue' \in Seq(Items) /\ current' = transition + 1 /\ recording' = TRUE
          /\ op' \in {NoCall, Packet} /\ state' = state /\ UNCHANGED <<phase, failed, dropped, quit, thread>>
      BY <1>2, <2>1, <2>2, <2>3, LineQueueFacts DEF BeginPushes, StripTypes
    <3>3. StripTypes'
      BY <2>1, <3>1, <3>2, CallFacts DEF StripTypes, thread
    <3>4. ThreadShape'
      BY <2>1, <3>2 DEF ThreadShape, thread, Open
    <3>5. CallInv'
      BY <2>1, <3>1, <3>2, CallFacts DEF CallInv, StripTypes
    <3> QED
      BY <3>3, <3>4, <3>5
  <2>4. CASE /\ state' = op.old /\ op' = NoCall
             /\ UNCHANGED <<queue, current, strips, recording>>
    <3>1. /\ state' = op.old /\ op' = NoCall
          /\ UNCHANGED <<queue, current, strips, recording, phase, failed, dropped, quit, thread>>
      BY <1>2, <2>4 DEF BeginPushes
    <3>2. StripTypes'
      BY <2>1, <3>1, CallFacts DEF StripTypes, thread
    <3>3. ThreadShape'
      BY <2>1, <3>1 DEF ThreadShape, thread, Open
    <3>4. CallInv'
      BY <2>1, <3>1, CallFacts DEF CallInv, StripTypes
    <3> QED
      BY <3>2, <3>3, <3>4
  <2> QED
    BY <1>2, <2>3, <2>4 DEF BeginPushes
<1>3. CASE CapturePacket
  <2>1. /\ recording /\ op.what \in {"packet", "none"} /\ phase \notin {"exit", "gone"} /\ ~quit
        /\ current \in Ids /\ strips[current].end = "open" /\ "raw" \in Data /\ Offer("raw")
    BY <1>3, CallFacts DEF CallInv, CapturePacket, Data
  <2>2. /\ strips' \in [Ids -> AStrip] /\ queue' \in Seq(Items) /\ dropped' \in Nat
        /\ strips'[current].end = "open"
    BY <2>1, OfferTypes
  <2>3. /\ UNCHANGED <<phase, current, state, transition, quit, thread>>
        /\ op' \in Call /\ recording' \in BOOLEAN /\ failed' \in BOOLEAN
        /\ \/ op' = NoCall /\ recording' = recording
           \/ recording' = FALSE /\ op'.what = "finish" /\ state \in Live
           \/ recording' = FALSE /\ op' = NoCall
    BY <1>3, CallFacts DEF CapturePacket, Finish, StripTypes
  <2>4. StripTypes'
    BY <2>2, <2>3 DEF StripTypes, thread
  <2>5. ThreadShape'
    BY <2>1, <2>3 DEF ThreadShape, thread, Open
  <2>6. CallInv'
    BY <2>1, <2>2, <2>3, CallFacts DEF CallInv
  <2> QED
    BY <2>4, <2>5, <2>6
<1>4. CASE Rotate
  <2>1. /\ recording /\ op.what = "none" /\ phase = "feed" /\ ~quit /\ transition' = transition + 2
        /\ transition + 1 \in Nat /\ transition + 2 \in Nat /\ dropped + 1 \in Nat
        /\ transition + 2 \in Ids /\ current \in Ids /\ strips[current].end = "open" /\ state' = "Opening"
    BY <1>4, CallFacts, BoundAssumption DEF CallInv, Rotate, StripTypes, Ids
  <2>2. FinishOf(transition + 1, TRUE) \in Items
    BY <2>1, RecordFacts
  <2>3. CASE strips' = Ended("saved") /\ op' = [what |-> "rotate"]
                /\ queue' = Append(queue, FinishOf(transition + 1, TRUE)) /\ UNCHANGED <<recording, failed, dropped>>
    <3>1. strips' \in [Ids -> AStrip] /\ strips'[current].end = "saved"
      BY <2>1, <2>3, EndedTo DEF StripTypes
    <3>2. queue' \in Seq(Items) /\ UNCHANGED <<phase, current, quit, thread>>
      BY <1>4, <2>2, <2>3, LineQueueFacts DEF Rotate, StripTypes
    <3>3. StripTypes'
      BY <2>1, <2>3, <3>1, <3>2, CallFacts DEF StripTypes, thread, States
    <3>4. ThreadShape'
      BY <2>1, <3>2 DEF ThreadShape, thread, Open
    <3>5. CallInv'
      BY <2>1, <2>3, <3>1, <3>2, CallFacts DEF CallInv, StripTypes, Live, Packet
    <3> QED
      BY <3>3, <3>4, <3>5
  <2>4. CASE /\ dropped' = dropped + 1 /\ recording' = FALSE /\ failed' = TRUE
             /\ UNCHANGED <<queue, op, strips>>
    <3>1. UNCHANGED <<phase, current, quit, thread>>
      BY <1>4 DEF Rotate
    <3>2. StripTypes'
      BY <2>1, <2>4, <3>1 DEF StripTypes, thread, States
    <3>3. ThreadShape'
      BY <2>1, <3>1 DEF ThreadShape, thread, Open
    <3>4. CallInv'
      BY <2>1, <2>4, <3>1, CallFacts DEF CallInv, StripTypes, Live
    <3> QED
      BY <3>2, <3>3, <3>4
  <2> QED
    BY <1>4, <2>3, <2>4 DEF Rotate
<1>5. CASE RotateStarts
  <2>1. /\ recording /\ transition \in Ids /\ current < transition /\ phase \notin {"exit", "gone"} /\ ~quit
        /\ state \in Live \cup {"Failed"} /\ current \in Ids /\ strips[current].end # "spoiled" /\ dropped + 1 \in Nat
    BY <1>5, CallFacts DEF CallInv, RotateStarts, StripTypes
  <2>2. StartOf(transition) \in Items
    BY <2>1, RecordFacts DEF StripTypes
  <2>3. CASE /\ queue' = Append(queue, StartOf(transition))
             /\ current' = transition /\ strips' = Begun(transition) /\ op' = Packet
             /\ UNCHANGED <<recording, failed, dropped>>
    <3>1. strips' \in [Ids -> AStrip] /\ strips'[transition].end = "open"
      BY <2>1, <2>3, BegunTo DEF StripTypes
    <3>2. queue' \in Seq(Items) /\ UNCHANGED <<phase, state, transition, quit, thread>>
      BY <1>5, <2>2, <2>3, LineQueueFacts DEF RotateStarts, StripTypes
    <3>3. StripTypes'
      BY <2>3, <3>1, <3>2, CallFacts DEF StripTypes, thread
    <3>4. ThreadShape'
      BY <2>1, <3>2 DEF ThreadShape, thread, Open
    <3>5. CallInv'
      BY <2>1, <2>3, <3>1, <3>2, CallFacts DEF CallInv, StripTypes
    <3> QED
      BY <3>3, <3>4, <3>5
  <2>4. CASE /\ dropped' = dropped + 1 /\ recording' = FALSE /\ failed' = TRUE /\ op' = NoCall
             /\ UNCHANGED <<queue, current, strips>>
    <3>1. UNCHANGED <<phase, state, transition, quit, thread>>
      BY <1>5 DEF RotateStarts
    <3>2. StripTypes'
      BY <2>1, <2>4, <3>1, CallFacts DEF StripTypes, thread
    <3>3. ThreadShape'
      BY <2>1, <3>1 DEF ThreadShape, thread, Open
    <3>4. CallInv'
      BY <2>1, <2>4, <3>1, CallFacts DEF CallInv
    <3> QED
      BY <3>2, <3>3, <3>4
  <2> QED
    BY <1>5, <2>3, <2>4 DEF RotateStarts
<1>6. CASE Check \/ Exit
  <2>1. /\ op = NoCall /\ phase = "feed" /\ phase' \in {"buttons", "exit"} /\ ~quit
        /\ UNCHANGED <<current, strips, shared, thread>> /\ failed' \in BOOLEAN
        /\ \/ phase' = "buttons" /\ UNCHANGED <<recording, op>>
           \/ recording' = FALSE /\ op' \in Call /\ op'.what = "finish" /\ state \in Live
           \/ recording' = FALSE /\ op' = NoCall
    <3>1. /\ op = NoCall /\ phase = "feed" /\ phase' \in {"buttons", "exit"} /\ ~quit
          /\ UNCHANGED <<current, strips, shared, thread>> /\ failed' \in BOOLEAN
      BY <1>6 DEF Check, Exit, At, StripTypes, CallInv
    <3>2. \/ phase' = "buttons" /\ UNCHANGED <<recording, op>>
          \/ \E b \in BOOLEAN : Stop(b)
      BY <1>6 DEF Check, Exit, At, StripTypes
    <3> QED
      BY <3>1, <3>2, CallFacts DEF Stop, Finish
  <2>2. StripTypes'
    BY <2>1, CallFacts DEF StripTypes, thread, shared, Phases
  <2>3. ThreadShape'
    BY <2>1 DEF ThreadShape, thread, shared, Open
  <2>4. CallInv'
    BY <2>1, CallFacts DEF CallInv, shared
  <2> QED
    BY <2>2, <2>3, <2>4
<1>7. CASE Buttons
  <2>1. /\ op = NoCall /\ phase = "buttons" /\ phase' = "drive" /\ ~quit /\ UNCHANGED thread
    BY <1>7 DEF Buttons, At, CallInv
  <2>2. CASE Stop(TRUE) /\ UNCHANGED <<failed, current, strips, refusedStart, shared>>
    <3>1. recording' = FALSE /\ ((op' \in Call /\ op'.what = "finish" /\ state \in Live) \/ op' = NoCall)
      BY <2>2, CallFacts DEF Stop, Finish
    <3>2. StripTypes'
      BY <2>1, <2>2, <3>1, CallFacts DEF StripTypes, thread, shared, Phases
    <3>3. ThreadShape'
      BY <2>1, <2>2 DEF ThreadShape, thread, shared, Open
    <3>4. CallInv'
      BY <2>1, <2>2, <3>1, CallFacts DEF CallInv, shared
    <3> QED
      BY <3>2, <3>3, <3>4
  <2>3. CASE ~recording /\ Begin
    <3>1. UNCHANGED <<recording, failed, current, strips, queue, transition, dropped, quit>>
      BY <2>3 DEF Begin
    <3>2. \/ UNCHANGED <<state, op>>
          \/ /\ state \notin Live /\ transition + 1 \in Ids /\ state' = "Opening"
             /\ op' = [what |-> "start", old |-> state]
      BY <2>3, BoundAssumption DEF Begin, Ids, StripTypes
    <3>3. StripTypes'
      BY <2>1, <3>1, <3>2, CallFacts, SMTT(30) DEF StripTypes, thread, Phases, States
    <3>4. ThreadShape'
      BY <2>1, <3>1 DEF ThreadShape, thread, Open
    <3>5. CallInv'
      BY <2>1, <2>3, <3>1, <3>2, CallFacts DEF CallInv, Live, Packet
    <3> QED
      BY <3>3, <3>4, <3>5
  <2>4. CASE UNCHANGED <<op, recording, failed, current, strips, refusedStart, shared>>
    BY <2>1, <2>4, CallFacts DEF StripTypes, ThreadShape, CallInv, thread, shared, Open, Phases
  <2> QED
    BY <1>7, <2>2, <2>3, <2>4 DEF Buttons
<1>8. CASE PushBlock
  <2>1. /\ op = NoCall /\ phase = "drive" /\ recording /\ ~quit /\ current \in Ids
        /\ strips[current].end = "open" /\ "block" \in Data /\ Offer("block")
        /\ phase' = "drive" /\ failed' = (failed \/ ~Accepts)
        /\ UNCHANGED <<op, recording, current, state, transition, quit, thread>>
    BY <1>8, CallFacts DEF PushBlock, Push, At, CallInv, Data
  <2>2. /\ strips' \in [Ids -> AStrip] /\ queue' \in Seq(Items) /\ dropped' \in Nat
        /\ strips'[current].end = "open"
    BY <2>1, OfferTypes
  <2>3. StripTypes'
    BY <2>1, <2>2 DEF StripTypes, thread
  <2>4. ThreadShape'
    BY <2>1 DEF ThreadShape, thread, Open
  <2>5. CallInv'
    BY <2>1, <2>2, CallFacts DEF CallInv
  <2> QED
    BY <2>3, <2>4, <2>5
<1>9. CASE PushDrive
  <2>1. /\ op = NoCall /\ phase = "drive" /\ ~quit /\ phase' = "feed"
        /\ UNCHANGED <<current, state, transition, quit, thread>>
        /\ \/ UNCHANGED <<op, recording>>
           \/ recording' = FALSE /\ op' \in Call /\ op'.what = "finish" /\ state \in Live
           \/ recording' = FALSE /\ op' = NoCall
    BY <1>9, CallFacts DEF PushDrive, At, CallInv, Stop, Finish
  <2>2. CASE recording
    <3>1. /\ current \in Ids /\ strips[current].end = "open" /\ "drive" \in Data /\ Offer("drive")
          /\ failed' = (failed \/ ~Accepts)
      BY <1>9, <2>1, <2>2, CallFacts DEF PushDrive, Push, CallInv, Data
    <3>2. /\ strips' \in [Ids -> AStrip] /\ queue' \in Seq(Items) /\ dropped' \in Nat
          /\ strips'[current].end = "open"
      BY <3>1, OfferTypes
    <3>3. StripTypes'
      BY <2>1, <3>1, <3>2, CallFacts DEF StripTypes, thread, Phases
    <3>4. ThreadShape'
      BY <2>1 DEF ThreadShape, thread, Open
    <3>5. CallInv'
      BY <2>1, <3>1, <3>2, CallFacts DEF CallInv
    <3> QED
      BY <3>3, <3>4, <3>5
  <2>3. CASE ~recording
    <3>1. UNCHANGED <<failed, strips, queue, dropped, op, recording>>
      BY <1>9, <2>3 DEF PushDrive
    <3> QED
      BY <2>1, <3>1, CallFacts DEF StripTypes, ThreadShape, CallInv, thread, Open, Phases
  <2> QED
    BY <2>2, <2>3 DEF StripTypes
<1>10. CASE Shutdown
  <2>1. /\ op = NoCall /\ phase = "exit" /\ phase' = "gone" /\ quit' = TRUE
        /\ UNCHANGED <<op, recording, failed, current, strips, queue, state, transition, dropped, thread>>
    BY <1>10 DEF Shutdown, At
  <2> QED
    BY <2>1, CallFacts DEF StripTypes, ThreadShape, CallInv, thread, Open, Phases
<1>11. CASE Pop
  <2>1. queue # <<>> /\ pc = "loop" /\ record' = Head(queue) /\ queue' = Tail(queue) /\ record' \in Items
        /\ queue' \in Seq(Items) /\ UNCHANGED <<loop, state, transition, dropped, quit, strip>>
    BY <1>11, LineQueueFacts DEF Pop, StripTypes
  <2>2. disk' \in [Ids -> AFile]
    <3>1. CASE disk' = disk
      BY <3>1 DEF StripTypes
    <3>2. CASE disk' # disk
      <4>1. record'.kind \in Data /\ disk' = Written(record')
        BY <1>11, <3>2 DEF Pop
      <4>2. strip \in Starts
        BY <3>2, <4>1 DEF Written, Open, StripTypes
      <4> QED
        BY <2>1, <4>1, <4>2, WrittenTo DEF StripTypes
    <3> QED
      BY <3>1, <3>2
  <2>3. /\ pc' \in {"loop", "closing", "opening", "settling"}
        /\ pc' = "closing" => Open /\ record'.kind \in {"start", "finish"}
        /\ pc' = "opening" => ~Open /\ record'.kind = "start"
        /\ pc' = "settling" => ~Open
    BY <1>11 DEF Pop
  <2>4. StripTypes'
    BY <2>1, <2>2, <2>3 DEF StripTypes, loop
  <2>5. ThreadShape'
    BY <2>1, <2>3 DEF ThreadShape, Open
  <2>6. CallInv'
    BY <2>1 DEF CallInv, loop
  <2> QED
    BY <2>4, <2>5, <2>6
<1>12. CASE Opened
  <2>1. /\ pc = "opening" /\ pc' \in {"marking", "loop"} /\ strip' = record /\ UNCHANGED <<loop, shared, record>>
        /\ disk' = [disk EXCEPT ![record.t].manifest = "incomplete"]
    BY <1>12 DEF Opened, Step
  <2>2. record \in Starts /\ record.t \in Ids /\ record # NoRecord
    BY <2>1, CallFacts, ItemFacts, RecordFacts DEF ThreadShape, StripTypes
  <2>3. disk' \in [Ids -> AFile]
    BY <2>1, <2>2, ManifestTo DEF StripTypes
  <2>4. StripTypes'
    BY <2>1, <2>2, <2>3 DEF StripTypes, loop, shared
  <2>5. ThreadShape'
    BY <2>1, <2>2 DEF ThreadShape, Open
  <2>6. CallInv'
    BY <2>1 DEF CallInv, loop, shared
  <2> QED
    BY <2>4, <2>5, <2>6
<1>13. CASE Mark \/ Idle
  <2>1. /\ pc \in {"marking", "idling"} /\ pc' = "loop" /\ UNCHANGED <<loop, queue, transition, dropped, quit, record, strip, disk>>
        /\ state' = state \/ (state = "Opening" /\ state' = "Recording") \/ (state = "Closing" /\ state' = "Idle")
    BY <1>13 DEF Mark, Idle, Step
  <2>2. StripTypes'
    BY <2>1 DEF StripTypes, loop, States
  <2>3. ThreadShape'
    BY <2>1 DEF ThreadShape, Open
  <2>4. CallInv'
    BY <2>1 DEF CallInv, loop, Live
  <2> QED
    BY <2>2, <2>3, <2>4
<1>14. CASE Close
  <2>1. pc = "closing" /\ UNCHANGED <<loop, shared, record>> /\ strip \in Starts /\ strip.t \in Ids /\ Open
    BY <1>14, RecordFacts DEF Close, ThreadShape, StripTypes, Open
  <2>2. \/ pc' = "renaming" /\ disk' = [disk EXCEPT ![strip.t].manifest = "complete"] /\ UNCHANGED strip /\ record.kind = "finish"
        \/ pc' \in {"opening", "settling"} /\ strip' = NoRecord /\ UNCHANGED disk /\ (pc' = "opening" => record.kind = "start")
    BY <1>14 DEF Close, Complete
  <2>3. disk' \in [Ids -> AFile]
    BY <2>1, <2>2, ManifestTo DEF StripTypes
  <2>4. StripTypes'
    BY <2>1, <2>2, <2>3 DEF StripTypes, loop, shared
  <2>5. ThreadShape'
    BY <2>1, <2>2 DEF ThreadShape, Open
  <2>6. CallInv'
    BY <2>1 DEF CallInv, loop, shared
  <2> QED
    BY <2>4, <2>5, <2>6
<1>15. CASE Rename
  <2>1. /\ pc = "renaming" /\ UNCHANGED <<loop, shared, pc, record, strip>> /\ strip \in Starts /\ strip.t \in Ids
        /\ disk' = [disk EXCEPT ![strip.t].renamed = disk[strip.t].renamed + 1]
    BY <1>15, RecordFacts DEF Rename, ThreadShape, StripTypes, Open
  <2>2. disk' \in [Ids -> AFile]
    BY <2>1, RenamedTo DEF StripTypes
  <2> QED
    BY <2>1, <2>2 DEF StripTypes, ThreadShape, CallInv, loop, shared, Open
<1>16. CASE SyncDirectory \/ Settle \/ End
  <2>1. /\ UNCHANGED <<loop, shared, record, disk>>
        /\ \/ pc' = "settling" /\ strip' = NoRecord
           \/ pc = "settling" /\ pc' \in {"idling", "loop"} /\ strip' = strip
           \/ pc' = "ended" /\ quit /\ queue = <<>> /\ strip' = NoRecord
    BY <1>16 DEF SyncDirectory, Settle, End, Step, Ends
  <2>2. StripTypes'
    BY <2>1 DEF StripTypes, loop, shared
  <2>3. ThreadShape'
    BY <2>1 DEF ThreadShape, shared, Open
  <2>4. CallInv'
    BY <2>1 DEF CallInv, loop, shared
  <2> QED
    BY <2>2, <2>3, <2>4
<1>17. CASE Fail
  <2>1. /\ UNCHANGED <<loop, queue, transition, dropped, quit, record>> /\ pc' = "loop" /\ strip' = NoRecord /\ state' = "Failed"
    BY <1>17 DEF Fail
  <2>2. disk' \in [Ids -> AFile]
    <3>1. CASE disk' = disk
      BY <3>1 DEF StripTypes
    <3>2. CASE disk' # disk
      <4>1. pc = "closing" /\ disk' = [disk EXCEPT ![strip.t].manifest = "complete"]
        BY <1>17, <3>2 DEF Fail
      <4>2. strip \in Starts /\ strip.t \in Ids
        BY <4>1, RecordFacts DEF ThreadShape, StripTypes, Open
      <4> QED
        BY <4>1, <4>2, ManifestTo DEF StripTypes
    <3> QED
      BY <3>1, <3>2
  <2>3. StripTypes'
    BY <2>1, <2>2 DEF StripTypes, loop, States
  <2>4. ThreadShape'
    BY <2>1 DEF ThreadShape
  <2>5. CallInv'
    BY <2>1 DEF CallInv, loop, Live
  <2> QED
    BY <2>3, <2>4, <2>5
<1>18. CASE UNCHANGED vars
  BY <1>18 DEF vars, loop, shared, thread, StripTypes, ThreadShape, CallInv, Open
<1> QED
  BY <1>1, <1>2, <1>3, <1>4, <1>5, <1>6, <1>7, <1>8, <1>9, <1>10, <1>11, <1>12, <1>13, <1>14, <1>15, <1>16, <1>17, <1>18
  DEF Next, Collector, Thread

-----------------------------------------------------------------------------
(* The line: the open strip, the record in hand and the queue.             *)

Ahead == IF pc \in {"opening", "closing", "renaming"} THEN <<record>> \o queue ELSE queue
Line == IF Open THEN <<strip>> \o Ahead ELSE Ahead
Capturing == recording /\ state \in Live /\ op.what # "rotate"

Blank(t) == disk[t].written = 0 /\ disk[t].last = 0 /\ disk[t].kinds = {}
InLine(t) == \E i \in 1 .. Len(Line) : Line[i].kind = "start" /\ Line[i].t = t
Whole(t) ==
    /\ disk[t].manifest = "complete" /\ strips[t].end = "saved"
    /\ {"raw", "drive"} \subseteq disk[t].kinds /\ disk[t].written = disk[t].last
Owed(t) ==
    strips[t].end = "saved" /\ strips[t].drops = dropped /\ {"raw", "drive"} \subseteq strips[t].kinds

\* Counts of refused records only grow, and a strip to come has no files.
LedgerInv ==
    \A t \in Ids :
        /\ strips[t].drops <= dropped /\ disk[t].renamed <= Len(Outputs)
        /\ t > current => strips[t].end = "none" /\ Blank(t) /\ disk[t].renamed = 0
LineInv ==
    \A i \in 1 .. Len(Line) : Line[i].kind = "start" =>
        Good(Line, i, strips[Line[i].t], disk[Line[i].t], dropped, current, Capturing)
\* A strip that waits in the line has no samples in its files, and none has its final names.
FreshInv ==
    \A i \in 1 .. Len(Line) : Line[i].kind = "start" =>
        /\ i > 1 \/ ~Open => Blank(Line[i].t)
        /\ i > 1 \/ pc # "renaming" => disk[Line[i].t].renamed = 0
\* A strip that is owed a commit is in the line until it has it; only whole strips are renamed.
EndInv ==
    /\ \A t \in Ids \ hurt : Owed(t) => InLine(t) \/ disk[t].renamed = Len(Outputs)
    /\ \A t \in Ids \ hurt : strips[t].end = "open" /\ t = current /\ pc # "ended" => InLine(t)
    /\ \A t \in Ids : disk[t].renamed > 0 => Whole(t)
    /\ pc = "renaming" => Whole(strip.t)

Strips == LedgerInv /\ LineInv /\ FreshInv /\ EndInv

LEMMA ConsFacts ==
    ASSUME NEW q \in Seq(Items), NEW r \in Items
    PROVE  /\ <<r>> \o q \in Seq(Items) /\ Len(<<r>> \o q) = Len(q) + 1 /\ (<<r>> \o q)[1] = r
           /\ \A j \in 1 .. Len(q) : (<<r>> \o q)[j + 1] = q[j]
           /\ \A x \in Items : <<r>> \o Append(q, x) = Append(<<r>> \o q, x)
<1>1. <<r>> \in Seq(Items) /\ Len(<<r>>) = 1
  OBVIOUS
<1>2. <<r>> \o q \in Seq(Items) /\ Len(<<r>> \o q) = Len(q) + 1 /\ (<<r>> \o q)[1] = r
  OBVIOUS
<1>3. \A j \in 1 .. Len(q) : (<<r>> \o q)[j + 1] = q[j]
  OBVIOUS
<1>4. ASSUME NEW x \in Items PROVE <<r>> \o Append(q, x) = Append(<<r>> \o q, x)
  <2>1. <<x>> \in Seq(Items)
    OBVIOUS
  <2>2. Append(q, x) = q \o <<x>> /\ Append(<<r>> \o q, x) = (<<r>> \o q) \o <<x>>
    BY <1>2, AppendIsConcat
  <2> QED
    BY <1>1, <2>1, <2>2, ConcatAssociative
<1> QED
  BY <1>2, <1>3, <1>4

LEMMA LineFacts ==
    ASSUME Control
    PROVE  /\ Ahead \in Seq(Items) /\ Line \in Seq(Items)
           /\ \A i \in 1 .. Len(Line) : Line[i] \in Items /\ (Line[i].kind = "start" => Line[i].t \in Ids)
           /\ Open => /\ Len(Line) = Len(Ahead) + 1 /\ Line[1] = strip /\ strip.kind = "start" /\ strip.t \in Ids
                      /\ \A j \in 1 .. Len(Ahead) : Line[j + 1] = Ahead[j]
<1>1. pc \in {"opening", "closing", "renaming"} => record \in Items
  BY CallFacts DEF Control, ThreadShape, StripTypes
<1>2. Ahead \in Seq(Items)
  BY <1>1, ConsFacts DEF Ahead, Control, StripTypes
<1>3. Open => strip \in Starts /\ strip \in Items /\ strip.kind = "start" /\ strip.t \in Ids
  BY RecordFacts DEF Open, Control, StripTypes
<1>4. Open => /\ Line \in Seq(Items) /\ Len(Line) = Len(Ahead) + 1 /\ Line[1] = strip
              /\ \A j \in 1 .. Len(Ahead) : Line[j + 1] = Ahead[j]
  <2> SUFFICES ASSUME Open
               PROVE  /\ Line \in Seq(Items) /\ Len(Line) = Len(Ahead) + 1 /\ Line[1] = strip
                      /\ \A j \in 1 .. Len(Ahead) : Line[j + 1] = Ahead[j]
    OBVIOUS
  <2>1. Line = <<strip>> \o Ahead
    BY DEF Line
  <2> QED
    BY <1>2, <1>3, <2>1, ConsFacts
<1>5. Line \in Seq(Items)
  BY <1>2, <1>4 DEF Line
<1>6. \A i \in 1 .. Len(Line) : Line[i] \in Items
  BY <1>5
<1> QED
  BY <1>2, <1>3, <1>4, <1>5, <1>6, ItemFacts

LEMMA NextLine ==
    ASSUME Control'
    PROVE  Line' \in Seq(Items)
<1>1. pc' \in {"opening", "closing", "renaming"} => record' \in Items
  BY CallFacts DEF Control, ThreadShape, StripTypes
<1>2. Ahead' \in Seq(Items)
  BY <1>1, ConsFacts DEF Ahead, Control, StripTypes
<1>3. Open' => strip' \in Items
  BY RecordFacts DEF Open, Control, StripTypes
<1> QED
  BY <1>2, <1>3, ConsFacts DEF Line, Control

LEMMA LineGrows ==
    ASSUME Control, NEW r \in Items, queue' = Append(queue, r), UNCHANGED <<pc, record, strip>>
    PROVE  /\ Line' = Append(Line, r)
           /\ Line' \in Seq(Items) /\ Len(Line') = Len(Line) + 1 /\ Line'[Len(Line')] = r
           /\ \A i \in 1 .. Len(Line) : Line'[i] = Line[i] /\ i \in 1 .. Len(Line')
           /\ \A i \in 1 .. Len(Line') : i \in 1 .. Len(Line) \/ i = Len(Line')
           /\ \A t : InLine(t)' <=> (InLine(t) \/ (r.kind = "start" /\ r.t = t))
<1>1. pc \in {"opening", "closing", "renaming"} => record \in Items
  BY CallFacts DEF Control, ThreadShape, StripTypes
<1>2. Open => strip \in Items
  BY RecordFacts DEF Open, Control, StripTypes
<1>3. Ahead' = Append(Ahead, r)
  BY <1>1, ConsFacts DEF Ahead, Control, StripTypes
<1>4. Line' = Append(Line, r)
  BY <1>2, <1>3, ConsFacts, LineFacts DEF Line, Open
<1>5. Line \in Seq(Items)
  BY LineFacts
<1>6. /\ Line' \in Seq(Items) /\ Len(Line') = Len(Line) + 1 /\ Line'[Len(Line')] = r /\ Len(Line) \in Nat
      /\ \A i \in 1 .. Len(Line) : Line'[i] = Line[i]
  BY <1>4, <1>5, AppendFacts
<1>7. /\ \A i \in 1 .. Len(Line) : i \in 1 .. Len(Line')
      /\ \A i \in 1 .. Len(Line') : i \in 1 .. Len(Line) \/ i = Len(Line')
      /\ Len(Line') \in 1 .. Len(Line')
  BY <1>6
<1>8. \A t : InLine(t)' <=> (InLine(t) \/ (r.kind = "start" /\ r.t = t))
  <2> TAKE t
  <2>1. InLine(t)' <=> \E i \in 1 .. Len(Line') : Line'[i].kind = "start" /\ Line'[i].t = t
    BY DEF InLine
  <2>2. InLine(t) <=> \E i \in 1 .. Len(Line) : Line[i].kind = "start" /\ Line[i].t = t
    BY DEF InLine
  <2> QED
    BY <1>6, <1>7, <2>1, <2>2
<1> QED
  BY <1>4, <1>6, <1>7, <1>8

\* A step that pushes nothing: at most a record is refused or the captured strip is spoiled.
LEMMA NothingPushed ==
    ASSUME Control, Control', Strips, UNCHANGED <<current, queue, pc, record, strip, disk, hurt>>,
           dropped <= dropped', Capturing' /\ dropped' = dropped => Capturing,
           \A t \in Ids :
               /\ strips'[t].drops = strips[t].drops /\ strips'[t].kinds = strips[t].kinds
               /\ strips'[t].end = strips[t].end
                  \/ (t = current /\ strips[t].end = "open" /\ strips'[t].end = "spoiled")
               /\ Capturing' /\ dropped' = dropped => strips'[t].offered = strips[t].offered
    PROVE  Strips'
<1>0. dropped \in Nat /\ dropped' \in Nat /\ \A t \in Ids : strips[t].drops \in Nat
  BY DEF Control, StripTypes, AStrip
<1>1. Line' = Line /\ (Open' <=> Open) /\ \A t : InLine(t)' <=> InLine(t)
  BY DEF Line, Ahead, Open, InLine
<1>2. LedgerInv'
  BY <1>0 DEF Strips, LedgerInv, Blank
<1>3. LineInv'
  <2> SUFFICES ASSUME NEW i \in 1 .. Len(Line), Line[i].kind = "start"
               PROVE  Good(Line, i, strips'[Line[i].t], disk[Line[i].t], dropped', current, Capturing')
    BY <1>1 DEF LineInv
  <2> DEFINE t == Line[i].t
  <2>1. t \in Ids /\ Line \in Seq(Items)
    BY LineFacts
  <2>2. Good(Line, i, strips[t], disk[t], dropped, current, Capturing)
    BY DEF Strips, LineInv
  <2>3. strips[t].end = "open" /\ t = current => Alone(Line, i)
    BY <2>2 DEF Good
  <2>4. /\ strips'[t].drops = strips[t].drops /\ strips'[t].kinds = strips[t].kinds
        /\ strips'[t].end = strips[t].end
           \/ (strips[t].end = "open" /\ strips'[t].end = "spoiled" /\ Alone(Line, i))
        /\ strips[t].drops \in Nat /\ strips[t].drops <= dropped
    BY <1>0, <2>1, <2>3 DEF Strips, LedgerInv
  <2>5. Capturing' /\ dropped' = strips[t].drops => Capturing /\ strips'[t].offered = strips[t].offered
    BY <1>0, <2>1, <2>4
  <2> HIDE DEF t
  <2> QED
    BY <1>0, <2>1, <2>2, <2>4, <2>5, GoodSame DEF t
<1>4. FreshInv'
  BY <1>1 DEF Strips, FreshInv, Blank
<1>5. EndInv'
  <2>1. \A t \in Ids : Owed(t)' => Owed(t)
    BY <1>0 DEF Owed, Strips, LedgerInv
  <2>2. \A t \in Ids : Whole(t) => Whole(t)'
    BY DEF Whole
  <2>3. \A t \in Ids \ hurt' : Owed(t)' => InLine(t)' \/ disk'[t].renamed = Len(Outputs)
    BY <1>1, <2>1 DEF Strips, EndInv
  <2>4. \A t \in Ids \ hurt' : strips'[t].end = "open" /\ t = current' /\ pc' # "ended" => InLine(t)'
    BY <1>1 DEF Strips, EndInv
  <2>5. \A t \in Ids : disk'[t].renamed > 0 => Whole(t)'
    BY <2>2 DEF Strips, EndInv
  <2>6. pc' = "renaming" => Whole(strip.t)'
    BY <2>2, LineFacts DEF Strips, EndInv, Control, ThreadShape
  <2> QED
    BY <2>3, <2>4, <2>5, <2>6 DEF EndInv
<1> QED
  BY <1>2, <1>3, <1>4, <1>5 DEF Strips

\* A sample that is accepted while a strip is captured.
LEMMA SamplePushed ==
    ASSUME Control, Control', Strips, Capturing, current \in Ids, strips[current].end = "open",
           NEW kind \in Data, Offer(kind), Accepts, UNCHANGED <<current, pc, record, strip, disk, hurt>>
    PROVE  Strips'
<1> DEFINE r == [kind |-> kind, n |-> strips[current].offered + 1]
<1>0. /\ strips[current].offered \in Nat /\ r \in Items /\ r.kind \in Data /\ r.kind # "start"
      /\ r.kind = kind /\ r.n = strips[current].offered + 1
      /\ \A t \in Ids : disk[t].last \in Nat
  <2>1. strips[current].offered \in Nat /\ \A t \in Ids : disk[t].last \in Nat
    BY DEF Control, StripTypes, AStrip, AFile
  <2>2. r \in Items
    BY <2>1, RecordFacts
  <2> QED
    BY <2>1, <2>2 DEF Data
<1>1. queue' = Append(queue, r) /\ dropped' = dropped
  BY DEF Offer, Refused
<1> HIDE DEF r
<1>2. /\ \A t \in Ids \ {current} : strips'[t] = strips[t]
      /\ strips'[current].offered = strips[current].offered + 1
      /\ strips'[current].kinds = strips[current].kinds \cup {kind}
      /\ strips'[current].drops = strips[current].drops /\ strips'[current].end = strips[current].end
  BY OfferedTo DEF Control, StripTypes
<1>3. /\ Line' = Append(Line, r) /\ Len(Line') = Len(Line) + 1 /\ Line'[Len(Line')] = r
      /\ \A i \in 1 .. Len(Line) : Line'[i] = Line[i] /\ i \in 1 .. Len(Line')
      /\ \A i \in 1 .. Len(Line') : i \in 1 .. Len(Line) \/ i = Len(Line')
      /\ \A t : InLine(t)' <=> InLine(t)
  BY <1>0, <1>1, LineGrows
<1>4. Open' <=> Open
  BY DEF Open
<1>5. LedgerInv'
  BY <1>1, <1>2 DEF Strips, LedgerInv, Blank
<1>6. LineInv'
  <2> SUFFICES ASSUME NEW i \in 1 .. Len(Line'), Line'[i].kind = "start"
               PROVE  Good(Line', i, strips'[Line'[i].t], disk'[Line'[i].t], dropped', current', Capturing')
    BY DEF LineInv
  <2>1. i \in 1 .. Len(Line) /\ Line'[i] = Line[i] /\ Line[i].kind = "start"
    BY <1>0, <1>3
  <2> DEFINE t == Line[i].t
  <2>2. t \in Ids /\ t \in Int /\ current \in Int /\ current <= current /\ Line \in Seq(Items)
    BY <2>1, LineFacts DEF Control, StripTypes, Ids
  <2>3. Good(Line, i, strips[t], disk[t], dropped, current, Capturing)
    BY <2>1 DEF Strips, LineInv
  <2> HIDE DEF t
  <2>4. CASE Alone(Line, i)
    <3>1. t = current
      BY <2>3, <2>4 DEF Good, t
    <3>2. Capturing = TRUE
      BY DEF Capturing
    <3>3. Good(Line, i, strips[t], disk[t], dropped, current, TRUE)
      BY <2>3, <3>2
    <3>4. Good(Line', i, strips'[t], disk[t], dropped, current, Capturing')
      <4>1. /\ r.kind \in Data /\ r.n = strips[t].offered + 1 /\ strips[t].offered \in Nat /\ disk[t].last \in Nat
            /\ strips'[t].offered = strips[t].offered + 1 /\ strips'[t].kinds = strips[t].kinds \cup {r.kind}
            /\ strips'[t].drops = strips[t].drops /\ strips'[t].end = strips[t].end
        BY <1>0, <1>2, <2>2, <3>1
      <4>2. r \in Items /\ Line' = Append(Line, r) /\ Line \in Seq(Items) /\ i \in 1 .. Len(Line)
        BY <1>0, <1>3, <2>1, <2>2
      <4> QED
        BY <2>4, <3>3, <4>1, <4>2, GoodMore
    <3> QED
      BY <1>1, <2>1, <3>4 DEF t
  <2>5. CASE ~Alone(Line, i)
    <3>1. t # current
      BY <2>3, <2>5 DEF Good, t
    <3>2. Good(Line', i, strips[t], disk[t], dropped, current, Capturing')
      BY <1>0, <1>3, <2>1, <2>2, <2>3, <2>5, GoodOther DEF t
    <3> QED
      BY <1>1, <1>2, <2>1, <2>2, <3>1, <3>2 DEF t
  <2> QED
    BY <2>4, <2>5
<1>7. FreshInv'
  <2> SUFFICES ASSUME NEW i \in 1 .. Len(Line'), Line'[i].kind = "start"
               PROVE  /\ i > 1 \/ ~Open => Blank(Line'[i].t)
                      /\ i > 1 \/ pc # "renaming" => disk[Line'[i].t].renamed = 0
    BY <1>4 DEF FreshInv, Blank
  <2>1. i \in 1 .. Len(Line) /\ Line'[i] = Line[i] /\ Line[i].kind = "start"
    BY <1>0, <1>3
  <2> QED
    BY <2>1 DEF Strips, FreshInv
<1>8. EndInv'
  <2>1. \A t \in Ids : Owed(t)' => Owed(t)
    BY <1>1, <1>2 DEF Owed
  <2>2. \A t \in Ids : Whole(t) => Whole(t)'
    BY <1>2 DEF Whole
  <2>3. \A t \in Ids : strips'[t].end = strips[t].end
    BY <1>2
  <2>4. \A t \in Ids \ hurt' : Owed(t)' => InLine(t)' \/ disk'[t].renamed = Len(Outputs)
    BY <1>3, <2>1 DEF Strips, EndInv
  <2>5. \A t \in Ids \ hurt' : strips'[t].end = "open" /\ t = current' /\ pc' # "ended" => InLine(t)'
    BY <1>3, <2>3 DEF Strips, EndInv
  <2>6. \A t \in Ids : disk'[t].renamed > 0 => Whole(t)'
    BY <2>2 DEF Strips, EndInv
  <2>7. pc' = "renaming" => Whole(strip.t)'
    BY <2>2, LineFacts DEF Strips, EndInv, Control, ThreadShape
  <2> QED
    BY <2>4, <2>5, <2>6, <2>7 DEF EndInv
<1> QED
  BY <1>5, <1>6, <1>7, <1>8 DEF Strips

\* The Finish of the captured strip.
LEMMA FinishPushed ==
    ASSUME Control, Control', Strips, current \in Ids, strips[current].end # "spoiled", pc # "ended",
           NEW t0 \in Nat, NEW complete \in BOOLEAN, queue' = Append(queue, FinishOf(t0, complete)),
           strips' = Ended(IF complete THEN "saved" ELSE "spoiled"),
           UNCHANGED <<current, dropped, pc, record, strip, disk, hurt>>
    PROVE  Strips'
<1> DEFINE r == FinishOf(t0, complete)
<1>0. /\ r \in Items /\ r.kind = "finish" /\ r.complete = complete /\ r.kind \notin Data /\ r.kind # "start"
      /\ \A t \in Ids : disk[t].last \in Nat
  BY RecordFacts DEF Control, StripTypes, AFile, Data
<1>1. queue' = Append(queue, r)
  OBVIOUS
<1> HIDE DEF r
<1>2. /\ \A t \in Ids \ {current} : strips'[t] = strips[t]
      /\ strips'[current].end = IF strips[current].end = "open" THEN (IF complete THEN "saved" ELSE "spoiled")
                                ELSE strips[current].end
      /\ strips'[current].offered = strips[current].offered
      /\ strips'[current].drops = strips[current].drops /\ strips'[current].kinds = strips[current].kinds
  BY EndedTo DEF Control, StripTypes
<1>3. /\ Line' = Append(Line, r) /\ Len(Line') = Len(Line) + 1 /\ Line'[Len(Line')] = r
      /\ \A i \in 1 .. Len(Line) : Line'[i] = Line[i] /\ i \in 1 .. Len(Line')
      /\ \A i \in 1 .. Len(Line') : i \in 1 .. Len(Line) \/ i = Len(Line')
      /\ \A t : InLine(t)' <=> InLine(t)
  BY <1>0, <1>1, LineGrows
<1>4. Open' <=> Open
  BY DEF Open
<1>5. LedgerInv'
  BY <1>2 DEF Strips, LedgerInv, Blank
<1>6. LineInv'
  <2> SUFFICES ASSUME NEW i \in 1 .. Len(Line'), Line'[i].kind = "start"
               PROVE  Good(Line', i, strips'[Line'[i].t], disk'[Line'[i].t], dropped', current', Capturing')
    BY DEF LineInv
  <2>1. i \in 1 .. Len(Line) /\ Line'[i] = Line[i] /\ Line[i].kind = "start"
    BY <1>0, <1>3
  <2> DEFINE t == Line[i].t
  <2>2. t \in Ids /\ t \in Int /\ current \in Int /\ current <= current /\ Line \in Seq(Items)
    BY <2>1, LineFacts DEF Control, StripTypes, Ids
  <2>3. Good(Line, i, strips[t], disk[t], dropped, current, Capturing)
    BY <2>1 DEF Strips, LineInv
  <2> HIDE DEF t
  <2>4. CASE Alone(Line, i)
    <3>1. t = current /\ strips[t].end = "open"
      BY <2>3, <2>4 DEF Good, t
    <3>2. /\ strips'[t].drops = strips[t].drops /\ strips'[t].kinds = strips[t].kinds
          /\ strips'[t].end = "saved" <=> r.kind = "finish" /\ r.complete
          /\ strips'[t].end # "open"
      BY <1>0, <1>2, <3>1
    <3>3. Good(Line', i, strips'[t], disk[t], dropped, current, Capturing')
      BY <1>0, <1>3, <2>1, <2>2, <2>3, <2>4, <3>2, GoodEnd DEF t
    <3> QED
      BY <2>1, <3>3 DEF t
  <2>5. CASE ~Alone(Line, i)
    <3>1. Good(Line', i, strips[t], disk[t], dropped, current, Capturing')
      BY <1>0, <1>3, <2>1, <2>2, <2>3, <2>5, GoodOther DEF t
    <3>2. t = current => strips[t].end # "open"
      BY <2>3, <2>5 DEF Good, t
    <3>3. /\ strips'[t].drops = strips[t].drops /\ strips'[t].kinds = strips[t].kinds
          /\ strips'[t].end = strips[t].end /\ strips'[t].offered = strips[t].offered
      BY <1>2, <2>2, <3>2
    <3>4. dropped \in Nat /\ strips[t].drops \in Nat /\ i \in 1 .. Len(Line') /\ Line' \in Seq(Items)
      BY <1>0, <1>3, <2>1, <2>2, AppendFacts DEF Control, StripTypes, AStrip
    <3>5. Good(Line', i, strips'[t], disk[t], dropped, current, Capturing')
      BY <3>1, <3>3, <3>4, GoodSame, SMTT(30)
    <3> QED
      BY <2>1, <3>5 DEF t
  <2> QED
    BY <2>4, <2>5
<1>7. FreshInv'
  <2> SUFFICES ASSUME NEW i \in 1 .. Len(Line'), Line'[i].kind = "start"
               PROVE  /\ i > 1 \/ ~Open => Blank(Line'[i].t)
                      /\ i > 1 \/ pc # "renaming" => disk[Line'[i].t].renamed = 0
    BY <1>4 DEF FreshInv, Blank
  <2>1. i \in 1 .. Len(Line) /\ Line'[i] = Line[i] /\ Line[i].kind = "start"
    BY <1>0, <1>3
  <2> QED
    BY <2>1 DEF Strips, FreshInv
<1>8. EndInv'
  <2>1. \A t \in Ids \ hurt : Owed(t)' => Owed(t) \/ InLine(t)
    BY <1>2 DEF Owed, Strips, EndInv
  <2>2. \A t \in Ids : Whole(t) => Whole(t)'
    BY <1>2 DEF Whole
  <2>3. \A t \in Ids : strips'[t].end = "open" => strips[t].end = "open"
    BY <1>2
  <2>4. \A t \in Ids \ hurt' : Owed(t)' => InLine(t)' \/ disk'[t].renamed = Len(Outputs)
    BY <1>3, <2>1 DEF Strips, EndInv
  <2>5. \A t \in Ids \ hurt' : strips'[t].end = "open" /\ t = current' /\ pc' # "ended" => InLine(t)'
    BY <1>3, <2>3 DEF Strips, EndInv
  <2>6. \A t \in Ids : disk'[t].renamed > 0 => Whole(t)'
    BY <2>2 DEF Strips, EndInv
  <2>7. pc' = "renaming" => Whole(strip.t)'
    BY <2>2, LineFacts DEF Strips, EndInv, Control, ThreadShape
  <2> QED
    BY <2>4, <2>5, <2>6, <2>7 DEF EndInv
<1> QED
  BY <1>5, <1>6, <1>7, <1>8 DEF Strips

\* The Start of a new strip, which also ends the strip that was captured.
LEMMA StartPushed ==
    ASSUME Control, Control', Strips, NEW t0 \in Ids, current < t0, queue' = Append(queue, StartOf(t0)),
           strips' = Begun(t0), current' = t0, UNCHANGED <<dropped, pc, record, strip, disk, hurt>>
    PROVE  Strips'
<1> DEFINE r == StartOf(t0)
<1>0. /\ dropped \in Nat /\ r \in Items /\ r.kind = "start" /\ r.t = t0 /\ r.drops = dropped /\ r.kind \notin Data
      /\ \A t \in Ids : disk[t].last \in Nat
  BY RecordFacts DEF Control, StripTypes, AFile, Data
<1>1. queue' = Append(queue, r)
  OBVIOUS
<1> HIDE DEF r
<1>2. /\ \A t \in Ids \ {t0} : strips'[t] = strips[t]
      /\ strips'[t0].end = "open" /\ strips'[t0].offered = 0 /\ strips'[t0].drops = dropped /\ strips'[t0].kinds = {}
  BY BegunTo DEF Control, StripTypes
<1>3. /\ Line' = Append(Line, r) /\ Len(Line') = Len(Line) + 1 /\ Line'[Len(Line')] = r
      /\ \A i \in 1 .. Len(Line) : Line'[i] = Line[i] /\ i \in 1 .. Len(Line')
      /\ \A i \in 1 .. Len(Line') : i \in 1 .. Len(Line) \/ i = Len(Line')
      /\ \A t : InLine(t)' <=> (InLine(t) \/ t = t0)
  BY <1>0, <1>1, LineGrows
<1>4. Open' <=> Open
  BY DEF Open
<1>5. Blank(t0) /\ disk[t0].renamed = 0 /\ strips[t0].end = "none"
  BY DEF Strips, LedgerInv
<1>6. current \in Int /\ t0 \in Int /\ \A t \in Ids : t \in Int
  BY DEF Control, StripTypes, Ids
<1>7. LedgerInv'
  BY <1>0, <1>2, <1>5, <1>6 DEF Strips, LedgerInv, Blank
<1>8. LineInv'
  <2> SUFFICES ASSUME NEW i \in 1 .. Len(Line'), Line'[i].kind = "start"
               PROVE  Good(Line', i, strips'[Line'[i].t], disk'[Line'[i].t], dropped', current', Capturing')
    BY DEF LineInv
  <2>0. Line \in Seq(Items)
    BY LineFacts
  <2>1. CASE i = Len(Line')
    <3>1. Line'[i] = r
      BY <1>3, <2>1
    <3>2. Good(Line', Len(Line'), strips'[t0], disk[t0], dropped, r.t, Capturing')
      BY <1>0, <1>2, <1>3, <1>5, <2>0, GoodNew DEF Blank
    <3> QED
      BY <1>0, <2>1, <3>1, <3>2
  <2>2. CASE i # Len(Line')
    <3>1. i \in 1 .. Len(Line) /\ Line'[i] = Line[i] /\ Line[i].kind = "start"
      BY <1>3, <2>2
    <3> DEFINE t == Line[i].t
    <3>2. t \in Ids /\ t \in Int
      BY <1>6, <3>1, LineFacts
    <3>3. Good(Line, i, strips[t], disk[t], dropped, current, Capturing)
      BY <3>1 DEF Strips, LineInv
    <3>4. t <= current
      BY <3>3 DEF Good
    <3>5. t < t0 /\ t # t0 /\ current <= t0 /\ strips'[t] = strips[t]
      BY <1>2, <1>6, <3>2, <3>4
    <3> HIDE DEF t
    <3>6. Good(Line', i, strips[t], disk[t], dropped, t0, Capturing')
      <4>1. CASE Alone(Line, i)
        <5>1. strips[t].end \in {"open", "spoiled"}
          BY <3>3, <4>1 DEF Good
        <5> QED
          BY <1>0, <1>3, <1>6, <2>0, <3>1, <3>2, <3>3, <3>5, <4>1, <5>1, GoodEnd DEF t
      <4>2. CASE ~Alone(Line, i)
        BY <1>0, <1>3, <1>6, <2>0, <3>1, <3>2, <3>3, <3>5, <4>2, GoodOther DEF t
      <4> QED
        BY <4>1, <4>2
    <3> QED
      BY <3>1, <3>5, <3>6 DEF t
  <2> QED
    BY <2>1, <2>2
<1>9. FreshInv'
  <2> SUFFICES ASSUME NEW i \in 1 .. Len(Line'), Line'[i].kind = "start"
               PROVE  /\ i > 1 \/ ~Open => Blank(Line'[i].t)
                      /\ i > 1 \/ pc # "renaming" => disk[Line'[i].t].renamed = 0
    BY <1>4 DEF FreshInv, Blank
  <2>1. CASE i = Len(Line')
    BY <1>0, <1>3, <1>5, <2>1 DEF Blank
  <2>2. CASE i # Len(Line')
    BY <1>3, <2>2 DEF Strips, FreshInv, Blank
  <2> QED
    BY <2>1, <2>2
<1>10. EndInv'
  <2>1. \A t \in Ids : Owed(t)' => Owed(t)
    BY <1>2 DEF Owed
  <2>2. \A t \in Ids : Whole(t) => Whole(t)'
    BY <1>2, <1>5 DEF Whole
  <2>3. \A t \in Ids \ hurt' : Owed(t)' => InLine(t)' \/ disk'[t].renamed = Len(Outputs)
    BY <1>3, <2>1 DEF Strips, EndInv
  <2>4. \A t \in Ids \ hurt' : strips'[t].end = "open" /\ t = current' /\ pc' # "ended" => InLine(t)'
    BY <1>3
  <2>5. \A t \in Ids : disk'[t].renamed > 0 => Whole(t)'
    BY <2>2 DEF Strips, EndInv
  <2>6. pc' = "renaming" => Whole(strip.t)'
    BY <2>2, LineFacts DEF Strips, EndInv, Control, ThreadShape
  <2> QED
    BY <2>3, <2>4, <2>5, <2>6 DEF EndInv
<1> QED
  BY <1>7, <1>8, <1>9, <1>10 DEF Strips

-----------------------------------------------------------------------------
(* The steps of the writer thread: records leave the line from its front.  *)

Shifts(k) == Len(Line) = Len(Line') + k /\ \A j \in 1 .. Len(Line') : Line'[j] = Line[j + k]

LEMMA ConsShift ==
    ASSUME NEW q \in Seq(Items), NEW a \in Items, NEW b \in Items
    PROVE  /\ Len(<<a>> \o q) = Len(q) + 1 /\ \A j \in 1 .. Len(q) : q[j] = (<<a>> \o q)[j + 1]
           /\ Len(<<b>> \o (<<a>> \o q)) = Len(q) + 2 /\ \A j \in 1 .. Len(q) : q[j] = (<<b>> \o (<<a>> \o q))[j + 2]
<1> DEFINE p == <<a>> \o q
<1>1. p \in Seq(Items) /\ Len(p) = Len(q) + 1 /\ Len(q) \in Nat /\ \A j \in 1 .. Len(q) : p[j + 1] = q[j]
  BY ConsFacts
<1> HIDE DEF p
<1>2. Len(<<b>> \o p) = Len(p) + 1 /\ \A j \in 1 .. Len(p) : (<<b>> \o p)[j + 1] = p[j]
  BY <1>1, ConsFacts
<1>3. ASSUME NEW j \in 1 .. Len(q) PROVE q[j] = (<<b>> \o p)[j + 2]
  <2>1. j + 1 \in 1 .. Len(p) /\ (j + 1) + 1 = j + 2
    BY <1>1
  <2> QED
    BY <1>1, <1>2, <2>1
<1>4. Len(<<b>> \o p) = Len(q) + 2
  BY <1>1, <1>2
<1> QED
  BY <1>1, <1>3, <1>4 DEF p

\* How the line moves in each step of the thread, and when a strip stays open in it.
LEMMA ShiftKeeps ==
    ASSUME Control, Control', Strips, NEW k \in Nat, Shifts(k), UNCHANGED <<strips, dropped, current>>,
           Capturing' => Capturing,
           \A t \in Ids : /\ disk'[t].written = disk[t].written /\ disk'[t].last = disk[t].last
                          /\ disk'[t].kinds = disk[t].kinds /\ disk'[t].renamed = disk[t].renamed,
           k = 0 => (Open => Open') /\ (pc = "renaming" => pc' = "renaming")
    PROVE  /\ LedgerInv' /\ LineInv' /\ FreshInv'
           /\ \A t : InLine(t) => InLine(t)' \/ \E i \in 1 .. k : Line[i].kind = "start" /\ Line[i].t = t
<1>0. /\ Line \in Seq(Items) /\ Line' \in Seq(Items) /\ Len(Line) \in Nat /\ Len(Line') \in Nat
      /\ Len(Line) = Len(Line') + k
  <2>1. Line \in Seq(Items)
    BY LineFacts
  <2>2. Line' \in Seq(Items)
    BY NextLine
  <2> QED
    BY <2>1, <2>2 DEF Shifts
<1>1. \A i \in 1 .. Len(Line') : i + k \in 1 .. Len(Line) /\ Line'[i] = Line[i + k]
  BY <1>0 DEF Shifts
<1>2. \A i \in 1 .. Len(Line) : i \in 1 .. k \/ (i - k \in 1 .. Len(Line') /\ Line'[i - k] = Line[i])
  <2> TAKE i \in 1 .. Len(Line)
  <2>1. i \in 1 .. k \/ (i - k \in 1 .. Len(Line') /\ (i - k) + k = i)
    BY <1>0
  <2> QED
    BY <1>1, <2>1
<1>3. \A i \in 1 .. Len(Line) : Line[i].kind = "start" => Line[i].t \in Ids
  BY LineFacts
<1>4. LedgerInv'
  BY DEF Strips, LedgerInv, Blank
<1>5. LineInv'
  <2> SUFFICES ASSUME NEW i \in 1 .. Len(Line'), Line'[i].kind = "start"
               PROVE  Good(Line', i, strips[Line'[i].t], disk'[Line'[i].t], dropped, current, Capturing')
    BY DEF LineInv
  <2> DEFINE t == Line'[i].t
  <2>1. i + k \in 1 .. Len(Line) /\ Line[i + k].kind = "start" /\ Line[i + k].t = t /\ t \in Ids
    BY <1>1, <1>3
  <2>2. Good(Line, i + k, strips[t], disk[t], dropped, current, Capturing)
    BY <2>1 DEF Strips, LineInv
  <2>3. /\ disk[t].last \in Nat /\ dropped \in Nat /\ strips[t].drops \in Nat
        /\ disk'[t].written = disk[t].written /\ disk'[t].last = disk[t].last /\ disk'[t].kinds = disk[t].kinds
    BY <2>1 DEF Control, StripTypes, AFile, AStrip
  <2> HIDE DEF t
  <2>4. Good(Line', i, strips[t], disk[t], dropped, current, Capturing)
    <3>1. \A j \in i .. Len(Line') : Line'[j] = Line[j + k]
      BY <1>0, <1>1
    <3> QED
      BY <1>0, <2>2, <2>3, <3>1, GoodShift
  <2>5. dropped <= dropped
    BY <2>3
  <2>6. Good(Line', i, strips[t], disk'[t], dropped, current, Capturing')
    BY <1>0, <2>3, <2>4, <2>5, GoodSame
  <2> QED
    BY <2>6 DEF t
<1>6. FreshInv'
  <2> DEFINE Fresh(i, t) ==
          /\ i > 1 \/ ~Open' => disk'[t].written = 0 /\ disk'[t].last = 0 /\ disk'[t].kinds = {}
          /\ i > 1 \/ pc' # "renaming" => disk'[t].renamed = 0
  <2> SUFFICES ASSUME NEW i \in 1 .. Len(Line'), Line'[i].kind = "start"
               PROVE  Fresh(i, Line'[i].t)
    BY DEF FreshInv, Blank
  <2>1. i + k \in 1 .. Len(Line) /\ Line[i + k].kind = "start" /\ Line[i + k].t \in Ids /\ Line'[i].t = Line[i + k].t
    BY <1>1, <1>3
  <2>2. i > 1 => i + k > 1
    OBVIOUS
  <2>3. k # 0 => i + k > 1
    OBVIOUS
  <2>4. /\ i + k > 1 \/ ~Open => Blank(Line[i + k].t)
        /\ i + k > 1 \/ pc # "renaming" => disk[Line[i + k].t].renamed = 0
    BY <2>1 DEF Strips, FreshInv
  <2>5. i > 1 \/ ~Open' => i + k > 1 \/ ~Open
    BY <2>2, <2>3
  <2>6. i > 1 \/ pc' # "renaming" => i + k > 1 \/ pc # "renaming"
    BY <2>2, <2>3
  <2> QED
    BY <2>1, <2>4, <2>5, <2>6 DEF Blank
<1>7. ASSUME NEW t, InLine(t)
      PROVE  InLine(t)' \/ \E i \in 1 .. k : Line[i].kind = "start" /\ Line[i].t = t
  <2>1. PICK i \in 1 .. Len(Line) : Line[i].kind = "start" /\ Line[i].t = t
    BY <1>7 DEF InLine
  <2>2. CASE i \in 1 .. k
    BY <2>1, <2>2
  <2>3. CASE i - k \in 1 .. Len(Line') /\ Line'[i - k] = Line[i]
    BY <2>1, <2>3 DEF InLine
  <2> QED
    BY <1>2, <2>2, <2>3
<1> QED
  BY <1>4, <1>5, <1>6, <1>7

\* A step that writes no sample and renames nothing: what leaves the line was not owed
\* a commit, or has it, or was hurt.
LEMMA LineShifts ==
    ASSUME Control, Control', Strips, NEW k \in Nat, Shifts(k), UNCHANGED <<strips, dropped, current>>,
           hurt \subseteq hurt', Capturing' => Capturing, pc # "ended",
           \A t \in Ids : /\ disk'[t].written = disk[t].written /\ disk'[t].last = disk[t].last
                          /\ disk'[t].kinds = disk[t].kinds /\ disk'[t].renamed = disk[t].renamed
                          /\ disk'[t].manifest = disk[t].manifest \/ disk[t].renamed = 0 \/ disk'[t].manifest = "complete",
           k = 0 => (Open => Open') /\ (pc = "renaming" => pc' = "renaming"),
           \A i \in 1 .. k : Line[i].kind = "start" =>
               \/ Line[i].t \in hurt'
               \/ /\ Owed(Line[i].t) => disk[Line[i].t].renamed = Len(Outputs)
                  /\ strips[Line[i].t].end = "open" /\ Line[i].t = current => pc' = "ended",
           pc' = "renaming" => Whole(strip.t)'
    PROVE  Strips'
<1>1. /\ LedgerInv' /\ LineInv' /\ FreshInv'
      /\ \A t : InLine(t) => InLine(t)' \/ \E i \in 1 .. k : Line[i].kind = "start" /\ Line[i].t = t
  BY ShiftKeeps
<1>2. \A t \in Ids : Owed(t)' <=> Owed(t)
  BY DEF Owed
<1>3. ASSUME NEW t \in Ids \ hurt', Owed(t)' PROVE InLine(t)' \/ disk'[t].renamed = Len(Outputs)
  <2>1. t \notin hurt /\ Owed(t)
    BY <1>2, <1>3
  <2>2. InLine(t) \/ disk[t].renamed = Len(Outputs)
    BY <2>1 DEF Strips, EndInv
  <2>3. CASE disk[t].renamed = Len(Outputs)
    BY <2>3
  <2>4. CASE InLine(t) /\ ~InLine(t)'
    <3>1. PICK i \in 1 .. k : Line[i].kind = "start" /\ Line[i].t = t
      BY <1>1, <2>4
    <3> QED
      BY <1>3, <2>1, <3>1
  <2> QED
    BY <2>2, <2>3, <2>4
<1>4. ASSUME NEW t \in Ids \ hurt', strips'[t].end = "open", t = current', pc' # "ended" PROVE InLine(t)'
  <2>1. InLine(t)
    BY <1>4 DEF Strips, EndInv
  <2>2. CASE ~InLine(t)'
    <3>1. PICK i \in 1 .. k : Line[i].kind = "start" /\ Line[i].t = t
      BY <1>1, <2>1, <2>2
    <3> QED
      BY <1>4, <3>1
  <2> QED
    BY <2>2
<1>5. ASSUME NEW t \in Ids, disk'[t].renamed > 0 PROVE Whole(t)'
  <2>1. Whole(t) /\ disk[t].renamed # 0
    BY <1>5 DEF Strips, EndInv
  <2> QED
    BY <2>1 DEF Whole
<1>6. EndInv'
  BY <1>3, <1>4, <1>5 DEF EndInv
<1> QED
  BY <1>1, <1>6 DEF Strips

\* What a strip whose end has come up has been through.
LEMMA ClosingFacts ==
    ASSUME Control, Strips, pc \in {"closing", "renaming"}
    PROVE  /\ strip.t \in Ids /\ strip \in Items /\ record \in Items /\ Open
           /\ Line = <<strip>> \o (<<record>> \o queue) /\ Line[1] = strip /\ Line[2] = record /\ Len(Line) = Len(queue) + 2
           /\ strips[strip.t].end = "saved" <=> record.kind = "finish" /\ record.complete
           /\ ~(strips[strip.t].end = "open" /\ strip.t = current)
           /\ strips[strip.t].kinds \subseteq disk[strip.t].kinds /\ strip.drops = strips[strip.t].drops
           /\ dropped = strip.drops => disk[strip.t].written = disk[strip.t].last
<1>1. Open /\ strip \in Items /\ strip.kind = "start" /\ strip.t \in Ids
  BY RecordFacts DEF Control, ThreadShape, StripTypes, Open
<1>2. record \in Items /\ record.kind \in {"start", "finish"} /\ record.kind \notin Data
  BY CallFacts DEF Control, ThreadShape, StripTypes, Data
<1>3. Line = <<strip>> \o (<<record>> \o queue)
  BY <1>1 DEF Line, Ahead
<1> DEFINE A == <<record>> \o queue
<1>4. A \in Seq(Items) /\ Len(A) = Len(queue) + 1 /\ A[1] = record /\ Len(queue) \in Nat
  BY <1>2, ConsFacts DEF Control, StripTypes
<1>5. Line = <<strip>> \o A
  BY <1>3
<1> HIDE DEF A
<1>6. Line \in Seq(Items) /\ Len(Line) = Len(A) + 1 /\ Line[1] = strip /\ \A j \in 1 .. Len(A) : Line[j + 1] = A[j]
  BY <1>1, <1>4, <1>5, ConsFacts
<1>7. Len(Line) = Len(queue) + 2 /\ 1 \in 1 .. Len(A) /\ 1 \in 1 .. Len(Line) /\ 2 \in 1 .. Len(Line) /\ 2 \in 1 + 1 .. Len(Line)
  BY <1>4, <1>6
<1>8. Line[2] = record
  <2>1. Line[1 + 1] = A[1]
    BY <1>6, <1>7
  <2> QED
    BY <1>4, <2>1
<1>9. Good(Line, 1, strips[strip.t], disk[strip.t], dropped, current, Capturing)
  BY <1>1, <1>6, <1>7 DEF Strips, LineInv
<1>10. Ending(Line, 1, 2) /\ ~Alone(Line, 1) /\ \A j \in 1 .. Len(Line) : ~Follows(Line, 1, j)
  <2>1. Ending(Line, 1, 2)
    BY <1>2, <1>7, <1>8 DEF Ending
  <2>2. ~Alone(Line, 1)
    BY <1>2, <1>7, <1>8 DEF Alone
  <2>3. ASSUME NEW j \in 1 .. Len(Line), Follows(Line, 1, j) PROVE FALSE
    <3>1. 2 \in 1 + 1 .. j
      BY <1>4, <1>7, <2>3 DEF Follows
    <3> QED
      BY <1>2, <1>8, <2>3, <3>1 DEF Follows
  <2> QED
    BY <2>1, <2>2, <2>3
<1>11. strips[strip.t].end = "saved" <=> record.kind = "finish" /\ record.complete
  BY <1>7, <1>8, <1>9, <1>10 DEF Good
<1>12. ~(strips[strip.t].end = "open" /\ strip.t = current)
  BY <1>6, <1>9, <1>10 DEF Good
<1>13. /\ strips[strip.t].kinds \subseteq disk[strip.t].kinds /\ strip.drops = strips[strip.t].drops
       /\ dropped = strip.drops => disk[strip.t].written = disk[strip.t].last
  BY <1>6, <1>9, <1>10 DEF Good
<1> QED
  BY <1>1, <1>2, <1>3, <1>6, <1>7, <1>8, <1>11, <1>12, <1>13

\* The steps of the thread that leave the line as it is.
LEMMA StaysInLine ==
    ASSUME Control, Control', Strips, Line' = Line, UNCHANGED <<strips, dropped, current, hurt>>, (Open => Open'),
           Capturing' => Capturing, pc # "ended", pc # "renaming",
           \A t \in Ids : /\ disk'[t].written = disk[t].written /\ disk'[t].last = disk[t].last
                          /\ disk'[t].kinds = disk[t].kinds /\ disk'[t].renamed = disk[t].renamed
                          /\ disk'[t].manifest = disk[t].manifest \/ disk[t].renamed = 0,
           pc' = "renaming" => Whole(strip.t)'
    PROVE  Strips'
<1>1. Line \in Seq(Items)
  BY LineFacts
<1>2. Shifts(0)
  BY <1>1 DEF Shifts
<1>3. \A i \in 1 .. 0 : FALSE
  OBVIOUS
<1> QED
  BY <1>2, <1>3, LineShifts

\* Dropping the strip and the record whose end has come up.
LEMMA LeavesLine ==
    ASSUME Control, Control', Strips, pc \in {"closing", "renaming"}, Line' = queue,
           UNCHANGED <<queue, strips, dropped, current>>, hurt \subseteq hurt', Capturing' => Capturing,
           \A t \in Ids : /\ disk'[t].written = disk[t].written /\ disk'[t].last = disk[t].last
                          /\ disk'[t].kinds = disk[t].kinds /\ disk'[t].renamed = disk[t].renamed
                          /\ disk'[t].manifest = disk[t].manifest \/ disk'[t].manifest = "complete",
           strip.t \in hurt' \/ (Owed(strip.t) => disk[strip.t].renamed = Len(Outputs)),
           record.kind = "start" => record.t \in hurt', pc' # "renaming"
    PROVE  Strips'
<1>1. /\ strip \in Items /\ record \in Items /\ Line = <<strip>> \o (<<record>> \o queue)
      /\ Line[1] = strip /\ Line[2] = record /\ ~(strips[strip.t].end = "open" /\ strip.t = current)
  BY ClosingFacts
<1>2. Shifts(2)
  BY <1>1, ConsShift DEF Shifts, Control, StripTypes
<1>3. \A i \in 1 .. 2 : i = 1 \/ i = 2
  OBVIOUS
<1>4. \A i \in 1 .. 2 : Line[i].kind = "start" =>
          \/ Line[i].t \in hurt'
          \/ /\ Owed(Line[i].t) => disk[Line[i].t].renamed = Len(Outputs)
             /\ strips[Line[i].t].end = "open" /\ Line[i].t = current => pc' = "ended"
  BY <1>1, <1>3
<1> QED
  BY <1>2, <1>4, LineShifts

LEMMA ThreadStrips ==
    ASSUME Control, Control', Strips, Thread
    PROVE  Strips'
<1> USE DEF Control
<1>0. /\ queue \in Seq(Items) /\ Line \in Seq(Items)
      /\ pc \in {"opening", "closing", "renaming"} => record \in Items
      /\ Open => strip \in Items /\ strip.kind = "start" /\ strip.t \in Ids
  BY LineFacts, RecordFacts, CallFacts DEF StripTypes, ThreadShape, Open
<1>1. CASE Pop
  <2>1. /\ pc = "loop" /\ queue # <<>> /\ queue' = Tail(queue) /\ record' = Head(queue)
        /\ UNCHANGED <<strips, dropped, current, recording, op, state, strip, hurt>>
        /\ (Open' <=> Open) /\ Capturing' = Capturing
    BY <1>1 DEF Pop, loop, Open, Capturing
  <2>2. /\ Head(queue) \in Items /\ Tail(queue) \in Seq(Items) /\ Len(Tail(queue)) = Len(queue) - 1
        /\ \A i \in 1 .. Len(Tail(queue)) : Tail(queue)[i] = queue[i + 1]
        /\ Head(queue) = queue[1] /\ Len(queue) \in Nat /\ Len(queue) >= 1
    BY <1>0, <2>1, HeadTailProperties
  <2>3. <<Head(queue)>> \o Tail(queue) = queue
    BY <1>0, <2>1
  <2>4. CASE pc' \in {"opening", "closing"} /\ UNCHANGED disk
    <3>1. Ahead = queue /\ Ahead' = queue
      BY <2>1, <2>3, <2>4 DEF Ahead
    <3>2. Line' = Line
      BY <2>1, <3>1 DEF Line, Open
    <3> QED
      BY <2>1, <2>4, <3>2, StaysInLine
  <2>5. CASE ~Open /\ UNCHANGED disk /\ pc' \in {"settling", "loop"} /\ record'.kind # "start"
    <3>1. Line = queue /\ Line' = Tail(queue)
      BY <2>1, <2>5 DEF Line, Ahead
    <3>2. Shifts(1)
      BY <2>2, <3>1 DEF Shifts
    <3>3. \A i \in 1 .. 1 : Line[i].kind # "start"
      BY <2>1, <2>2, <2>5, <3>1
    <3> QED
      BY <2>1, <2>5, <3>2, <3>3, LineShifts
  <2>6. CASE Open /\ record'.kind \in Data /\ disk' = Written(record') /\ pc' = pc
    <3>1. Line = <<strip>> \o queue /\ Line' = <<strip>> \o Tail(queue)
      BY <2>1, <2>6 DEF Line, Ahead
    <3> DEFINE c == strip.t
    <3>2. c \in Ids /\ strip \in Items /\ strip.kind = "start" /\ strip \in Starts
      BY <1>0, <2>6 DEF StripTypes, Open
    <3>3. /\ Len(Line) = Len(queue) + 1 /\ Line[1] = strip /\ \A j \in 1 .. Len(queue) : Line[j + 1] = queue[j]
      BY <1>0, <3>1, <3>2, ConsFacts
    <3>4. /\ Line' \in Seq(Items) /\ Len(Line') = Len(Tail(queue)) + 1 /\ Line'[1] = strip
          /\ \A j \in 1 .. Len(Tail(queue)) : Line'[j + 1] = Tail(queue)[j]
      BY <2>2, <3>1, <3>2, ConsFacts
    <3>5. Len(Line) = Len(Line') + 1 /\ Len(Line') >= 1 /\ Len(Line) \in Nat /\ Len(Line') \in Nat
      BY <2>2, <3>3, <3>4
    <3>6. Line[2] = record'
      <4>1. 1 \in 1 .. Len(queue)
        BY <2>2
      <4>2. Line[1 + 1] = queue[1]
        BY <3>3, <4>1
      <4> QED
        BY <2>1, <2>2, <4>2
    <3>7. ASSUME NEW j \in 2 .. Len(Line') PROVE Line'[j] = Line[j + 1] /\ j + 1 \in 1 .. Len(Line) /\ j + 1 > 1
      <4>1. j - 1 \in 1 .. Len(Tail(queue)) /\ j \in 1 .. Len(queue) /\ (j - 1) + 1 = j
        BY <2>2, <3>4
      <4>2. Line'[j] = Tail(queue)[j - 1] /\ Tail(queue)[j - 1] = queue[j] /\ Line[j + 1] = queue[j]
        BY <2>2, <3>3, <3>4, <4>1
      <4> QED
        BY <3>5, <4>1, <4>2
    <3>8. /\ disk' \in [Ids -> AFile] /\ \A t \in Ids \ {c} : disk'[t] = disk[t]
          /\ disk'[c].kinds = disk[c].kinds \cup {record'.kind}
          /\ disk'[c].written = disk[c].written + 1 /\ disk'[c].last = record'.n
          /\ disk'[c].manifest = disk[c].manifest /\ disk'[c].renamed = disk[c].renamed
      BY <2>1, <2>2, <2>6, <3>2, WrittenTo DEF StripTypes
    <3>9. Good(Line, 1, strips[c], disk[c], dropped, current, Capturing)
      <4>1. 1 \in 1 .. Len(Line)
        BY <3>5
      <4> QED
        BY <3>2, <3>3, <4>1 DEF Strips, LineInv
    <3>10. c <= current /\ disk[c].renamed = 0 /\ c \in Int /\ current \in Int
      <4>1. 1 \in 1 .. Len(Line)
        BY <3>5
      <4>2. c <= current
        BY <3>3, <3>9 DEF Good
      <4>3. disk[c].renamed = 0
        BY <2>1, <3>2, <3>3, <4>1 DEF Strips, FreshInv
      <4> QED
        BY <3>2, <4>2, <4>3 DEF StripTypes, Ids
    <3>11. ASSUME NEW i \in 1 .. Len(Line'), Line'[i].kind = "start", i # 1
           PROVE  /\ i \in 2 .. Len(Line') /\ i + 1 \in 1 .. Len(Line) /\ i + 1 > 1 /\ Line'[i] = Line[i + 1]
                  /\ Line[i + 1].kind = "start" /\ Line[i + 1].t \in Ids /\ Line[i + 1].t # c /\ disk'[Line[i + 1].t] = disk[Line[i + 1].t]
      <4>1. i \in 2 .. Len(Line')
        BY <3>5, <3>11
      <4>2. Line'[i] = Line[i + 1] /\ i + 1 \in 1 .. Len(Line) /\ i + 1 > 1
        BY <3>7, <4>1
      <4>3. Line[i + 1].t \in Ids /\ i + 1 \in 1 + 1 .. Len(Line)
        BY <3>11, <4>2, LineFacts
      <4>4. c < Line[i + 1].t
        BY <3>3, <3>9, <3>11, <4>2, <4>3 DEF Good
      <4>5. Line[i + 1].t # c
        BY <3>10, <4>3, <4>4 DEF Ids
      <4> QED
        BY <3>8, <3>11, <4>1, <4>2, <4>3, <4>5
    <3>12. LedgerInv'
      <4>1. \A t \in Ids : disk'[t].renamed = disk[t].renamed
        BY <3>8
      <4>2. \A t \in Ids : t > current => disk'[t] = disk[t]
        BY <3>8, <3>10
      <4> QED
        BY <2>1, <4>1, <4>2 DEF Strips, LedgerInv, Blank
    <3>13. LineInv'
      <4> SUFFICES ASSUME NEW i \in 1 .. Len(Line'), Line'[i].kind = "start"
                   PROVE  Good(Line', i, strips[Line'[i].t], disk'[Line'[i].t], dropped, current, Capturing')
        BY <2>1 DEF LineInv
      <4>0. \A t \in Ids : disk[t].last \in Nat
        BY DEF StripTypes, AFile
      <4>1. CASE i = 1
        <5>1. SecondTaken(Line, Line')
          BY <3>3, <3>4, <3>5, <3>7 DEF SecondTaken
        <5>2. /\ Line[2].kind \in Data /\ disk'[c].kinds = disk[c].kinds \cup {Line[2].kind}
              /\ disk'[c].written = disk[c].written + 1 /\ disk'[c].last = Line[2].n /\ Line'[1] = Line[1]
              /\ disk[c].last \in Nat
          BY <2>6, <3>2, <3>3, <3>4, <3>6, <3>8, <4>0
        <5>3. Good(Line', 1, strips[c], disk'[c], dropped, current, Capturing)
          <6>1. Line \in Seq(Items) /\ Line' \in Seq(Items)
            BY <1>0, <3>4
          <6> QED
            BY <3>9, <5>1, <5>2, <6>1, GoodWritten
        <5> QED
          BY <2>1, <3>4, <4>1, <5>3
      <4>2. CASE i # 1
        <5> DEFINE t == Line[i + 1].t
        <5>1. /\ i \in 2 .. Len(Line') /\ i + 1 \in 1 .. Len(Line) /\ i + 1 > 1 /\ Line'[i] = Line[i + 1]
              /\ Line[i + 1].kind = "start" /\ t \in Ids /\ t # c /\ disk'[t] = disk[t]
          BY <3>11, <4>2
        <5>2. Good(Line, i + 1, strips[t], disk[t], dropped, current, Capturing)
          BY <5>1 DEF Strips, LineInv
        <5> HIDE DEF t
        <5>3. Good(Line', i, strips[t], disk[t], dropped, current, Capturing)
          <6>1. \A j \in i .. Len(Line') : Line'[j] = Line[j + 1]
            BY <3>5, <3>7, <4>2
          <6> QED
            BY <1>0, <3>4, <3>5, <4>0, <5>1, <5>2, <6>1, GoodShift
        <5> QED
          BY <2>1, <5>1, <5>3 DEF t
      <4> QED
        BY <4>1, <4>2
    <3>14. FreshInv'
      <4> DEFINE Fresh(i, t) ==
              /\ i > 1 \/ ~Open' => disk'[t].written = 0 /\ disk'[t].last = 0 /\ disk'[t].kinds = {}
              /\ i > 1 \/ pc' # "renaming" => disk'[t].renamed = 0
      <4> SUFFICES ASSUME NEW i \in 1 .. Len(Line'), Line'[i].kind = "start"
                   PROVE  Fresh(i, Line'[i].t)
        BY DEF FreshInv, Blank
      <4>1. CASE i = 1
        BY <2>1, <2>6, <3>4, <3>8, <3>10, <4>1
      <4>2. CASE i # 1
        <5>1. /\ i + 1 \in 1 .. Len(Line) /\ i + 1 > 1 /\ Line'[i] = Line[i + 1]
              /\ Line[i + 1].kind = "start" /\ disk'[Line[i + 1].t] = disk[Line[i + 1].t]
          BY <3>11, <4>2
        <5>2. Blank(Line[i + 1].t) /\ disk[Line[i + 1].t].renamed = 0
          BY <5>1 DEF Strips, FreshInv
        <5> QED
          BY <5>1, <5>2 DEF Blank
      <4> QED
        BY <4>1, <4>2
    <3>15. EndInv'
      <4>1. \A t : InLine(t) => InLine(t)'
        <5> SUFFICES ASSUME NEW t, NEW i \in 1 .. Len(Line), Line[i].kind = "start", Line[i].t = t
                     PROVE  \E j \in 1 .. Len(Line') : Line'[j].kind = "start" /\ Line'[j].t = t
          BY DEF InLine
        <5>1. i # 2
          BY <2>6, <3>6 DEF Data
        <5>2. CASE i = 1
          <6>1. 1 \in 1 .. Len(Line')
            BY <3>5
          <6> QED
            BY <3>3, <3>4, <5>2, <6>1
        <5>3. CASE i # 1
          <6>1. i - 1 \in 2 .. Len(Line') /\ (i - 1) + 1 = i /\ i - 1 \in 1 .. Len(Line')
            BY <3>5, <5>1, <5>3
          <6>2. Line'[i - 1] = Line[i]
            BY <3>7, <6>1
          <6> QED
            BY <6>1, <6>2
        <5> QED
          BY <5>2, <5>3
      <4>2. \A t \in Ids : disk'[t].renamed = disk[t].renamed
        BY <3>8
      <4>3. \A t \in Ids : disk[t].renamed > 0 => disk'[t] = disk[t]
        BY <3>8, <3>10
      <4>4. \A t \in Ids \ hurt' : Owed(t)' => InLine(t)' \/ disk'[t].renamed = Len(Outputs)
        BY <2>1, <4>1, <4>2 DEF Strips, EndInv, Owed
      <4>5. \A t \in Ids \ hurt' : strips'[t].end = "open" /\ t = current' /\ pc' # "ended" => InLine(t)'
        BY <2>1, <4>1 DEF Strips, EndInv
      <4>6. \A t \in Ids : disk'[t].renamed > 0 => Whole(t)'
        BY <2>1, <4>2, <4>3 DEF Strips, EndInv, Whole
      <4>7. pc' # "renaming"
        BY <2>1, <2>6
      <4> QED
        BY <4>4, <4>5, <4>6, <4>7 DEF EndInv
    <3> QED
      BY <3>12, <3>13, <3>14, <3>15 DEF Strips
  <2> QED
    BY <1>1, <2>1, <2>4, <2>5, <2>6 DEF Pop, Written, Data
<1>2. CASE Opened
  <2>1. /\ pc = "opening" /\ pc' \in {"marking", "loop"} /\ strip' = record /\ ~Open /\ record.kind = "start"
        /\ UNCHANGED <<strips, dropped, current, recording, op, state, queue, record, hurt>>
        /\ disk' = [disk EXCEPT ![record.t].manifest = "incomplete"]
    BY <1>2 DEF Opened, Step, ThreadShape, loop, shared
  <2>2. record \in Starts /\ record.t \in Ids /\ record # NoRecord
    BY <1>0, <2>1, ItemFacts, RecordFacts
  <2>3. Line = <<record>> \o queue /\ Line' = <<record>> \o queue /\ Open'
    BY <2>1, <2>2 DEF Line, Ahead, Open
  <2>4. disk[record.t].renamed = 0
    <3>1. 1 \in 1 .. Len(Line) /\ Line[1] = record
      BY <1>0, <2>1, <2>3, ConsFacts
    <3> QED
      BY <2>1, <3>1 DEF Strips, FreshInv
  <2>5. \A t \in Ids : /\ disk'[t].written = disk[t].written /\ disk'[t].last = disk[t].last
                       /\ disk'[t].kinds = disk[t].kinds /\ disk'[t].renamed = disk[t].renamed
                       /\ disk'[t].manifest = disk[t].manifest \/ disk[t].renamed = 0
    BY <2>1, <2>2, <2>4, ManifestTo DEF StripTypes
  <2> QED
    BY <2>1, <2>3, <2>5, StaysInLine DEF Capturing
<1>3. CASE Mark \/ Idle \/ Settle
  <2>1. /\ pc \in {"marking", "settling", "idling"} /\ pc' \in {"loop", "idling"}
        /\ UNCHANGED <<strips, dropped, current, recording, op, queue, record, strip, disk, hurt>>
        /\ state' = state \/ (state = "Opening" /\ state' = "Recording") \/ (state = "Closing" /\ state' = "Idle")
    BY <1>3 DEF Mark, Idle, Settle, Step, loop, shared
  <2>2. Line' = Line /\ (Open' <=> Open) /\ (Capturing' => Capturing)
    BY <2>1 DEF Line, Ahead, Open, Capturing, Live
  <2> QED
    BY <2>1, <2>2, StaysInLine
<1>4. CASE Close
  <2>1. /\ pc = "closing" /\ UNCHANGED <<strips, dropped, current, recording, op, state, queue, record, hurt>>
        /\ Capturing' => Capturing
    BY <1>4 DEF Close, loop, shared, Capturing
  <2>2. /\ strip.t \in Ids /\ strip \in Items /\ record \in Items /\ Open
        /\ Line = <<strip>> \o (<<record>> \o queue) /\ Line[1] = strip
        /\ strips[strip.t].end = "saved" <=> record.kind = "finish" /\ record.complete
        /\ ~(strips[strip.t].end = "open" /\ strip.t = current)
        /\ strips[strip.t].kinds \subseteq disk[strip.t].kinds /\ strip.drops = strips[strip.t].drops
        /\ dropped = strip.drops => disk[strip.t].written = disk[strip.t].last
    BY <2>1, ClosingFacts
  <2>3. CASE Complete
    <3>1. pc' = "renaming" /\ disk' = [disk EXCEPT ![strip.t].manifest = "complete"] /\ UNCHANGED strip
      BY <1>4, <2>3 DEF Close
    <3>2. disk[strip.t].renamed = 0
      <4>1. 1 \in 1 .. Len(Line) /\ Line[1].kind = "start"
        BY <1>0, <2>2, LineFacts
      <4> QED
        BY <2>1, <2>2, <4>1 DEF Strips, FreshInv
    <3>3. \A t \in Ids : /\ disk'[t].written = disk[t].written /\ disk'[t].last = disk[t].last
                         /\ disk'[t].kinds = disk[t].kinds /\ disk'[t].renamed = disk[t].renamed
                         /\ disk'[t].manifest = disk[t].manifest \/ disk[t].renamed = 0
      BY <2>2, <3>1, <3>2, ManifestTo DEF StripTypes
    <3>6. disk'[strip.t].manifest = "complete"
      BY <2>2, <3>1, ManifestTo DEF StripTypes
    <3>4. Whole(strip.t)'
      BY <2>1, <2>2, <2>3, <3>1, <3>3, <3>6 DEF Whole, Complete
    <3>5. Line' = Line /\ Open'
      BY <2>1, <2>2, <3>1 DEF Line, Ahead, Open
    <3> QED
      BY <2>1, <3>3, <3>4, <3>5, StaysInLine
  <2>4. CASE ~Complete
    <3>1. pc' = (IF record.kind = "start" THEN "opening" ELSE "settling") /\ strip' = NoRecord /\ UNCHANGED disk
      BY <1>4, <2>4 DEF Close
    <3>2. ~Owed(strip.t)
      BY <2>2, <2>4 DEF Owed, Complete
    <3>3. CASE record.kind = "start"
      <4>1. Line' = <<record>> \o queue
        BY <2>1, <3>1, <3>3 DEF Line, Ahead, Open
      <4>2. <<record>> \o queue \in Seq(Items)
        BY <1>0, <2>2, ConsFacts
      <4>3. Shifts(1)
        BY <2>2, <4>1, <4>2, ConsShift DEF Shifts
      <4>4. \A i \in 1 .. 1 : i = 1
        OBVIOUS
      <4> QED
        BY <2>1, <2>2, <3>1, <3>2, <3>3, <4>3, <4>4, LineShifts
    <3>4. CASE record.kind # "start"
      <4>1. Line' = queue
        BY <2>1, <3>1, <3>4 DEF Line, Ahead, Open
      <4> QED
        BY <2>1, <2>2, <3>1, <3>2, <3>4, <4>1, LeavesLine
    <3> QED
      BY <3>3, <3>4
  <2> QED
    BY <2>3, <2>4
<1>5. CASE Rename
  <2>1. /\ pc = "renaming" /\ pc' = pc /\ UNCHANGED <<strips, dropped, current, recording, op, state, queue, record, strip, hurt>>
        /\ disk[strip.t].renamed < Len(Outputs)
        /\ disk' = [disk EXCEPT ![strip.t].renamed = disk[strip.t].renamed + 1]
    BY <1>5 DEF Rename, loop, shared
  <2> DEFINE c == strip.t
  <2>2. /\ c \in Ids /\ Open /\ Line[1] = strip
    BY <2>1, ClosingFacts
  <2>3. /\ \A t \in Ids \ {c} : disk'[t] = disk[t]
        /\ disk'[c].renamed = disk[c].renamed + 1 /\ disk'[c].kinds = disk[c].kinds
        /\ disk'[c].written = disk[c].written /\ disk'[c].last = disk[c].last /\ disk'[c].manifest = disk[c].manifest
        /\ disk[c].renamed \in Nat /\ Len(Outputs) = 4
    BY <2>1, <2>2, RenamedTo DEF StripTypes, AFile, Outputs
  <2>4. Line' = Line /\ (Open' <=> Open) /\ (Capturing' <=> Capturing) /\ \A t : InLine(t)' <=> InLine(t)
    BY <2>1 DEF Line, Ahead, Open, Capturing, InLine
  <2>5. 1 \in 1 .. Len(Line) /\ Line[1].kind = "start"
    BY <1>0, <2>2, LineFacts
  <2>6. Good(Line, 1, strips[c], disk[c], dropped, current, Capturing)
    BY <2>2, <2>5 DEF Strips, LineInv
  <2>7. c <= current /\ c \in Int /\ current \in Int
    BY <2>2, <2>6 DEF Good, StripTypes, Ids
  <2>8. Whole(c)
    BY <2>1 DEF Strips, EndInv
  <2>9. LedgerInv'
    <3>1. \A t \in Ids : t > current => disk'[t] = disk[t]
      BY <2>3, <2>7
    <3>2. \A t \in Ids : disk'[t].renamed <= Len(Outputs)
      BY <2>1, <2>3 DEF Strips, LedgerInv
    <3> QED
      BY <2>1, <3>1, <3>2 DEF Strips, LedgerInv, Blank
  <2>10. LineInv'
    <3> SUFFICES ASSUME NEW i \in 1 .. Len(Line), Line[i].kind = "start"
                 PROVE  Good(Line, i, strips[Line[i].t], disk'[Line[i].t], dropped, current, Capturing')
      BY <2>1, <2>4 DEF LineInv
    <3> DEFINE t == Line[i].t
    <3>1. t \in Ids
      BY LineFacts
    <3>2. Good(Line, i, strips[t], disk[t], dropped, current, Capturing)
      BY DEF Strips, LineInv
    <3> HIDE DEF t
    <3>3. /\ disk'[t].written = disk[t].written /\ disk'[t].last = disk[t].last /\ disk'[t].kinds = disk[t].kinds
          /\ dropped \in Nat /\ dropped <= dropped /\ strips[t].drops \in Nat
      <4>1. /\ disk'[t].written = disk[t].written /\ disk'[t].last = disk[t].last /\ disk'[t].kinds = disk[t].kinds
        BY <2>3, <3>1
      <4>2. dropped \in Nat /\ strips[t].drops \in Nat
        BY <3>1 DEF StripTypes, AStrip
      <4> QED
        BY <4>1, <4>2
    <3>4. Good(Line, i, strips[t], disk'[t], dropped, current, Capturing')
      BY <1>0, <2>4, <3>2, <3>3, GoodSame
    <3> QED
      BY <3>4 DEF t
  <2>11. FreshInv'
    <3> DEFINE Fresh(i, t) ==
            /\ i > 1 \/ ~Open' => disk'[t].written = 0 /\ disk'[t].last = 0 /\ disk'[t].kinds = {}
            /\ i > 1 \/ pc' # "renaming" => disk'[t].renamed = 0
    <3> SUFFICES ASSUME NEW i \in 1 .. Len(Line), Line[i].kind = "start"
                 PROVE  Fresh(i, Line[i].t)
      BY <2>4 DEF FreshInv, Blank
    <3>1. CASE i > 1
      <4>1. Line[i].t \in Ids /\ i \in 1 + 1 .. Len(Line)
        BY <3>1, LineFacts
      <4>2. c < Line[i].t
        BY <2>2, <2>6, <4>1 DEF Good
      <4>3. disk'[Line[i].t] = disk[Line[i].t]
        <5>1. Line[i].t # c
          BY <2>7, <4>1, <4>2 DEF Ids
        <5> QED
          BY <2>3, <4>1, <5>1
      <4> QED
        BY <3>1, <4>3 DEF Strips, FreshInv, Blank
    <3>2. CASE ~(i > 1)
      BY <2>1, <2>2, <2>4, <3>2
    <3> QED
      BY <3>1, <3>2
  <2>12. EndInv'
    <3>1. \A t \in Ids : Whole(t) => Whole(t)'
      BY <2>1, <2>3 DEF Whole
    <3>2. \A t \in Ids : disk[t].renamed = Len(Outputs) => disk'[t].renamed = Len(Outputs)
      BY <2>1, <2>3
    <3>3. \A t \in Ids \ hurt' : Owed(t)' => InLine(t)' \/ disk'[t].renamed = Len(Outputs)
      BY <2>1, <2>4, <3>2 DEF Strips, EndInv, Owed
    <3>4. \A t \in Ids \ hurt' : strips'[t].end = "open" /\ t = current' /\ pc' # "ended" => InLine(t)'
      BY <2>1, <2>4 DEF Strips, EndInv
    <3>5. \A t \in Ids : disk'[t].renamed > 0 => Whole(t)'
      BY <2>3, <2>8, <3>1 DEF Strips, EndInv
    <3>6. Whole(strip.t)'
      BY <2>1, <2>2, <2>8, <3>1
    <3> QED
      BY <3>3, <3>4, <3>5, <3>6 DEF EndInv
  <2> QED
    BY <2>9, <2>10, <2>11, <2>12 DEF Strips
<1>6. CASE SyncDirectory
  <2>1. /\ pc = "renaming" /\ pc' = "settling" /\ strip' = NoRecord /\ disk[strip.t].renamed = Len(Outputs)
        /\ UNCHANGED <<strips, dropped, current, recording, op, state, queue, record, disk, hurt>>
    BY <1>6 DEF SyncDirectory, Step, loop, shared
  <2>2. Line' = queue /\ (Capturing' => Capturing) /\ record.kind # "start"
    BY <2>1 DEF Line, Ahead, Open, Capturing, ThreadShape
  <2> QED
    BY <2>1, <2>2, LeavesLine
<1>7. CASE Fail
  <2>1. /\ pc' = "loop" /\ strip' = NoRecord /\ state' = "Failed" /\ hurt \subseteq hurt'
        /\ record.kind = "start" => record.t \in hurt'
        /\ strip.kind = "start" => strip.t \in hurt'
        /\ UNCHANGED <<strips, dropped, current, recording, op, queue, record>>
        /\ pc \in {"opening", "closing", "renaming", "loop"} /\ (pc = "loop" => Open)
    BY <1>7 DEF Fail, loop
  <2>2. Line' = queue /\ ~Capturing'
    BY <2>1 DEF Line, Ahead, Open, Capturing, Live
  <2>3. \A t \in Ids : /\ disk'[t].written = disk[t].written /\ disk'[t].last = disk[t].last
                       /\ disk'[t].kinds = disk[t].kinds /\ disk'[t].renamed = disk[t].renamed
                       /\ disk'[t].manifest = disk[t].manifest \/ disk'[t].manifest = "complete"
    <3>1. CASE disk' = disk
      BY <3>1
    <3>2. CASE disk' # disk
      <4>1. pc = "closing" /\ disk' = [disk EXCEPT ![strip.t].manifest = "complete"]
        BY <1>7, <3>2 DEF Fail
      <4>2. strip.t \in Ids
        BY <4>1, ClosingFacts
      <4> QED
        BY <4>1, <4>2, ManifestTo DEF StripTypes
    <3> QED
      BY <3>1, <3>2
  <2>4. CASE pc \in {"closing", "renaming"}
    <3>1. strip.t \in hurt'
      BY <1>0, <2>1, <2>4, ClosingFacts
    <3> QED
      BY <2>1, <2>2, <2>3, <2>4, <3>1, LeavesLine
  <2>5. CASE pc \notin {"closing", "renaming"}
    <3> DEFINE r == IF pc = "opening" THEN record ELSE strip
    <3>1. r \in Items /\ r.t \in hurt' /\ Line = <<r>> \o queue
      BY <1>0, <2>1, <2>5 DEF Line, Ahead, ThreadShape
    <3> HIDE DEF r
    <3>2. Shifts(1) /\ Line[1] = r
      BY <1>0, <2>2, <3>1, ConsShift, ConsFacts DEF Shifts
    <3>3. \A i \in 1 .. 1 : i = 1
      OBVIOUS
    <3> QED
      BY <2>1, <2>2, <2>3, <3>1, <3>2, <3>3, LineShifts
  <2> QED
    BY <2>4, <2>5
<1>8. CASE End
  <2>1. /\ pc = "loop" /\ pc' = "ended" /\ queue = <<>> /\ strip' = NoRecord
        /\ UNCHANGED <<strips, dropped, current, recording, op, state, queue, record, disk, hurt>>
    BY <1>8 DEF End, Step, Ends, loop, shared
  <2>2. Line' = <<>> /\ (Capturing' => Capturing)
    BY <2>1 DEF Line, Ahead, Open, Capturing
  <2>3. CASE ~Open
    <3>1. Line = <<>>
      BY <2>1, <2>3 DEF Line, Ahead
    <3> QED
      BY <2>1, <2>2, <2>3, <3>1, StaysInLine
  <2>4. CASE Open
    <3>1. Line = <<strip>> \o queue
      BY <2>1, <2>4 DEF Line, Ahead
    <3>2. Len(Line) = 1 /\ Line[1] = strip /\ strip.kind = "start" /\ strip.t \in Ids
      BY <1>0, <2>1, <2>4, <3>1, ConsFacts
    <3>3. Shifts(1)
      BY <2>2, <3>2 DEF Shifts
    <3>4. Good(Line, 1, strips[strip.t], disk[strip.t], dropped, current, Capturing) /\ Alone(Line, 1)
      BY <3>2 DEF Strips, LineInv, Alone
    <3>5. ~Owed(strip.t)
      BY <3>4 DEF Good, Owed
    <3>6. \A i \in 1 .. 1 : i = 1
      OBVIOUS
    <3> QED
      BY <2>1, <2>2, <3>2, <3>3, <3>5, <3>6, LineShifts
  <2> QED
    BY <2>3, <2>4
<1> QED
  BY <1>1, <1>2, <1>3, <1>4, <1>5, <1>6, <1>7, <1>8 DEF Thread

-----------------------------------------------------------------------------
(* The steps of the collector, and the invariant of both threads.          *)

LEMMA OfferStrips ==
    ASSUME Control, Control', Strips, current \in Ids, strips[current].end = "open", recording, op.what # "rotate",
           NEW kind \in Data, Offer(kind), UNCHANGED <<current, state, pc, record, strip, disk, hurt>>
    PROVE  Strips'
<1>1. CASE Accepts
  <2>1. Capturing
    BY <1>1 DEF Accepts, Capturing
  <2> QED
    BY <1>1, <2>1, SamplePushed
<1>2. CASE ~Accepts
  <2>1. /\ \A t \in Ids \ {current} : strips'[t] = strips[t]
        /\ strips'[current].kinds = strips[current].kinds
        /\ strips'[current].drops = strips[current].drops /\ strips'[current].end = strips[current].end
    BY <1>2, OfferedTo DEF Control, StripTypes
  <2>2. UNCHANGED queue /\ (dropped' = dropped + 1 \/ (dropped' = dropped /\ state \notin Live)) /\ dropped \in Nat
    BY <1>2 DEF Offer, Refused, Control, StripTypes
  <2>3. ~(Capturing' /\ dropped' = dropped) /\ dropped <= dropped'
    BY <2>2 DEF Capturing
  <2>4. \A t \in Ids : /\ strips'[t].drops = strips[t].drops /\ strips'[t].kinds = strips[t].kinds
                       /\ strips'[t].end = strips[t].end
    BY <2>1
  <2> QED
    BY <2>2, <2>3, <2>4, NothingPushed
<1> QED
  BY <1>1, <1>2

LEMMA CollectorStrips ==
    ASSUME Control, Control', Strips, Collector
    PROVE  Strips'
<1> USE DEF Control
<1>0. /\ strips \in [Ids -> AStrip] /\ dropped \in Nat /\ transition \in Nat
      /\ dropped <= dropped + 1 /\ dropped + 1 # dropped /\ dropped <= dropped
  BY DEF StripTypes
<1>1. CASE FinishStores
  <2>1. /\ current \in Ids /\ strips[current].end # "spoiled" /\ op.complete \in BOOLEAN /\ transition' \in Nat
        /\ pc # "ended" /\ UNCHANGED <<current, pc, record, strip, disk, hurt>>
    <3>1. current \in Ids /\ strips[current].end # "spoiled" /\ op.complete \in BOOLEAN /\ transition' \in Nat
      BY <1>1, CallFacts DEF CallInv, StripTypes, FinishStores
    <3>2. pc # "ended"
      BY <1>1 DEF FinishStores, ThreadShape, CallInv
    <3> QED
      BY <1>1, <3>1, <3>2 DEF FinishStores, thread
  <2>2. CASE /\ queue' = Append(queue, FinishOf(transition', op.complete))
             /\ strips' = Ended(IF op.complete THEN "saved" ELSE "spoiled") /\ UNCHANGED dropped
    BY <2>1, <2>2, FinishPushed
  <2>3. CASE dropped' = dropped + 1 /\ strips' = Ended("spoiled") /\ UNCHANGED queue
    <3>1. /\ \A t \in Ids \ {current} : strips'[t] = strips[t]
          /\ strips'[current].end = IF strips[current].end = "open" THEN "spoiled" ELSE strips[current].end
          /\ strips'[current].offered = strips[current].offered
          /\ strips'[current].drops = strips[current].drops /\ strips'[current].kinds = strips[current].kinds
      BY <1>0, <2>1, <2>3, EndedTo
    <3>2. \A t \in Ids : /\ strips'[t].drops = strips[t].drops /\ strips'[t].kinds = strips[t].kinds
                         /\ strips'[t].end = strips[t].end
                            \/ (t = current /\ strips[t].end = "open" /\ strips'[t].end = "spoiled")
      BY <3>1
    <3> QED
      BY <1>0, <2>1, <2>3, <3>2, NothingPushed
  <2> QED
    BY <1>1, <2>2, <2>3 DEF FinishStores
<1>2. CASE BeginPushes
  <2>1. /\ transition + 1 \in Ids /\ transition' = transition + 1 /\ current < transition + 1 /\ ~recording
        /\ UNCHANGED <<dropped, pc, record, strip, disk, hurt>>
    BY <1>2 DEF CallInv, StripTypes, BeginPushes, thread
  <2>2. CASE queue' = Append(queue, StartOf(transition')) /\ current' = transition' /\ strips' = Begun(transition')
    BY <2>1, <2>2, StartPushed
  <2>3. CASE UNCHANGED <<queue, current, strips, recording>>
    <3>1. ~Capturing'
      BY <2>1, <2>3 DEF Capturing
    <3> QED
      BY <1>0, <2>1, <2>3, <3>1, NothingPushed
  <2> QED
    BY <1>2, <2>2, <2>3 DEF BeginPushes
<1>3. CASE CapturePacket
  <2>1. /\ recording /\ op.what # "rotate" /\ "raw" \in Data /\ Offer("raw")
        /\ UNCHANGED <<current, state, pc, record, strip, disk, hurt>>
    BY <1>3, CallFacts DEF CapturePacket, thread, Data
  <2>2. current \in Ids /\ strips[current].end = "open"
    BY <2>1 DEF CallInv
  <2> QED
    BY <2>1, <2>2, OfferStrips
<1>4. CASE Rotate
  <2>1. /\ recording /\ op.what = "none" /\ phase = "feed" /\ UNCHANGED <<current, pc, record, strip, disk, hurt>>
        /\ transition + 1 \in Nat
    BY <1>4, CallFacts DEF Rotate, thread, StripTypes
  <2>2. current \in Ids /\ strips[current].end = "open" /\ pc # "ended"
    BY <2>1 DEF CallInv, ThreadShape
  <2>3. CASE queue' = Append(queue, FinishOf(transition + 1, TRUE)) /\ strips' = Ended("saved") /\ UNCHANGED dropped
    <3>1. strips' = Ended(IF TRUE THEN "saved" ELSE "spoiled") /\ strips[current].end # "spoiled" /\ TRUE \in BOOLEAN
      BY <2>2, <2>3
    <3> QED
      BY <2>1, <2>2, <2>3, <3>1, FinishPushed
  <2>4. CASE dropped' = dropped + 1 /\ UNCHANGED <<queue, strips>>
    BY <1>0, <2>1, <2>4, NothingPushed
  <2> QED
    BY <1>4, <2>3, <2>4 DEF Rotate
<1>5. CASE RotateStarts
  <2>1. transition \in Ids /\ current < transition /\ UNCHANGED <<pc, record, strip, disk, hurt>>
    BY <1>5 DEF CallInv, RotateStarts, thread
  <2>2. CASE /\ queue' = Append(queue, StartOf(transition)) /\ current' = transition /\ strips' = Begun(transition)
             /\ UNCHANGED dropped
    BY <2>1, <2>2, StartPushed
  <2>3. CASE dropped' = dropped + 1 /\ UNCHANGED <<queue, current, strips>>
    BY <1>0, <2>1, <2>3, NothingPushed
  <2> QED
    BY <1>5, <2>2, <2>3 DEF RotateStarts
<1>6. CASE Check \/ Exit \/ Buttons \/ Shutdown
  <2>1. /\ UNCHANGED <<current, queue, pc, record, strip, disk, hurt, strips, dropped>> /\ op.what = "none"
        /\ (recording' => recording) /\ (recording' => state' = state)
    <3>1. CASE Check
      BY <3>1, CallFacts DEF Check, At, Stop, shared, thread
    <3>2. CASE Exit
      BY <3>2, CallFacts DEF Exit, At, Stop, shared, thread
    <3>3. CASE Buttons
      <4>1. op.what = "none" /\ UNCHANGED <<pc, record, strip, disk, hurt>>
        BY <3>3, CallFacts DEF Buttons, At, thread
      <4>2. UNCHANGED <<current, queue, strips, dropped>>
        BY <3>3 DEF Buttons, Begin, shared
      <4>3. \/ recording' = FALSE
            \/ ~recording /\ UNCHANGED recording
            \/ UNCHANGED <<recording, state>>
        BY <3>3 DEF Buttons, Stop, Begin, shared
      <4> QED
        BY <4>1, <4>2, <4>3
    <3>4. CASE Shutdown
      BY <3>4, CallFacts DEF Shutdown, At, thread
    <3> QED
      BY <1>6, <3>1, <3>2, <3>3, <3>4
  <2>2. Capturing' => Capturing
    BY <2>1 DEF Capturing
  <2> QED
    BY <1>0, <2>1, <2>2, NothingPushed
<1>7. CASE PushBlock
  <2>1. /\ recording /\ op.what # "rotate" /\ "block" \in Data /\ Offer("block")
        /\ UNCHANGED <<current, state, pc, record, strip, disk, hurt>>
    BY <1>7, CallFacts DEF PushBlock, Push, At, thread, Data
  <2>2. current \in Ids /\ strips[current].end = "open"
    BY <2>1 DEF CallInv
  <2> QED
    BY <2>1, <2>2, OfferStrips
<1>8. CASE PushDrive
  <2>1. op.what # "rotate" /\ UNCHANGED <<current, state, pc, record, strip, disk, hurt>> /\ (recording' => recording)
    <3>1. op.what # "rotate" /\ UNCHANGED <<current, state, pc, record, strip, disk, hurt>>
      BY <1>8, CallFacts DEF PushDrive, At, thread
    <3>2. UNCHANGED recording \/ recording' = FALSE
      BY <1>8 DEF PushDrive, Stop
    <3> QED
      BY <3>1, <3>2
  <2>2. CASE recording
    <3>1. "drive" \in Data /\ Offer("drive")
      BY <1>8, <2>2 DEF PushDrive, Push, Data
    <3>2. current \in Ids /\ strips[current].end = "open"
      BY <2>1, <2>2 DEF CallInv
    <3> QED
      BY <2>1, <2>2, <3>1, <3>2, OfferStrips
  <2>3. CASE ~recording
    <3>1. UNCHANGED <<strips, queue, dropped>> /\ ~Capturing'
      BY <1>8, <2>1, <2>3 DEF PushDrive, Capturing
    <3> QED
      BY <1>0, <2>1, <3>1, NothingPushed
  <2> QED
    BY <2>2, <2>3
<1> QED
  BY <1>1, <1>2, <1>3, <1>4, <1>5, <1>6, <1>7, <1>8 DEF Collector

LEMMA StripsStep ==
    ASSUME Control, Control', Strips, [Next]_vars
    PROVE  Strips'
<1>1. CASE UNCHANGED vars
  <2>1. /\ UNCHANGED <<current, queue, pc, record, strip, disk, hurt, strips, dropped, recording, state, op>>
        /\ dropped \in Nat
    BY <1>1 DEF vars, loop, shared, thread, Control, StripTypes
  <2>2. (Capturing' => Capturing) /\ dropped <= dropped'
    BY <2>1 DEF Capturing
  <2> QED
    BY <2>1, <2>2, NothingPushed
<1> QED
  BY <1>1, CollectorStrips, ThreadStrips DEF Next

LEMMA ControlInit == Init => Control
<1> SUFFICES ASSUME Init PROVE Control
  OBVIOUS
<1>1. NoStrip \in AStrip /\ NoFiles \in AFile
  BY DEF NoStrip, AStrip, NoFiles, AFile
<1>2. StripTypes
  <2>1. strips \in [Ids -> AStrip] /\ disk \in [Ids -> AFile] /\ queue \in Seq(Items)
    BY <1>1 DEF Init
  <2>2. phase \in Phases /\ op \in Call /\ state \in States
    BY CallFacts DEF Init, Phases, States
  <2> QED
    BY <2>1, <2>2 DEF Init, StripTypes
<1>3. ThreadShape /\ CallInv
  BY CallFacts DEF Init, ThreadShape, CallInv, Open, Live
<1> QED
  BY <1>2, <1>3 DEF Control

\* The collector knows what its writer does with the strip it captures, for any queue.
THEOREM CallsAgree == Spec => []Control
<1>1. Control /\ [Next]_vars => Control'
  BY ControlStep
<1> QED
  BY <1>1, ControlInit, PTL DEF Spec

\* Strips are captured by a live writer, committed when they are saved and whole when they
\* are committed, for any queue, reserve and bounds.
THEOREM StripsStaySafe == Spec => []StripsAreSafe
<1>1. Init => Strips
  <2> SUFFICES ASSUME Init PROVE Strips
    OBVIOUS
  <2>1. NoStrip.drops = 0 /\ NoStrip.end = "none" /\ NoFiles.renamed = 0 /\ NoFiles.written = 0
        /\ NoFiles.last = 0 /\ NoFiles.kinds = {}
    BY DEF NoStrip, NoFiles
  <2>2. Line = <<>> /\ Len(Line) = 0 /\ Len(Outputs) = 4
    BY DEF Init, Line, Ahead, Open, Outputs
  <2> QED
    BY <2>1, <2>2 DEF Init, Strips, LedgerInv, LineInv, FreshInv, EndInv, Blank, Owed
<1>2. Control /\ Control' /\ Strips /\ [Next]_vars => Strips'
  BY StripsStep
<1>3. Control /\ Strips => StripsAreSafe
  <2> SUFFICES ASSUME Control, Strips PROVE StripsAreSafe
    OBVIOUS
  <2>1. CapturedIsLive
    BY DEF Control, CallInv, CapturedIsLive
  <2>2. /\ Len(Outputs) = 4 /\ Outputs[1] = "raw" /\ Outputs[2] = "excitation" /\ Outputs[3] = "drive"
        /\ Outputs[4] = "session"
    BY DEF Outputs
  <2>3. \A t \in Ids : disk[t].renamed \in Nat /\ disk[t].renamed <= 4
    BY <2>2 DEF Control, StripTypes, AFile, Strips, LedgerInv
  <2>4. \A t \in Ids : Committed(t) <=> disk[t].renamed = 4
    BY <2>2, <2>3 DEF Committed, Final
  <2>5. SavedIsCommitted
    <3> SUFFICES ASSUME NEW t \in Ids \ hurt, pc = "ended", Owed(t) PROVE Committed(t)
      BY DEF SavedIsCommitted, Owed
    <3>1. ~Open /\ queue = <<>>
      BY DEF Control, ThreadShape
    <3>2. Line = <<>>
      BY <3>1 DEF Line, Ahead
    <3>3. ~InLine(t)
      BY <3>2 DEF InLine
    <3> QED
      BY <2>2, <2>4, <3>3 DEF Strips, EndInv
  <2>6. CommittedIsWhole
    <3> SUFFICES ASSUME NEW t \in Ids, Committed(t)
                 PROVE  /\ Final(t) = {Outputs[i] : i \in 1 .. Len(Outputs)}
                        /\ disk[t].manifest = "complete" /\ strips[t].end = "saved"
                        /\ {"raw", "drive"} \subseteq disk[t].kinds /\ disk[t].written = disk[t].last
      BY DEF CommittedIsWhole
    <3>1. disk[t].renamed = 4
      BY <2>4
    <3>2. Whole(t)
      BY <3>1 DEF Strips, EndInv
    <3> QED
      BY <2>2, <3>1, <3>2 DEF Final, Whole
  <2> QED
    BY <2>1, <2>5, <2>6 DEF StripsAreSafe
<1> QED
  BY <1>1, <1>2, <1>3, CallsAgree, PTL DEF Spec

-----------------------------------------------------------------------------
(* The strips of the PID collector: a row and its frame take two queues    *)
(* (PidTelemetry).                                                         *)

\* A step of the loop between two calls, which at most offers a record and stops.
LEMMA QuietStep ==
    ASSUME Control, op = NoCall, phase \in {"feed", "drive"}, phase' \in {"feed", "buttons", "drive", "exit"},
           failed' \in BOOLEAN, UNCHANGED <<current, state, transition, quit, thread>>,
           strips' \in [Ids -> AStrip], queue' \in Seq(Items), dropped' \in Nat,
           current \in Ids => strips'[current].end = strips[current].end,
           (UNCHANGED <<op, recording>> /\ phase' # "exit") \/ Stop(FALSE)
    PROVE  Control'
<1> USE DEF Control
<1>1. ~quit /\ op.what = "none"
  BY CallFacts DEF CallInv
<1>2. \/ UNCHANGED <<op, recording>> /\ phase' # "exit"
      \/ recording' = FALSE /\ op' \in Call /\ op'.what = "finish" /\ state \in Live
      \/ recording' = FALSE /\ op' = NoCall
  BY CallFacts DEF Stop, Finish
<1>3. StripTypes'
  BY <1>2, CallFacts DEF StripTypes, thread, Phases
<1>4. ThreadShape'
  BY <1>1 DEF ThreadShape, thread, Open
<1>5. CallInv'
  BY <1>1, <1>2, CallFacts DEF CallInv
<1> QED
  BY <1>3, <1>4, <1>5

\* The steps of the collector agree on what its writer does with the strip.
LEMMA PidControlStep ==
    ASSUME Control, framed => recording /\ op = NoCall, taking => pc = "loop" /\ Open /\ record.kind = "drive", [TelemetryNext]_pidVars
    PROVE  Control'
<1> USE DEF Control
<1>1. CASE RequireHealthy
  <2>1. /\ op = NoCall /\ phase = "feed" /\ phase' \in {"buttons", "exit"} /\ failed' \in BOOLEAN
        /\ UNCHANGED <<current, strips, shared, thread>>
        /\ (UNCHANGED <<op, recording>> /\ phase' # "exit") \/ Stop(FALSE)
    BY <1>1 DEF RequireHealthy, Throw, StripTypes
  <2> QED
    BY <2>1, QuietStep DEF shared, StripTypes
<1>2. CASE PushFrame
  <2>1. /\ op = NoCall /\ phase = "drive" /\ phase' \in {"drive", "exit"} /\ failed' \in BOOLEAN
        /\ UNCHANGED <<current, strips, shared, thread>>
        /\ (UNCHANGED <<op, recording>> /\ phase' # "exit") \/ Stop(FALSE)
    BY <1>2 DEF PushFrame, Throw, StripTypes
  <2> QED
    BY <2>1, QuietStep DEF shared, StripTypes
<1>3. CASE PushRowOfFrame
  <2>1. /\ op = NoCall /\ recording /\ phase = "drive" /\ phase' \in {"feed", "exit"} /\ failed' \in BOOLEAN
        /\ UNCHANGED <<current, state, transition, quit, thread>> /\ Offer("drive")
        /\ (UNCHANGED <<op, recording>> /\ phase' # "exit") \/ Stop(FALSE)
    BY <1>3 DEF PushRowOfFrame, Throw, StripTypes
  <2>2. current \in Ids /\ "drive" \in Data
    BY <2>1, CallFacts DEF CallInv, Data
  <2>3. /\ strips' \in [Ids -> AStrip] /\ queue' \in Seq(Items) /\ dropped' \in Nat
        /\ strips'[current].end = strips[current].end
    BY <2>1, <2>2, OfferTypes
  <2> QED
    BY <2>1, <2>3, QuietStep
<1>4. CASE SkipRow
  <2>1. /\ op = NoCall /\ phase = "drive" /\ phase' = "feed" /\ UNCHANGED <<op, recording, failed, current, strips, shared, thread>>
    BY <1>4 DEF SkipRow, At
  <2> QED
    BY <2>1, QuietStep DEF shared, StripTypes
<1>5. CASE Shares
  BY <1>5, ControlStep DEF Shares, Next, Collector
<1>6. CASE PopRow
  <2>1. /\ queue # <<>> /\ pc = "loop" /\ record' = Head(queue) /\ queue' = Tail(queue)
        /\ UNCHANGED <<loop, state, transition, dropped, quit, pc, strip, disk>>
    BY <1>6 DEF PopRow, IsRow
  <2>2. record' \in Items /\ queue' \in Seq(Items)
    BY <2>1, LineQueueFacts DEF StripTypes
  <2> QED
    BY <2>1, <2>2 DEF StripTypes, ThreadShape, CallInv, loop, Open
<1>7. CASE TakeFrame
  <2>1. /\ UNCHANGED <<loop, queue, transition, dropped, quit, pc, record>> /\ pc = "loop" /\ Open
        /\ (disk' = Written(record) /\ UNCHANGED <<state, strip>>) \/ (state' = "Failed" /\ strip' = NoRecord /\ disk' = disk)
    BY <1>7 DEF TakeFrame
  <2>2. record \in Items /\ record.kind \in Data /\ strip \in Starts
    BY <1>7, CallFacts DEF TakeFrame, StripTypes, Open, Data
  <2>3. disk' \in [Ids -> AFile]
    BY <2>1, <2>2, WrittenTo DEF StripTypes
  <2>4. StripTypes'
    BY <2>1, <2>3 DEF StripTypes, loop, States
  <2>5. ThreadShape'
    BY <2>1 DEF ThreadShape, Open
  <2>6. CallInv'
    BY <2>1 DEF CallInv, loop, Live
  <2> QED
    BY <2>4, <2>5, <2>6
<1>8. CASE PidThread /\ ~PopRow /\ ~TakeFrame
  BY <1>8, ControlStep DEF PidThread, Next, Thread
<1>9. CASE UNCHANGED pidVars
  BY <1>9, ControlStep DEF pidVars
<1> QED
  BY <1>1, <1>2, <1>3, <1>4, <1>5, <1>6, <1>7, <1>8, <1>9 DEF TelemetryNext, PidLoop, PidThread

\* The rows in a line L whose strip's Start is in it: their frames are in the attachment A,
\* when the captured strip cu has been offered off records.
RowOf(L, i, j) ==
    /\ i \in 1 .. Len(L) /\ j \in i + 1 .. Len(L) /\ L[i].kind = "start" /\ L[j].kind = "drive"
    /\ \A m \in i + 1 .. j : L[m].kind # "start"
Latest(L, i) == i \in 1 .. Len(L) /\ L[i].kind = "start" /\ \A m \in i + 1 .. Len(L) : L[m].kind # "start"
StartsRise(L, cu) ==
    /\ \A i \in 1 .. Len(L) : L[i].kind = "start" => L[i].t <= cu
    /\ \A i, j \in 1 .. Len(L) : i < j /\ L[i].kind = "start" /\ L[j].kind = "start" => L[i].t < L[j].t
    /\ \A i \in 1 .. Len(L) : Latest(L, i) => L[i].t = cu
RowsRise(L, cu, off) ==
    /\ \A i, j \in 1 .. Len(L) : RowOf(L, i, j) /\ L[i].t = cu => L[j].n <= off
    /\ \A i, j, m \in 1 .. Len(L) : RowOf(L, i, j) /\ RowOf(L, i, m) /\ j < m => L[j].n < L[m].n
RowsFramed(L, A) == \A i, j \in 1 .. Len(L) : RowOf(L, i, j) => TickOf(L[i].t, L[j].n) \in A

\* Records that leave the line do not disturb the others, when no start is left out between them.
LEMMA RowsKept ==
    ASSUME NEW L \in Seq(Items), NEW M \in Seq(Items), NEW m \in [1 .. Len(M) -> 1 .. Len(L)],
           \A j \in 1 .. Len(M) : M[j] = L[m[j]],
           \A i, j \in 1 .. Len(M) : i < j => m[i] < m[j],
           \A x \in 1 .. Len(L) : L[x].kind = "start" =>
               (\E j \in 1 .. Len(M) : m[j] = x) \/ (\A j \in 1 .. Len(M) : x < m[j]),
           NEW cu, NEW off, NEW A, StartsRise(L, cu), RowsRise(L, cu, off), RowsFramed(L, A)
    PROVE  /\ StartsRise(M, cu) /\ RowsRise(M, cu, off) /\ RowsFramed(M, A)
           /\ \A i, j \in 1 .. Len(M) : RowOf(M, i, j) => RowOf(L, m[i], m[j])
<1>0. /\ Len(L) \in Nat /\ Len(M) \in Nat /\ \A j \in 1 .. Len(M) : m[j] \in 1 .. Len(L) /\ m[j] \in Int
      /\ \A i, j \in 1 .. Len(M) : m[i] < m[j] => i < j
  <2>1. Len(L) \in Nat /\ Len(M) \in Nat /\ \A j \in 1 .. Len(M) : m[j] \in 1 .. Len(L)
    <3>1. Len(L) \in Nat /\ Len(M) \in Nat
      BY LenProperties
    <3>2. \A j \in 1 .. Len(M) : m[j] \in 1 .. Len(L)
      BY Zenon
    <3> QED
      BY <3>1, <3>2
  <2>2. ASSUME NEW i \in 1 .. Len(M), NEW j \in 1 .. Len(M), m[i] < m[j] PROVE i < j
    <3>1. CASE j < i
      <4>1. m[j] < m[i] /\ m[i] \in Int /\ m[j] \in Int
        BY <2>1, <3>1
      <4> QED
        BY <2>2, <4>1
    <3>2. CASE i = j
      <4>1. m[i] < m[i] /\ m[i] \in Int
        BY <2>1, <2>2, <3>2
      <4> QED
        BY <4>1
    <3> QED
      BY <2>1, <3>1, <3>2
  <2>3. \A x \in 1 .. Len(L) : x \in Int
    BY <2>1
  <2> QED
    BY <2>1, <2>2, <2>3
<1>1. ASSUME NEW i \in 1 .. Len(M), NEW x \in m[i] + 1 .. Len(L), L[x].kind = "start"
      PROVE  \E y \in 1 .. Len(M) : m[y] = x /\ i < y /\ M[y].kind = "start"
  <2>1. x \in 1 .. Len(L) /\ m[i] < x /\ ~(x < m[i])
    BY <1>0
  <2>2. PICK y \in 1 .. Len(M) : m[y] = x
    BY <1>1, <2>1
  <2> QED
    BY <1>0, <1>1, <2>1, <2>2
<1>2. ASSUME NEW i \in 1 .. Len(M), NEW j \in 1 .. Len(M), RowOf(M, i, j) PROVE RowOf(L, m[i], m[j])
  <2>1. /\ i < j /\ M[i].kind = "start" /\ M[j].kind = "drive" /\ \A x \in i + 1 .. j : M[x].kind # "start"
    BY <1>2 DEF RowOf
  <2>2. m[i] \in 1 .. Len(L) /\ m[j] \in m[i] + 1 .. Len(L) /\ L[m[i]].kind = "start" /\ L[m[j]].kind = "drive"
    <3>1. m[i] < m[j] /\ m[i] \in 1 .. Len(L) /\ m[j] \in 1 .. Len(L)
      BY <1>0, <2>1
    <3>2. m[j] \in m[i] + 1 .. Len(L)
      BY <1>0, <3>1
    <3> QED
      BY <2>1, <3>1, <3>2
  <2>3. ASSUME NEW x \in m[i] + 1 .. m[j], L[x].kind = "start" PROVE FALSE
    <3>1. x \in m[i] + 1 .. Len(L) /\ x <= m[j]
      BY <1>0, <2>2
    <3>2. PICK y \in 1 .. Len(M) : m[y] = x /\ i < y /\ M[y].kind = "start"
      BY <1>1, <2>3, <3>1
    <3>3. ~(j < y)
      BY <1>0, <3>1, <3>2
    <3>4. y \in i + 1 .. j
      BY <1>0, <3>2, <3>3
    <3> QED
      BY <2>1, <3>2, <3>4
  <2> QED
    BY <2>2, <2>3 DEF RowOf
<1>3. ASSUME NEW i \in 1 .. Len(M), Latest(M, i) PROVE Latest(L, m[i])
  <2>1. M[i].kind = "start" /\ \A x \in i + 1 .. Len(M) : M[x].kind # "start"
    BY <1>3 DEF Latest
  <2>2. ASSUME NEW x \in m[i] + 1 .. Len(L), L[x].kind = "start" PROVE FALSE
    <3>1. PICK y \in 1 .. Len(M) : m[y] = x /\ i < y /\ M[y].kind = "start"
      BY <1>1, <2>2
    <3>2. y \in i + 1 .. Len(M)
      BY <1>0, <3>1
    <3> QED
      BY <2>1, <3>1, <3>2
  <2> QED
    BY <1>0, <2>1, <2>2 DEF Latest
<1>4. StartsRise(M, cu)
  <2>1. \A i \in 1 .. Len(M) : M[i].kind = "start" => M[i].t <= cu
    BY <1>0 DEF StartsRise
  <2>2. \A i, j \in 1 .. Len(M) : i < j /\ M[i].kind = "start" /\ M[j].kind = "start" => M[i].t < M[j].t
    <3> SUFFICES ASSUME NEW i \in 1 .. Len(M), NEW j \in 1 .. Len(M), i < j, M[i].kind = "start", M[j].kind = "start"
                 PROVE  M[i].t < M[j].t
      OBVIOUS
    <3>1. m[i] < m[j] /\ L[m[i]].kind = "start" /\ L[m[j]].kind = "start" /\ M[i] = L[m[i]] /\ M[j] = L[m[j]]
      OBVIOUS
    <3>2. L[m[i]].t < L[m[j]].t
      BY <1>0, <3>1 DEF StartsRise
    <3> QED
      BY <3>1, <3>2
  <2>3. \A i \in 1 .. Len(M) : Latest(M, i) => M[i].t = cu
    BY <1>0, <1>3 DEF StartsRise
  <2> QED
    BY <2>1, <2>2, <2>3 DEF StartsRise
<1>5. RowsRise(M, cu, off)
  <2>1. ASSUME NEW i \in 1 .. Len(M), NEW j \in 1 .. Len(M), RowOf(M, i, j), M[i].t = cu PROVE M[j].n <= off
    BY <1>0, <1>2, <2>1 DEF RowsRise
  <2>2. ASSUME NEW i \in 1 .. Len(M), NEW j \in 1 .. Len(M), NEW k \in 1 .. Len(M),
               RowOf(M, i, j), RowOf(M, i, k), j < k
        PROVE  M[j].n < M[k].n
    <3>1. RowOf(L, m[i], m[j]) /\ RowOf(L, m[i], m[k]) /\ m[j] < m[k]
      BY <1>2, <2>2
    <3>2. L[m[j]].n < L[m[k]].n
      BY <1>0, <3>1 DEF RowsRise
    <3> QED
      BY <3>2
  <2> QED
    BY <2>1, <2>2 DEF RowsRise
<1>6. RowsFramed(M, A)
  <2> SUFFICES ASSUME NEW i \in 1 .. Len(M), NEW j \in 1 .. Len(M), RowOf(M, i, j) PROVE TickOf(M[i].t, M[j].n) \in A
    BY DEF RowsFramed
  <2>1. TickOf(L[m[i]].t, L[m[j]].n) \in A
    BY <1>0, <1>2 DEF RowsFramed
  <2>2. M[i] = L[m[i]] /\ M[j] = L[m[j]]
    OBVIOUS
  <2> QED
    BY <2>1, <2>2
<1> QED
  BY <1>2, <1>4, <1>5, <1>6

\* A record that is pushed is the last of the line: a row of the captured strip, or its Start.
LEMMA RowsPushed ==
    ASSUME NEW L \in Seq(Items), NEW M \in Seq(Items), NEW r \in Items,
           Len(M) = Len(L) + 1, M[Len(M)] = r, \A i \in 1 .. Len(L) : M[i] = L[i],
           NEW cu \in Nat, NEW off \in Nat, NEW A, StartsRise(L, cu), RowsRise(L, cu, off), RowsFramed(L, A)
    PROVE  /\ \A i, j \in 1 .. Len(L) : RowOf(M, i, j) => RowOf(L, i, j)
           /\ r.kind # "start" => StartsRise(M, cu)
           /\ r.kind \notin {"start", "drive"} => RowsRise(M, cu, off) /\ RowsFramed(M, A)
           /\ r.kind = "drive" /\ r.n = off + 1 => RowsRise(M, cu, off + 1)
           /\ r.kind = "drive" /\ TickOf(cu, r.n) \in A => RowsFramed(M, A)
           /\ r.kind = "start" /\ cu < r.t => StartsRise(M, r.t) /\ RowsRise(M, r.t, 0) /\ RowsFramed(M, A)
<1> DEFINE e == Len(M)
<1>0. /\ Len(L) \in Nat /\ e \in Nat /\ e = Len(L) + 1 /\ e \in 1 .. Len(M) /\ M[e] = r
      /\ \A i \in 1 .. Len(L) : i \in 1 .. e /\ i < e /\ i \in Nat
      /\ \A i \in 1 .. e : i \in 1 .. Len(L) \/ i = e
  OBVIOUS
<1>1. \A i, j \in 1 .. Len(L) : RowOf(M, i, j) => RowOf(L, i, j)
  <2> SUFFICES ASSUME NEW i \in 1 .. Len(L), NEW j \in 1 .. Len(L), RowOf(M, i, j) PROVE RowOf(L, i, j)
    OBVIOUS
  <2>1. i < j /\ \A x \in i + 1 .. j : x \in 1 .. Len(L)
    BY <1>0 DEF RowOf
  <2> QED
    BY <1>0, <2>1 DEF RowOf
<1>2. ASSUME NEW i \in 1 .. e, NEW j \in 1 .. e, RowOf(M, i, j)
      PROVE  i \in 1 .. Len(L) /\ (j \in 1 .. Len(L) \/ (j = e /\ r.kind = "drive" /\ Latest(L, i)))
  <2>1. i < j /\ i \in 1 .. Len(L)
    BY <1>0, <1>2 DEF RowOf
  <2>2. CASE j = e
    <3>1. r.kind = "drive" /\ M[i].kind = "start" /\ \A x \in i + 1 .. e : M[x].kind # "start"
      BY <1>0, <1>2, <2>2 DEF RowOf
    <3>2. \A x \in i + 1 .. Len(L) : x \in i + 1 .. e /\ x \in 1 .. Len(L)
      BY <1>0
    <3> QED
      BY <2>1, <2>2, <3>1, <3>2 DEF Latest
  <2> QED
    BY <1>0, <2>1, <2>2
<1>3. ASSUME r.kind # "start" PROVE StartsRise(M, cu)
  <2>1. ASSUME NEW i \in 1 .. e, Latest(M, i) PROVE Latest(L, i) /\ i \in 1 .. Len(L)
    <3>1. i # e
      BY <1>0, <1>3, <2>1 DEF Latest
    <3>2. i \in 1 .. Len(L) /\ \A x \in i + 1 .. Len(L) : x \in i + 1 .. e /\ x \in 1 .. Len(L)
      BY <1>0, <3>1
    <3> QED
      BY <2>1, <3>2 DEF Latest
  <2>2. \A i \in 1 .. e : M[i].kind = "start" => i \in 1 .. Len(L)
    BY <1>0, <1>3
  <2>3. \A i \in 1 .. e : M[i].kind = "start" => M[i].t <= cu
    BY <2>2 DEF StartsRise
  <2>4. \A i, j \in 1 .. e : i < j /\ M[i].kind = "start" /\ M[j].kind = "start" => M[i].t < M[j].t
    BY <2>2 DEF StartsRise
  <2>5. \A i \in 1 .. e : Latest(M, i) => M[i].t = cu
    BY <2>1 DEF StartsRise
  <2> QED
    BY <2>3, <2>4, <2>5 DEF StartsRise
<1>4. ASSUME r.kind \notin {"start", "drive"} PROVE RowsRise(M, cu, off) /\ RowsFramed(M, A)
  <2>1. \A i, j \in 1 .. e : RowOf(M, i, j) => i \in 1 .. Len(L) /\ j \in 1 .. Len(L) /\ RowOf(L, i, j)
    BY <1>1, <1>2, <1>4
  <2>2. \A i, j \in 1 .. e : RowOf(M, i, j) /\ M[i].t = cu => M[j].n <= off
    BY <2>1 DEF RowsRise
  <2>3. \A i, j, m \in 1 .. e : RowOf(M, i, j) /\ RowOf(M, i, m) /\ j < m => M[j].n < M[m].n
    BY <2>1 DEF RowsRise
  <2>4. \A i, j \in 1 .. e : RowOf(M, i, j) => TickOf(M[i].t, M[j].n) \in A
    BY <2>1 DEF RowsFramed
  <2> QED
    BY <2>2, <2>3, <2>4 DEF RowsRise, RowsFramed
<1>5. ASSUME r.kind = "drive", r.n = off + 1 PROVE RowsRise(M, cu, off + 1)
  <2>0. ASSUME NEW i \in 1 .. Len(L), NEW j \in 1 .. Len(L), RowOf(L, i, j), L[i].t = cu PROVE L[j].n <= off /\ L[j].n \in Nat
    <3>1. L[j] \in Items /\ L[j].kind \in Data
      BY <2>0 DEF RowOf, Data
    <3> QED
      BY <2>0, <3>1, ItemFacts DEF RowsRise
  <2>1. ASSUME NEW i \in 1 .. e, NEW j \in 1 .. e, RowOf(M, i, j), M[i].t = cu PROVE M[j].n <= off + 1
    <3>1. CASE j \in 1 .. Len(L)
      <4>1. L[j].n <= off /\ L[j].n \in Nat
        BY <1>1, <1>2, <2>0, <2>1, <3>1
      <4> QED
        BY <3>1, <4>1
    <3>2. CASE j = e
      BY <1>0, <1>5, <3>2
    <3> QED
      BY <1>0, <3>1, <3>2
  <2>2. ASSUME NEW i \in 1 .. e, NEW j \in 1 .. e, NEW m \in 1 .. e, RowOf(M, i, j), RowOf(M, i, m), j < m
        PROVE  M[j].n < M[m].n
    <3>1. i \in 1 .. Len(L) /\ j \in 1 .. Len(L) /\ RowOf(L, i, j)
      <4>1. j # e
        BY <1>0, <2>2
      <4> QED
        BY <1>1, <1>2, <2>2, <4>1
    <3>2. CASE m \in 1 .. Len(L)
      <4>1. RowOf(L, i, m)
        BY <1>1, <2>2, <3>1, <3>2
      <4> QED
        BY <2>2, <3>1, <3>2, <4>1 DEF RowsRise
    <3>3. CASE m = e
      <4>1. L[i].t = cu
        <5>1. m \notin 1 .. Len(L)
          BY <1>0, <3>3
        <5>2. Latest(L, i)
          BY <1>2, <2>2, <5>1
        <5> QED
          BY <3>1, <5>2 DEF StartsRise
      <4>2. L[j].n <= off /\ L[j].n \in Nat
        BY <2>0, <3>1, <4>1
      <4> QED
        BY <1>0, <1>5, <3>1, <3>3, <4>2
    <3> QED
      BY <1>0, <3>2, <3>3
  <2> QED
    BY <2>1, <2>2 DEF RowsRise
<1>6. ASSUME r.kind = "drive", TickOf(cu, r.n) \in A PROVE RowsFramed(M, A)
  <2> SUFFICES ASSUME NEW i \in 1 .. e, NEW j \in 1 .. e, RowOf(M, i, j) PROVE TickOf(M[i].t, M[j].n) \in A
    BY DEF RowsFramed
  <2>1. CASE j \in 1 .. Len(L)
    BY <1>1, <1>2, <2>1 DEF RowsFramed
  <2>2. CASE j \notin 1 .. Len(L)
    <3>1. Latest(L, i) /\ i \in 1 .. Len(L) /\ j = e
      BY <1>2, <2>2
    <3>2. L[i].t = cu
      BY <3>1 DEF StartsRise
    <3> QED
      BY <1>0, <1>6, <3>1, <3>2
  <2> QED
    BY <2>1, <2>2
<1>7. ASSUME r.kind = "start", cu < r.t PROVE StartsRise(M, r.t) /\ RowsRise(M, r.t, 0) /\ RowsFramed(M, A)
  <2>0. r.t \in Nat /\ \A i \in 1 .. Len(L) : L[i].kind = "start" => L[i].t \in Nat /\ L[i].t <= cu
    <3>1. r.t \in Ids /\ \A i \in 1 .. Len(L) : L[i].kind = "start" => L[i].t \in Ids
      BY <1>7, ItemFacts
    <3> QED
      BY <3>1 DEF Ids, StartsRise
  <2>1. \A i, j \in 1 .. e : RowOf(M, i, j) => i \in 1 .. Len(L) /\ j \in 1 .. Len(L) /\ RowOf(L, i, j) /\ M[i].t # r.t
    <3> SUFFICES ASSUME NEW i \in 1 .. e, NEW j \in 1 .. e, RowOf(M, i, j)
                 PROVE  i \in 1 .. Len(L) /\ j \in 1 .. Len(L) /\ RowOf(L, i, j) /\ M[i].t # r.t
      OBVIOUS
    <3>1. i \in 1 .. Len(L) /\ j \in 1 .. Len(L) /\ RowOf(L, i, j)
      BY <1>1, <1>2, <1>7
    <3>2. L[i].kind = "start"
      BY <3>1 DEF RowOf
    <3> QED
      BY <1>7, <2>0, <3>1, <3>2
  <2>2. \A i \in 1 .. e : M[i].kind = "start" => M[i].t <= r.t
    BY <1>0, <1>7, <2>0
  <2>3. \A i, j \in 1 .. e : i < j /\ M[i].kind = "start" /\ M[j].kind = "start" => M[i].t < M[j].t
    <3> SUFFICES ASSUME NEW i \in 1 .. e, NEW j \in 1 .. e, i < j, M[i].kind = "start", M[j].kind = "start" PROVE M[i].t < M[j].t
      OBVIOUS
    <3>1. i \in 1 .. Len(L)
      BY <1>0
    <3>2. CASE j \in 1 .. Len(L)
      BY <3>1, <3>2 DEF StartsRise
    <3>3. CASE j = e
      BY <1>0, <1>7, <2>0, <3>1, <3>3
    <3> QED
      BY <1>0, <3>2, <3>3
  <2>4. \A i \in 1 .. e : Latest(M, i) => M[i].t = r.t
    <3> SUFFICES ASSUME NEW i \in 1 .. e, Latest(M, i) PROVE i = e
      BY <1>0
    <3>1. CASE i \in 1 .. Len(L)
      <4>1. e \in i + 1 .. e
        BY <1>0, <3>1
      <4> QED
        BY <1>0, <1>7, <4>1 DEF Latest
    <3> QED
      BY <1>0, <3>1
  <2>5. \A i, j \in 1 .. e : RowOf(M, i, j) /\ M[i].t = r.t => M[j].n <= 0
    BY <2>1
  <2>6. \A i, j, m \in 1 .. e : RowOf(M, i, j) /\ RowOf(M, i, m) /\ j < m => M[j].n < M[m].n
    BY <2>1 DEF RowsRise
  <2>7. \A i, j \in 1 .. e : RowOf(M, i, j) => TickOf(M[i].t, M[j].n) \in A
    BY <2>1 DEF RowsFramed
  <2> QED
    BY <2>2, <2>3, <2>4, <2>5, <2>6, <2>7 DEF StartsRise, RowsRise, RowsFramed
<1> QED
  BY <1>1, <1>3, <1>4, <1>5, <1>6, <1>7

\* The frames in the attachment, in the order of their ticks, up to the tick of the loop.
Ticks == {attached[k] : k \in 1 .. Len(attached)}
Done == IF current \in Ids THEN strips[current].offered ELSE 0
FrameInv ==
    /\ attached \in Seq(Nat \X Nat) /\ framed \in BOOLEAN /\ taking \in BOOLEAN
    /\ \A i, j \in 1 .. Len(attached) : i < j => Earlier(attached[i], attached[j])
    /\ \A a \in Ticks : a[1] < current \/ (a[1] = current /\ (a[2] <= Done \/ (framed /\ a[2] = Done + 1)))
    /\ framed => phase = "drive" /\ op = NoCall /\ recording /\ TickOf(current, Done + 1) \in Ticks

\* The row that the thread has popped and not yet written.
HeldInv ==
    taking =>
        /\ pc = "loop" /\ Open /\ record.kind = "drive" /\ TickOf(strip.t, record.n) \in Ticks
        /\ strip.t = current => record.n <= Done
        /\ \A j \in 1 .. Len(Line) : RowOf(Line, 1, j) => record.n < Line[j].n

Telemetry ==
    FrameInv /\ StartsRise(Line, current) /\ RowsRise(Line, current, Done) /\ RowsFramed(Line, Ticks) /\ HeldInv

LEMMA FramesHaveTicks ==
    ASSUME FrameInv
    PROVE  \A b \in Ticks : b \in Nat \X Nat
<1>1. attached \in Seq(Nat \X Nat)
  BY DEF FrameInv
<1>2. \A k \in 1 .. Len(attached) : attached[k] \in Nat \X Nat
  BY ONLY <1>1
<1> QED
  BY ONLY <1>2 DEF Ticks

LEMMA TelemetryFacts ==
    ASSUME Control
    PROVE  /\ Done \in Nat /\ current \in Nat /\ (record.kind = "drive" => record.n \in Nat)
           /\ \A j \in 1 .. Len(Line) : Line[j].kind = "drive" => Line[j].n \in Nat
           /\ recording /\ op.what # "rotate" => current \in Ids /\ Done = strips[current].offered
<1>1. Done \in Nat /\ current \in Nat
  BY DEF Done, Control, StripTypes, AStrip
<1>2. record.kind = "drive" => record.n \in Nat
  <2>1. record.kind = "drive" => record \in Items /\ record.kind \in Data
    BY CallFacts DEF Control, StripTypes, Data
  <2> QED
    BY <2>1, ItemFacts
<1>3. ASSUME NEW j \in 1 .. Len(Line), Line[j].kind = "drive" PROVE Line[j].n \in Nat
  <2>1. Line[j] \in Items /\ Line[j].kind \in Data
    BY <1>3, LineFacts DEF Data
  <2> QED
    BY <2>1, ItemFacts
<1> QED
  BY <1>1, <1>2, <1>3 DEF Done, Control, CallInv

\* A step of the loop that pushes no row and begins no strip.
LEMMA NoRowPushed ==
    ASSUME Control, Control', Telemetry, UNCHANGED <<thread, telemetry, current>>, ~framed, Done <= Done',
           queue' = queue \/ \E r \in Items : r.kind \notin {"start", "drive"} /\ queue' = Append(queue, r)
    PROVE  Telemetry'
<1>0. /\ Done \in Nat /\ Done' \in Nat /\ Line \in Seq(Items) /\ Ticks' = Ticks /\ (Open' <=> Open)
      /\ UNCHANGED <<pc, record, strip, current, attached, framed, taking>> /\ (record.kind = "drive" => record.n \in Nat)
  <2>1. Done' \in Nat
    BY DEF Done, Control, StripTypes, AStrip
  <2> QED
    BY <2>1, TelemetryFacts, LineFacts DEF thread, telemetry, Ticks, Open
<1>1. /\ Line' \in Seq(Items) /\ StartsRise(Line', current) /\ RowsRise(Line', current, Done) /\ RowsFramed(Line', Ticks)
      /\ \A j \in 1 .. Len(Line') : RowOf(Line', 1, j) => j \in 1 .. Len(Line) /\ RowOf(Line, 1, j) /\ Line'[j] = Line[j]
  <2>1. CASE queue' = queue
    <3>1. Line' = Line
      BY <1>0, <2>1 DEF Line, Ahead, Open
    <3> QED
      BY <1>0, <3>1 DEF Telemetry
  <2>2. ASSUME NEW r \in Items, r.kind \notin {"start", "drive"}, queue' = Append(queue, r)
        PROVE  /\ Line' \in Seq(Items) /\ StartsRise(Line', current) /\ RowsRise(Line', current, Done) /\ RowsFramed(Line', Ticks)
               /\ \A j \in 1 .. Len(Line') : RowOf(Line', 1, j) => j \in 1 .. Len(Line) /\ RowOf(Line, 1, j) /\ Line'[j] = Line[j]
    <3>1. /\ Line' \in Seq(Items) /\ Len(Line') = Len(Line) + 1 /\ Line'[Len(Line')] = r
          /\ \A i \in 1 .. Len(Line) : Line'[i] = Line[i] /\ i \in 1 .. Len(Line')
          /\ \A i \in 1 .. Len(Line') : i \in 1 .. Len(Line) \/ i = Len(Line')
      BY <1>0, <2>2, LineGrows
    <3>2. /\ StartsRise(Line', current) /\ RowsRise(Line', current, Done) /\ RowsFramed(Line', Ticks)
          /\ \A i, j \in 1 .. Len(Line) : RowOf(Line', i, j) => RowOf(Line, i, j)
      BY <1>0, <2>2, <3>1, RowsPushed DEF Telemetry, Control, StripTypes
    <3>3. ASSUME NEW j \in 1 .. Len(Line'), RowOf(Line', 1, j) PROVE j \in 1 .. Len(Line) /\ RowOf(Line, 1, j) /\ Line'[j] = Line[j]
      <4>1. Line'[j].kind = "drive" /\ 1 < j
        BY <3>3 DEF RowOf
      <4>2. j \in 1 .. Len(Line)
        BY <2>2, <3>1, <4>1
      <4>3. 1 \in 1 .. Len(Line)
        BY <4>2
      <4> QED
        BY <3>1, <3>2, <3>3, <4>2, <4>3
    <3> QED
      BY <3>1, <3>2, <3>3
  <2> QED
    BY <2>1, <2>2
<1>2. RowsRise(Line', current, Done')
  <2>1. ASSUME NEW i \in 1 .. Len(Line'), NEW j \in 1 .. Len(Line'), RowOf(Line', i, j), Line'[i].t = current PROVE Line'[j].n <= Done'
    <3>1. Line'[j] \in Items /\ Line'[j].kind \in Data
      BY <1>1, <2>1 DEF RowOf, Data
    <3>2. Line'[j].n \in Nat /\ Line'[j].n <= Done
      BY <1>1, <2>1, <3>1, ItemFacts DEF RowsRise
    <3> QED
      BY <1>0, <3>2
  <2> QED
    BY <1>1, <2>1 DEF RowsRise
<1>3. FrameInv'
  <2>1. \A a \in Ticks : a \in Nat \X Nat
    BY FramesHaveTicks DEF Telemetry
  <2>2. \A a \in Ticks : a[1] < current \/ (a[1] = current /\ a[2] <= Done')
    <3> SUFFICES ASSUME NEW a \in Ticks PROVE a[1] < current \/ (a[1] = current /\ a[2] <= Done')
      OBVIOUS
    <3>1. a[2] \in Nat
      BY <2>1
    <3> QED
      BY <1>0, <3>1 DEF Telemetry, FrameInv
  <2> QED
    BY <1>0, <2>2 DEF Telemetry, FrameInv
<1>4. HeldInv'
  <2> SUFFICES ASSUME taking PROVE HeldInv'
    BY <1>0 DEF HeldInv
  <2>1. /\ pc = "loop" /\ Open /\ record.kind = "drive" /\ TickOf(strip.t, record.n) \in Ticks
        /\ strip.t = current => record.n <= Done
        /\ \A j \in 1 .. Len(Line) : RowOf(Line, 1, j) => record.n < Line[j].n
    BY DEF Telemetry, HeldInv
  <2>2. strip.t = current => record.n <= Done'
    BY <1>0, <2>1
  <2>3. \A j \in 1 .. Len(Line') : RowOf(Line', 1, j) => record.n < Line'[j].n
    BY <1>1, <2>1
  <2> QED
    BY <1>0, <2>1, <2>2, <2>3 DEF HeldInv
<1> QED
  BY <1>0, <1>1, <1>2, <1>3, <1>4 DEF Telemetry

\* A new strip is later than every tick and every strip in the line.
LEMMA StripBegun ==
    ASSUME Control, Control', Telemetry, UNCHANGED <<thread, telemetry>>, ~framed, current < current', Done' = 0,
           NEW r \in Items, r.kind = "start", r.t = current', queue' = Append(queue, r)
    PROVE  Telemetry'
<1>0. /\ Done \in Nat /\ Line \in Seq(Items) /\ Ticks' = Ticks /\ (Open' <=> Open) /\ current \in Nat /\ current' \in Nat
      /\ UNCHANGED <<pc, record, strip, attached, framed, taking>>
  BY TelemetryFacts, LineFacts DEF thread, telemetry, Ticks, Open, Control, StripTypes
<1>1. /\ Line' \in Seq(Items) /\ Len(Line') = Len(Line) + 1 /\ Line'[Len(Line')] = r
      /\ \A i \in 1 .. Len(Line) : Line'[i] = Line[i] /\ i \in 1 .. Len(Line')
      /\ \A i \in 1 .. Len(Line') : i \in 1 .. Len(Line) \/ i = Len(Line')
  BY <1>0, LineGrows
<1>2. /\ StartsRise(Line', current') /\ RowsRise(Line', current', 0) /\ RowsFramed(Line', Ticks)
      /\ \A i, j \in 1 .. Len(Line) : RowOf(Line', i, j) => RowOf(Line, i, j)
  BY <1>0, <1>1, RowsPushed DEF Telemetry
<1>3. FrameInv'
  <2>1. \A a \in Ticks : a \in Nat \X Nat
    BY FramesHaveTicks DEF Telemetry
  <2>2. \A a \in Ticks : a[1] < current'
    <3> SUFFICES ASSUME NEW a \in Ticks PROVE a[1] < current'
      OBVIOUS
    <3>1. a[1] \in Nat
      BY <2>1
    <3>2. a[1] < current \/ a[1] = current
      BY DEF Telemetry, FrameInv
    <3> QED
      BY <1>0, <3>1, <3>2
  <2> QED
    BY <1>0, <2>2 DEF Telemetry, FrameInv
<1>4. HeldInv'
  <2> SUFFICES ASSUME taking PROVE HeldInv'
    BY <1>0 DEF HeldInv
  <2>1. /\ pc = "loop" /\ Open /\ record.kind = "drive" /\ TickOf(strip.t, record.n) \in Ticks
        /\ \A j \in 1 .. Len(Line) : RowOf(Line, 1, j) => record.n < Line[j].n
    BY DEF Telemetry, HeldInv
  <2>2. strip.t # current'
    <3>1. Line[1] = strip /\ strip.kind = "start" /\ strip.t \in Ids /\ Len(Line) = Len(Ahead) + 1 /\ Len(Ahead) \in Nat
      BY <2>1, LineFacts
    <3>2. 1 \in 1 .. Len(Line)
      BY <3>1
    <3>3. strip.t <= current
      BY <3>1, <3>2 DEF Telemetry, StartsRise
    <3> QED
      BY <1>0, <3>1, <3>3 DEF Ids
  <2>3. ASSUME NEW j \in 1 .. Len(Line'), RowOf(Line', 1, j) PROVE record.n < Line'[j].n
    <3>1. Line'[j].kind = "drive" /\ 1 < j
      BY <2>3 DEF RowOf
    <3>2. j \in 1 .. Len(Line)
      BY <1>1, <3>1
    <3>3. 1 \in 1 .. Len(Line)
      BY <3>2
    <3>4. RowOf(Line, 1, j) /\ Line'[j] = Line[j]
      BY <1>1, <1>2, <2>3, <3>2, <3>3
    <3> QED
      BY <2>1, <3>2, <3>4
  <2> QED
    BY <1>0, <2>1, <2>2, <2>3 DEF HeldInv
<1> QED
  BY <1>0, <1>2, <1>3, <1>4 DEF Telemetry

\* The frame of the tick is later than every frame before it.
LEMMA FramePushed ==
    ASSUME Control, Control', Telemetry, UNCHANGED <<thread, taking, current, strips, queue>>, ~framed, framed' = TRUE,
           recording, recording', phase' = "drive", op = NoCall, op' = NoCall,
           attached' = Append(attached, TickOf(current, strips[current].offered + 1))
    PROVE  Telemetry'
<1> DEFINE tick == TickOf(current, Done + 1)
<1>0. /\ Done \in Nat /\ Done' = Done /\ (Open' <=> Open) /\ current \in Nat /\ Line' = Line
      /\ UNCHANGED <<pc, record, strip, taking, current>> /\ attached' = Append(attached, tick) /\ tick \in Nat \X Nat
  BY TelemetryFacts, CallFacts DEF thread, Open, Line, Ahead, Done, TickOf
<1>1. attached \in Seq(Nat \X Nat) /\ Len(attached) \in Nat
  BY DEF Telemetry, FrameInv
<1>2. /\ attached' \in Seq(Nat \X Nat) /\ Len(attached') = Len(attached) + 1 /\ attached'[Len(attached')] = tick
      /\ \A i \in 1 .. Len(attached) : attached'[i] = attached[i] /\ i \in 1 .. Len(attached')
      /\ \A i \in 1 .. Len(attached') : i \in 1 .. Len(attached) \/ i = Len(attached')
      /\ Len(attached') \in 1 .. Len(attached')
  <2>1. attached' \in Seq(Nat \X Nat)
    BY <1>0, <1>1, AppendProperties
  <2>2. Len(attached') = Len(attached) + 1 /\ attached'[Len(attached) + 1] = tick /\ \A i \in 1 .. Len(attached) : attached'[i] = attached[i]
    BY <1>0, <1>1, AppendProperties
  <2> QED
    BY <1>1, <2>1, <2>2
<1>3. Ticks' = Ticks \cup {tick}
  BY <1>2 DEF Ticks
<1> HIDE DEF tick
<1>4. FrameInv'
  <2>1. \A a \in Ticks : Earlier(a, tick) /\ (a[1] < current \/ (a[1] = current /\ a[2] <= Done))
    <3> SUFFICES ASSUME NEW a \in Ticks PROVE Earlier(a, tick) /\ (a[1] < current \/ (a[1] = current /\ a[2] <= Done))
      OBVIOUS
    <3>1. a \in Nat \X Nat
      BY FramesHaveTicks DEF Telemetry
    <3>2. a[1] < current \/ (a[1] = current /\ a[2] <= Done)
      BY DEF Telemetry, FrameInv
    <3> QED
      BY <1>0, <3>1, <3>2 DEF Earlier, tick, TickOf
  <2>2. \A i, j \in 1 .. Len(attached') : i < j => Earlier(attached'[i], attached'[j])
    <3> SUFFICES ASSUME NEW i \in 1 .. Len(attached'), NEW j \in 1 .. Len(attached'), i < j PROVE Earlier(attached'[i], attached'[j])
      OBVIOUS
    <3>1. i \in 1 .. Len(attached) /\ attached'[i] = attached[i]
      BY <1>1, <1>2
    <3>2. CASE j \in 1 .. Len(attached)
      BY <1>2, <3>1, <3>2 DEF Telemetry, FrameInv
    <3>3. CASE j = Len(attached')
      BY <1>2, <2>1, <3>1, <3>3 DEF Ticks
    <3> QED
      BY <1>2, <3>2, <3>3
  <2>3. tick[1] = current /\ tick[2] = Done + 1
    BY DEF tick, TickOf
  <2>4. TickOf(current, Done + 1) \in Ticks'
    BY <1>3 DEF tick
  <2> QED
    BY <1>0, <1>2, <1>3, <2>1, <2>2, <2>3, <2>4 DEF Telemetry, FrameInv
<1>5. RowsFramed(Line, Ticks')
  BY <1>3 DEF Telemetry, RowsFramed
<1>6. HeldInv'
  BY <1>0, <1>3 DEF Telemetry, HeldInv
<1> QED
  BY <1>0, <1>4, <1>5, <1>6 DEF Telemetry

\* The row of a frame is pushed, or refused: the frame stays without a row.
LEMMA RowPushed ==
    ASSUME Control, Control', Telemetry, UNCHANGED <<thread, attached, taking, current>>, framed, framed' = FALSE,
           Done' = Done + 1,
           queue' = queue \/ queue' = Append(queue, [kind |-> "drive", n |-> Done + 1])
    PROVE  Telemetry'
<1> DEFINE r == [kind |-> "drive", n |-> Done + 1]
<1>0. /\ Done \in Nat /\ Line \in Seq(Items) /\ Ticks' = Ticks /\ (Open' <=> Open) /\ current \in Nat
      /\ UNCHANGED <<pc, record, strip, current, attached, taking>> /\ (record.kind = "drive" => record.n \in Nat)
      /\ r \in Items /\ r.kind = "drive" /\ r.n = Done + 1 /\ TickOf(current, r.n) \in Ticks
  <2>1. r \in Items
    BY TelemetryFacts, RecordFacts DEF Data
  <2>2. TickOf(current, r.n) \in Ticks
    BY DEF Telemetry, FrameInv
  <2> QED
    BY <2>1, <2>2, TelemetryFacts, LineFacts DEF thread, Ticks, Open, Control, StripTypes
<1> HIDE DEF r
<1>1. FrameInv'
  <2>1. \A a \in Ticks : a \in Nat \X Nat
    BY FramesHaveTicks DEF Telemetry
  <2>2. \A a \in Ticks : a[1] < current \/ (a[1] = current /\ a[2] <= Done')
    <3> SUFFICES ASSUME NEW a \in Ticks PROVE a[1] < current \/ (a[1] = current /\ a[2] <= Done')
      OBVIOUS
    <3>1. a[2] \in Nat
      BY <2>1
    <3>2. a[1] < current \/ (a[1] = current /\ (a[2] <= Done \/ a[2] = Done + 1))
      BY DEF Telemetry, FrameInv
    <3> QED
      BY <1>0, <3>1, <3>2
  <2> QED
    BY <1>0, <2>2 DEF Telemetry, FrameInv
<1>2. CASE queue' = queue
  <2>1. Line' = Line
    BY <1>0, <1>2 DEF Line, Ahead, Open
  <2>2. \A j \in 1 .. Len(Line) : Line[j].kind = "drive" => Line[j].n \in Nat
    BY TelemetryFacts
  <2>3. RowsRise(Line, current, Done')
    <3>1. ASSUME NEW i \in 1 .. Len(Line), NEW j \in 1 .. Len(Line), RowOf(Line, i, j), Line[i].t = current PROVE Line[j].n <= Done'
      <4>1. Line[j].n <= Done /\ Line[j].n \in Nat
        BY <2>2, <3>1 DEF Telemetry, RowsRise, RowOf
      <4> QED
        BY <1>0, <4>1
    <3> QED
      BY <3>1 DEF Telemetry, RowsRise
  <2>4. HeldInv'
    <3> SUFFICES ASSUME taking PROVE HeldInv'
      BY <1>0 DEF HeldInv
    <3>1. /\ pc = "loop" /\ Open /\ record.kind = "drive" /\ TickOf(strip.t, record.n) \in Ticks
          /\ strip.t = current => record.n <= Done
          /\ \A j \in 1 .. Len(Line) : RowOf(Line, 1, j) => record.n < Line[j].n
      BY DEF Telemetry, HeldInv
    <3>2. strip.t = current => record.n <= Done'
      BY <1>0, <3>1
    <3> QED
      BY <1>0, <2>1, <3>1, <3>2 DEF HeldInv
  <2> QED
    BY <1>0, <1>1, <2>1, <2>3, <2>4 DEF Telemetry
<1>3. CASE queue' = Append(queue, r)
  <2>1. /\ Line' \in Seq(Items) /\ Len(Line') = Len(Line) + 1 /\ Line'[Len(Line')] = r
        /\ \A i \in 1 .. Len(Line) : Line'[i] = Line[i] /\ i \in 1 .. Len(Line')
        /\ \A i \in 1 .. Len(Line') : i \in 1 .. Len(Line) \/ i = Len(Line')
    BY <1>0, <1>3, LineGrows
  <2>2. /\ StartsRise(Line', current) /\ RowsRise(Line', current, Done + 1) /\ RowsFramed(Line', Ticks)
        /\ \A i, j \in 1 .. Len(Line) : RowOf(Line', i, j) => RowOf(Line, i, j)
    BY <1>0, <2>1, RowsPushed DEF Telemetry
  <2>3. HeldInv'
    <3> SUFFICES ASSUME taking PROVE HeldInv'
      BY <1>0 DEF HeldInv
    <3>1. /\ pc = "loop" /\ Open /\ record.kind = "drive" /\ TickOf(strip.t, record.n) \in Ticks
          /\ strip.t = current => record.n <= Done
          /\ \A j \in 1 .. Len(Line) : RowOf(Line, 1, j) => record.n < Line[j].n
      BY DEF Telemetry, HeldInv
    <3>2. strip.t = current => record.n <= Done'
      BY <1>0, <3>1
    <3>3. /\ Line[1] = strip /\ strip.kind = "start" /\ Len(Line) \in Nat /\ 1 \in 1 .. Len(Line)
      BY <1>0, <3>1, LineFacts
    <3>4. ASSUME NEW j \in 1 .. Len(Line'), RowOf(Line', 1, j) PROVE record.n < Line'[j].n
      <4>1. CASE j \in 1 .. Len(Line)
        BY <2>1, <2>2, <3>1, <3>3, <3>4, <4>1
      <4>2. CASE j = Len(Line')
        <5>1. \A m \in 2 .. Len(Line') : Line'[m].kind # "start"
          BY <3>4, <4>2 DEF RowOf
        <5>2. \A m \in 2 .. Len(Line) : Line[m].kind # "start"
          BY <2>1, <3>3, <5>1
        <5>3. Latest(Line, 1)
          BY <3>3, <5>2 DEF Latest
        <5>4. strip.t = current
          BY <3>3, <5>3 DEF Telemetry, StartsRise
        <5> QED
          BY <1>0, <2>1, <3>1, <4>2, <5>4
      <4> QED
        BY <2>1, <4>1, <4>2
    <3> QED
      BY <1>0, <3>1, <3>2, <3>4 DEF HeldInv
  <2> QED
    BY <1>0, <1>1, <2>2, <2>3 DEF Telemetry
<1> QED
  BY <1>2, <1>3 DEF r

\* Records leave the line from its front, or the sample behind the open strip's Start does.
LEMMA RecordsLeave ==
    ASSUME Control, Control', Telemetry, UNCHANGED <<loop, attached, framed>>, taking' \in BOOLEAN,
           (\E k \in Nat : Shifts(k)) \/ (SecondTaken(Line, Line') /\ Line[2].kind \in Data)
    PROVE  /\ FrameInv' /\ StartsRise(Line', current) /\ RowsRise(Line', current, Done) /\ RowsFramed(Line', Ticks)
           /\ SecondTaken(Line, Line') /\ Line[2].kind \in Data =>
                 \A j \in 1 .. Len(Line') : RowOf(Line', 1, j) =>
                     j + 1 \in 1 .. Len(Line) /\ 2 < j + 1 /\ RowOf(Line, 1, j + 1) /\ Line'[j] = Line[j + 1]
<1>0. /\ Line \in Seq(Items) /\ Line' \in Seq(Items) /\ Len(Line) \in Nat /\ Len(Line') \in Nat
      /\ Done' = Done /\ Ticks' = Ticks /\ UNCHANGED <<phase, op, recording, current>>
  <2>1. Line \in Seq(Items)
    BY LineFacts
  <2>2. Line' \in Seq(Items)
    BY NextLine
  <2> QED
    BY <2>1, <2>2, LenProperties DEF loop, Done, Ticks
<1>1. FrameInv'
  BY <1>0 DEF Telemetry, FrameInv
<1>2. ASSUME NEW k \in Nat, Shifts(k)
      PROVE  StartsRise(Line', current) /\ RowsRise(Line', current, Done) /\ RowsFramed(Line', Ticks)
  <2> DEFINE m == [j \in 1 .. Len(Line') |-> j + k]
  <2>1. Len(Line) = Len(Line') + k /\ \A j \in 1 .. Len(Line') : Line'[j] = Line[j + k]
    BY <1>2 DEF Shifts
  <2>2. m \in [1 .. Len(Line') -> 1 .. Len(Line)] /\ \A j \in 1 .. Len(Line') : m[j] = j + k
    BY <1>0, <2>1
  <2> HIDE DEF m
  <2>3. ASSUME NEW x \in 1 .. Len(Line)
        PROVE  (\E j \in 1 .. Len(Line') : m[j] = x) \/ \A j \in 1 .. Len(Line') : x < m[j]
    <3>1. CASE x <= k
      BY <1>0, <2>2, <3>1
    <3>2. CASE ~(x <= k)
      <4>1. x - k \in 1 .. Len(Line') /\ (x - k) + k = x
        BY <1>0, <2>1, <3>2
      <4> QED
        BY <2>2, <4>1
    <3> QED
      BY <3>1, <3>2
  <2>4. \A j \in 1 .. Len(Line') : Line'[j] = Line[m[j]]
    BY <2>1, <2>2
  <2>5. \A i, j \in 1 .. Len(Line') : i < j => m[i] < m[j]
    BY <1>0, <2>2
  <2> QED
    BY <1>0, <2>2, <2>3, <2>4, <2>5, RowsKept DEF Telemetry
<1>3. ASSUME SecondTaken(Line, Line'), Line[2].kind \in Data
      PROVE  /\ StartsRise(Line', current) /\ RowsRise(Line', current, Done) /\ RowsFramed(Line', Ticks)
             /\ \A j \in 1 .. Len(Line') : RowOf(Line', 1, j) =>
                     j + 1 \in 1 .. Len(Line) /\ 2 < j + 1 /\ RowOf(Line, 1, j + 1) /\ Line'[j] = Line[j + 1]
  <2> DEFINE m == [j \in 1 .. Len(Line') |-> IF j = 1 THEN 1 ELSE j + 1]
  <2>1. /\ Len(Line) = Len(Line') + 1 /\ Len(Line') >= 1 /\ Line'[1] = Line[1]
        /\ \A j \in 2 .. Len(Line') : Line'[j] = Line[j + 1]
    BY <1>3 DEF SecondTaken
  <2>2. /\ m \in [1 .. Len(Line') -> 1 .. Len(Line)] /\ m[1] = 1 /\ 1 \in 1 .. Len(Line')
        /\ \A j \in 2 .. Len(Line') : m[j] = j + 1 /\ j \in 1 .. Len(Line')
        /\ \A j \in 1 .. Len(Line') : j = 1 \/ j \in 2 .. Len(Line')
    BY <1>0, <2>1
  <2> HIDE DEF m
  <2>3. ASSUME NEW x \in 1 .. Len(Line), Line[x].kind = "start"
        PROVE  (\E j \in 1 .. Len(Line') : m[j] = x) \/ \A j \in 1 .. Len(Line') : x < m[j]
    <3>1. x # 2
      BY <1>3, <2>3 DEF Data
    <3>2. CASE x = 1
      BY <2>2, <3>2
    <3>3. CASE x > 2
      <4>1. x - 1 \in 2 .. Len(Line') /\ (x - 1) + 1 = x
        BY <1>0, <2>1, <3>3
      <4>2. m[x - 1] = x /\ x - 1 \in 1 .. Len(Line')
        BY <2>2, <4>1
      <4> QED
        BY <4>2
    <3> QED
      BY <1>0, <3>1, <3>2, <3>3
  <2>4. \A j \in 1 .. Len(Line') : Line'[j] = Line[m[j]]
    BY <2>1, <2>2
  <2>5. \A i, j \in 1 .. Len(Line') : i < j => m[i] < m[j]
    <3> SUFFICES ASSUME NEW i \in 1 .. Len(Line'), NEW j \in 1 .. Len(Line'), i < j PROVE m[i] < m[j]
      OBVIOUS
    <3>1. j \in 2 .. Len(Line')
      BY <1>0
    <3>2. m[j] = j + 1
      BY <2>2, <3>1
    <3>3. m[i] = 1 \/ m[i] = i + 1
      BY <2>2
    <3> QED
      BY <1>0, <3>1, <3>2, <3>3
  <2>6. /\ StartsRise(Line', current) /\ RowsRise(Line', current, Done) /\ RowsFramed(Line', Ticks)
        /\ \A i, j \in 1 .. Len(Line') : RowOf(Line', i, j) => RowOf(Line, m[i], m[j])
    BY <1>0, <2>2, <2>3, <2>4, <2>5, RowsKept DEF Telemetry
  <2>7. ASSUME NEW j \in 1 .. Len(Line'), RowOf(Line', 1, j)
        PROVE  j + 1 \in 1 .. Len(Line) /\ 2 < j + 1 /\ RowOf(Line, 1, j + 1) /\ Line'[j] = Line[j + 1]
    <3>1. 1 < j
      BY <2>7 DEF RowOf
    <3>2. j \in 2 .. Len(Line')
      BY <1>0, <3>1
    <3>3. m[j] = j + 1 /\ RowOf(Line, m[1], m[j]) /\ m[1] = 1
      BY <2>2, <2>6, <2>7, <3>2
    <3> QED
      BY <1>0, <2>1, <3>1, <3>2, <3>3
  <2> QED
    BY <2>6, <2>7
<1> QED
  BY <1>1, <1>2, <1>3

\* take finds a tick of the queue, and leaves what is behind it.
LEMMA FrameFound ==
    ASSUME FrameInv, NEW tick \in Ticks
    PROVE  \E p \in 1 .. Len(attached) :
              /\ attached[p] = tick /\ Remaining(tick) # <<>> /\ Head(Remaining(tick)) = tick
              /\ Tail(Remaining(tick)) \in Seq(Nat \X Nat) /\ Len(Tail(Remaining(tick))) = Len(attached) - p
              /\ \A k \in 1 .. Len(attached) - p : Tail(Remaining(tick))[k] = attached[k + p]
<1>1. PICK p \in 1 .. Len(attached) : attached[p] = tick
  BY DEF Ticks
<1>2. /\ attached \in Seq(Nat \X Nat) /\ Len(attached) \in Nat /\ tick \in Nat \X Nat
      /\ \A i, j \in 1 .. Len(attached) : i < j => Earlier(attached[i], attached[j])
  BY <1>1 DEF FrameInv
<1> DEFINE P(i) == /\ \A k \in 1 .. i - 1 : Earlier(attached[k], tick)
                   /\ i <= Len(attached) => ~Earlier(attached[i], tick)
<1>3. P(p) /\ p \in 1 .. Len(attached) + 1
  <2>1. ~Earlier(tick, tick)
    BY <1>2 DEF Earlier
  <2>2. \A k \in 1 .. p - 1 : k \in 1 .. Len(attached) /\ k < p
    BY <1>2
  <2>3. \A k \in 1 .. p - 1 : Earlier(attached[k], tick)
    BY <1>1, <1>2, <2>2
  <2>4. p \in 1 .. Len(attached) + 1
    BY <1>2
  <2> QED
    BY <1>1, <2>1, <2>3, <2>4
<1>4. ASSUME NEW i \in 1 .. Len(attached) + 1, P(i) PROVE i = p
  <2>1. CASE i < p
    <3>1. i \in 1 .. Len(attached)
      BY <1>2, <2>1
    <3>2. Earlier(attached[i], tick)
      BY <1>1, <1>2, <2>1, <3>1
    <3>3. i <= Len(attached)
      BY <1>2, <3>1
    <3> QED
      BY <1>4, <3>2, <3>3
  <2>2. CASE p < i
    <3>1. p \in 1 .. i - 1
      BY <1>2, <2>2
    <3>2. ~Earlier(tick, tick)
      BY <1>2 DEF Earlier
    <3> QED
      BY <1>1, <1>4, <3>1, <3>2
  <2> QED
    BY <1>2, <2>1, <2>2
<1>5. First(tick) = p
  <2>1. First(tick) = CHOOSE i \in 1 .. Len(attached) + 1 : P(i)
    BY DEF First
  <2> HIDE DEF P
  <2> QED
    BY <1>3, <1>4, <2>1
<1> DEFINE rest == SubSeq(attached, p, Len(attached))
<1>6. Remaining(tick) = rest
  BY <1>5 DEF Remaining
<1>7. /\ rest \in Seq(Nat \X Nat) /\ Len(rest) = Len(attached) - p + 1
      /\ \A k \in 1 .. Len(attached) - p + 1 : rest[k] = attached[p + k - 1]
  <2>1. p <= Len(attached) + 1 /\ Len(attached) <= Len(attached)
    BY <1>2
  <2>2. \A k \in p .. Len(attached) : attached[k] \in Nat \X Nat
    BY <1>2
  <2> QED
    BY <1>2, <2>1, <2>2, SubSeqProperties
<1> HIDE DEF rest
<1>8. rest # <<>> /\ Len(rest) >= 1 /\ rest[1] = tick
  <2>1. 1 \in 1 .. Len(attached) - p + 1 /\ p + 1 - 1 = p
    BY <1>2
  <2>2. rest[1] = tick
    BY <1>1, <1>7, <2>1
  <2> QED
    BY <1>2, <1>7, <2>1, <2>2
<1>9. /\ Head(rest) = tick /\ Tail(rest) \in Seq(Nat \X Nat) /\ Len(Tail(rest)) = Len(rest) - 1
      /\ \A k \in 1 .. Len(Tail(rest)) : Tail(rest)[k] = rest[k + 1]
  BY <1>7, <1>8, HeadTailProperties
<1>10. \A k \in 1 .. Len(attached) - p : Tail(rest)[k] = attached[k + p]
  <2> SUFFICES ASSUME NEW k \in 1 .. Len(attached) - p PROVE Tail(rest)[k] = attached[k + p]
    OBVIOUS
  <2> DEFINE n == Len(attached)
             m == Len(rest)
  <2>0. Len(Tail(rest)) = m - 1 /\ m = n - p + 1 /\ n \in Nat /\ p \in 1 .. n /\ k \in 1 .. n - p
    BY <1>2, <1>7, <1>9
  <2> HIDE DEF n, m
  <2>1. k \in 1 .. Len(Tail(rest)) /\ k + 1 \in 1 .. n - p + 1
    BY <2>0
  <2>2. rest[k + 1] = attached[k + p]
    <3>1. \A j \in 1 .. Len(attached) - p + 1 : j = k + 1 => p + j - 1 = k + p
      BY <1>2
    <3> QED
      BY <1>7, <2>1, <3>1 DEF n
  <2>3. Tail(rest)[k] = rest[k + 1]
    BY <1>9, <2>1
  <2> QED
    BY <2>1, <2>2, <2>3
<1>11. Len(Tail(rest)) = Len(attached) - p
  <2> DEFINE n == Len(attached)
             m == Len(rest)
  <2>1. Len(Tail(rest)) = m - 1 /\ m = n - p + 1 /\ n \in Nat /\ p \in 1 .. n
    BY <1>2, <1>7, <1>9
  <2> HIDE DEF n, m
  <2>2. m - 1 = n - p
    BY <2>1
  <2> QED
    BY <2>1, <2>2 DEF n
<1> QED
  BY <1>1, <1>6, <1>8, <1>9, <1>10, <1>11

LEMMA RowsHold ==
    ASSUME Telemetry
    PROVE  RowsHaveTelemetry
BY FrameFound DEF Telemetry, HeldInv, RowsHaveTelemetry, Finds, Sought

\* The row is written with its frame; the frames of the rows behind it are later.
LEMMA FrameTaken ==
    ASSUME Control, Control', Telemetry, TakeFrame
    PROVE  Telemetry'
<1>0. /\ taking /\ taking' = FALSE /\ Sought \in Ticks /\ Finds /\ attached' = Tail(Remaining(Sought))
      /\ UNCHANGED <<loop, queue, state, strip, pc, record, framed>> /\ Open /\ pc = "loop" /\ record.kind = "drive"
  <2>1. Sought \in Ticks /\ Finds
    BY RowsHold DEF TakeFrame, RowsHaveTelemetry, Telemetry, HeldInv, Sought
  <2> QED
    BY <2>1 DEF TakeFrame, Telemetry, HeldInv
<1>1. /\ Line' = Line /\ Done' = Done /\ UNCHANGED <<phase, op, recording, current>> /\ current \in Nat /\ Done \in Nat
  BY <1>0, TelemetryFacts DEF Line, Ahead, Open, loop, Done
<1>2. PICK p \in 1 .. Len(attached) :
         /\ attached[p] = Sought /\ attached' \in Seq(Nat \X Nat) /\ Len(attached') = Len(attached) - p
         /\ \A k \in 1 .. Len(attached) - p : attached'[k] = attached[k + p]
  BY <1>0, FrameFound DEF Telemetry
<1>3. Len(attached) \in Nat /\ \A k \in 1 .. Len(attached') : attached'[k] = attached[k + p] /\ k + p \in 1 .. Len(attached)
  <2>1. Len(attached) \in Nat
    BY DEF Telemetry, FrameInv
  <2> DEFINE n == Len(attached)
  <2>2. n \in Nat /\ p \in 1 .. n
    BY <2>1
  <2> HIDE DEF n
  <2>3. \A k \in 1 .. n - p : k + p \in 1 .. n
    BY <2>2
  <2>4. \A k \in 1 .. Len(attached) - p : k + p \in 1 .. Len(attached)
    BY <2>3 DEF n
  <2> QED
    BY <1>2, <2>1, <2>4
<1>4. Ticks' \subseteq Ticks /\ \A a \in Ticks : Earlier(Sought, a) => a \in Ticks'
  <2>1. Ticks' \subseteq Ticks
    BY <1>3 DEF Ticks
  <2>2. ASSUME NEW a \in Ticks, Earlier(Sought, a) PROVE a \in Ticks'
    <3>1. PICK q \in 1 .. Len(attached) : attached[q] = a
      BY DEF Ticks
    <3>2. \A b \in Ticks : b \in Nat \X Nat
      BY FramesHaveTicks DEF Telemetry
    <3>3. p < q
      <4>1. CASE q < p
        <5>1. Earlier(a, Sought)
          BY <1>2, <3>1, <4>1 DEF Telemetry, FrameInv
        <5> QED
          BY <1>0, <2>2, <3>2, <5>1 DEF Earlier
      <4>2. CASE q = p
        <5>1. a = Sought
          BY <1>2, <3>1, <4>2
        <5> QED
          BY <1>0, <2>2, <3>2, <5>1 DEF Earlier
      <4> QED
        BY <1>3, <4>1, <4>2
    <3>4. PICK k \in 1 .. Len(attached') : k + p = q
      <4> DEFINE n == Len(attached)
      <4>1. n \in Nat /\ Len(attached') = n - p /\ p \in 1 .. n /\ q \in 1 .. n /\ p < q
        BY <1>2, <1>3, <3>3
      <4> HIDE DEF n
      <4>2. q - p \in 1 .. n - p /\ (q - p) + p = q
        BY <4>1
      <4> QED
        BY <4>1, <4>2
    <3>5. attached'[k] = attached[q]
      BY <1>3, <3>4
    <3> QED
      BY <3>1, <3>4, <3>5 DEF Ticks
  <2> QED
    BY <2>1, <2>2
<1>5. /\ Sought = TickOf(strip.t, record.n) /\ record.n \in Nat /\ (strip.t = current => record.n <= Done)
      /\ \A j \in 1 .. Len(Line) : RowOf(Line, 1, j) => record.n < Line[j].n
      /\ Line[1] = strip /\ strip.kind = "start" /\ strip.t \in Ids /\ 1 \in 1 .. Len(Line) /\ Line \in Seq(Items)
  <2>1. Len(Line) = Len(Ahead) + 1 /\ Len(Ahead) \in Nat /\ Line[1] = strip /\ strip.kind = "start" /\ strip.t \in Ids
    BY <1>0, LineFacts
  <2>2. 1 \in 1 .. Len(Line)
    BY <2>1
  <2> QED
    BY <1>0, <2>1, <2>2, TelemetryFacts, LineFacts DEF Telemetry, HeldInv, Sought
<1>6. RowsFramed(Line, Ticks')
  <2> SUFFICES ASSUME NEW i \in 1 .. Len(Line), NEW j \in 1 .. Len(Line), RowOf(Line, i, j)
               PROVE  TickOf(Line[i].t, Line[j].n) \in Ticks'
    BY DEF RowsFramed
  <2>1. TickOf(Line[i].t, Line[j].n) \in Ticks
    BY DEF Telemetry, RowsFramed
  <2>2. Line[i].kind = "start" /\ Line[i].t \in Ids
    BY LineFacts DEF RowOf
  <2>3. Earlier(Sought, TickOf(Line[i].t, Line[j].n))
    <3>1. CASE i = 1
      BY <1>5, <3>1 DEF Earlier, TickOf
    <3>2. CASE i # 1
      <4>1. 1 < i
        BY <3>2
      <4>2. strip.t < Line[i].t
        BY <1>5, <2>2, <4>1 DEF Telemetry, StartsRise
      <4> QED
        BY <1>5, <4>2 DEF Earlier, TickOf
    <3> QED
      BY <3>1, <3>2
  <2> QED
    BY <1>4, <2>1, <2>3
<1>7. FrameInv'
  <2>1. \A i, j \in 1 .. Len(attached') : i < j => Earlier(attached'[i], attached'[j])
    <3> SUFFICES ASSUME NEW i \in 1 .. Len(attached'), NEW j \in 1 .. Len(attached'), i < j PROVE Earlier(attached'[i], attached'[j])
      OBVIOUS
    <3>1. i + p \in 1 .. Len(attached) /\ j + p \in 1 .. Len(attached) /\ i + p < j + p
      BY <1>3
    <3> QED
      BY <1>3, <3>1 DEF Telemetry, FrameInv
  <2>2. framed => TickOf(current, Done + 1) \in Ticks'
    <3> SUFFICES ASSUME framed PROVE TickOf(current, Done + 1) \in Ticks'
      OBVIOUS
    <3>1. TickOf(current, Done + 1) \in Ticks
      BY DEF Telemetry, FrameInv
    <3>2. strip.t <= current
      BY <1>5 DEF Telemetry, StartsRise
    <3>3. Earlier(Sought, TickOf(current, Done + 1))
      BY <1>1, <1>5, <3>2 DEF Earlier, TickOf, Ids
    <3> QED
      BY <1>4, <3>1, <3>3
  <2> QED
    BY <1>0, <1>1, <1>2, <1>4, <2>1, <2>2 DEF Telemetry, FrameInv
<1>8. HeldInv'
  BY <1>0 DEF HeldInv
<1> QED
  BY <1>1, <1>6, <1>7, <1>8 DEF Telemetry

LEMMA OfferDone ==
    ASSUME Control, recording, op.what # "rotate", NEW kind \in Data, Offer(kind), current' = current
    PROVE  /\ Done' = Done + 1 /\ Done \in Nat
           /\ queue' = queue \/ queue' = Append(queue, [kind |-> kind, n |-> Done + 1])
           /\ kind # "drive" => queue' = queue \/ \E r \in Items : r.kind \notin {"start", "drive"} /\ queue' = Append(queue, r)
<1>1. current \in Ids /\ Done = strips[current].offered /\ Done \in Nat
  BY TelemetryFacts
<1>2. strips'[current].offered = strips[current].offered + 1
  BY <1>1, OfferedTo DEF Control, StripTypes
<1>3. queue' = queue \/ queue' = Append(queue, [kind |-> kind, n |-> Done + 1])
  BY <1>1 DEF Offer
<1>4. [kind |-> kind, n |-> Done + 1] \in Items /\ [kind |-> kind, n |-> Done + 1].kind = kind
  BY <1>1, RecordFacts
<1>5. kind # "start"
  BY DEF Data
<1> QED
  BY <1>1, <1>2, <1>3, <1>4, <1>5 DEF Done

\* The loop pushes a frame before its row, and begins a strip after every frame.
LEMMA LoopTelemetry ==
    ASSUME Control, Control', Telemetry, PidLoop
    PROVE  Telemetry'
<1>0. /\ framed => phase = "drive" /\ op = NoCall /\ recording
      /\ Done \in Nat /\ current \in Nat /\ NoCall.what = "none" /\ Packet.what = "packet"
  BY TelemetryFacts, CallFacts DEF Telemetry, FrameInv
<1>1. CASE RequireHealthy \/ SkipRow
  <2>1. UNCHANGED <<current, strips, queue, thread, telemetry>> /\ ~framed
    BY <1>0, <1>1 DEF RequireHealthy, SkipRow, At, shared
  <2>2. Done' = Done
    BY <2>1 DEF Done
  <2> QED
    BY <1>0, <2>1, <2>2, NoRowPushed
<1>2. CASE PushFrame
  <2>1. /\ phase = "drive" /\ op = NoCall /\ recording /\ ~framed
        /\ UNCHANGED <<current, strips, queue, thread, taking>>
    BY <1>2 DEF PushFrame, shared
  <2>2. CASE Len(attached) < Capacity
    <3>1. /\ attached' = Append(attached, TickOf(current, strips[current].offered + 1))
          /\ framed' = TRUE /\ UNCHANGED <<phase, op, recording>>
      BY <1>2, <2>2 DEF PushFrame
    <3> QED
      BY <2>1, <3>1, FramePushed
  <2>3. CASE ~(Len(attached) < Capacity)
    <3>1. UNCHANGED telemetry
      BY <1>2, <2>1, <2>3 DEF PushFrame, telemetry
    <3>2. Done' = Done
      BY <2>1 DEF Done
    <3> QED
      BY <1>0, <2>1, <3>1, <3>2, NoRowPushed
  <2> QED
    BY <2>2, <2>3
<1>3. CASE PushRowOfFrame
  <2>1. /\ framed /\ framed' = FALSE /\ Offer("drive") /\ UNCHANGED <<current, thread, attached, taking>>
    BY <1>3 DEF PushRowOfFrame
  <2>2. recording /\ op.what # "rotate" /\ "drive" \in Data
    BY <1>0, <2>1 DEF Data
  <2>3. Done' = Done + 1 /\ (queue' = queue \/ queue' = Append(queue, [kind |-> "drive", n |-> Done + 1]))
    BY <2>1, <2>2, OfferDone
  <2> QED
    BY <2>1, <2>3, RowPushed
<1>4. CASE FinishStores /\ UNCHANGED telemetry
  <2>1. ~framed /\ UNCHANGED <<current, thread>> /\ transition' \in Nat /\ op.complete \in BOOLEAN /\ current \in Ids
        /\ strips \in [Ids -> AStrip]
    BY <1>0, <1>4, CallFacts DEF FinishStores, Control, StripTypes, CallInv
  <2>2. strips' = Ended("saved") \/ strips' = Ended("spoiled")
    BY <1>4 DEF FinishStores
  <2>3. Done' = Done
    BY <2>1, <2>2, EndedTo DEF Done
  <2>4. queue' = queue \/ queue' = Append(queue, FinishOf(transition', op.complete))
    BY <1>4 DEF FinishStores
  <2>5. FinishOf(transition', op.complete) \in Items /\ FinishOf(transition', op.complete).kind = "finish"
    BY <2>1, RecordFacts
  <2>6. \E r \in Items : r.kind \notin {"start", "drive"} /\ r = FinishOf(transition', op.complete)
    BY <2>5
  <2> QED
    BY <1>0, <1>4, <2>1, <2>3, <2>4, <2>6, NoRowPushed
<1>5. CASE BeginPushes /\ UNCHANGED telemetry
  <2>1. ~framed /\ UNCHANGED thread /\ transition' \in Ids /\ current < transition' /\ dropped \in Nat /\ strips \in [Ids -> AStrip]
    BY <1>0, <1>5 DEF BeginPushes, Control, CallInv, StripTypes
  <2>2. CASE queue' = Append(queue, StartOf(transition')) /\ current' = transition' /\ strips' = Begun(transition')
    <3>1. strips'[transition'].offered = 0
      BY <2>1, <2>2, BegunTo
    <3>2. Done' = 0
      BY <2>1, <2>2, <3>1 DEF Done
    <3>3. StartOf(transition') \in Items /\ StartOf(transition').kind = "start" /\ StartOf(transition').t = transition'
      BY <2>1, RecordFacts
    <3> QED
      BY <1>5, <2>1, <2>2, <3>2, <3>3, StripBegun
  <2>3. CASE UNCHANGED <<queue, current, strips>>
    <3>1. Done' = Done
      BY <2>3 DEF Done
    <3> QED
      BY <1>0, <1>5, <2>1, <2>3, <3>1, NoRowPushed
  <2> QED
    BY <1>5, <2>2, <2>3 DEF BeginPushes
<1>6. CASE CapturePacket /\ UNCHANGED telemetry
  <2>1. ~framed /\ UNCHANGED <<current, thread>> /\ recording /\ op.what # "rotate" /\ Offer("raw") /\ "raw" \in Data
    BY <1>0, <1>6 DEF CapturePacket, Data
  <2>2. Done' = Done + 1 /\ (queue' = queue \/ \E r \in Items : r.kind \notin {"start", "drive"} /\ queue' = Append(queue, r))
    BY <2>1, OfferDone
  <2> QED
    BY <1>0, <1>6, <2>1, <2>2, NoRowPushed
<1>7. CASE Rotate /\ UNCHANGED telemetry
  <2>1. ~framed /\ UNCHANGED <<current, thread>> /\ transition + 1 \in Nat /\ current \in Ids /\ strips \in [Ids -> AStrip]
    BY <1>0, <1>7, TelemetryFacts DEF Rotate, Control, StripTypes
  <2>2. \/ queue' = Append(queue, FinishOf(transition + 1, TRUE)) /\ strips' = Ended("saved")
        \/ UNCHANGED <<queue, strips>>
    BY <1>7 DEF Rotate
  <2>3. Done' = Done
    BY <2>1, <2>2, EndedTo DEF Done
  <2>4. FinishOf(transition + 1, TRUE) \in Items /\ FinishOf(transition + 1, TRUE).kind = "finish"
    BY <2>1, RecordFacts
  <2>5. queue' = queue \/ \E r \in Items : r.kind \notin {"start", "drive"} /\ queue' = Append(queue, r)
    BY <2>2, <2>4
  <2> QED
    BY <1>0, <1>7, <2>1, <2>3, <2>5, NoRowPushed
<1>8. CASE RotateStarts /\ UNCHANGED telemetry
  <2>1. ~framed /\ UNCHANGED thread /\ transition \in Ids /\ current < transition /\ dropped \in Nat /\ strips \in [Ids -> AStrip]
    BY <1>0, <1>8 DEF RotateStarts, Control, CallInv, StripTypes
  <2>2. CASE queue' = Append(queue, StartOf(transition)) /\ current' = transition /\ strips' = Begun(transition)
    <3>1. strips'[transition].offered = 0
      BY <2>1, <2>2, BegunTo
    <3>2. Done' = 0
      BY <2>1, <2>2, <3>1 DEF Done
    <3>3. StartOf(transition) \in Items /\ StartOf(transition).kind = "start" /\ StartOf(transition).t = transition
      BY <2>1, RecordFacts
    <3> QED
      BY <1>8, <2>1, <2>2, <3>2, <3>3, StripBegun
  <2>3. CASE UNCHANGED <<queue, current, strips>>
    <3>1. Done' = Done
      BY <2>3 DEF Done
    <3> QED
      BY <1>0, <1>8, <2>1, <2>3, <3>1, NoRowPushed
  <2> QED
    BY <1>8, <2>2, <2>3 DEF RotateStarts
<1>9. CASE (Buttons \/ Exit \/ Shutdown) /\ UNCHANGED telemetry
  <2>1. ~framed /\ UNCHANGED <<current, strips, queue, thread>>
    BY <1>0, <1>9 DEF Buttons, Begin, Exit, Shutdown, At, shared
  <2>2. Done' = Done
    BY <2>1 DEF Done
  <2> QED
    BY <1>0, <1>9, <2>1, <2>2, NoRowPushed
<1>10. CASE ~framed /\ PushBlock /\ UNCHANGED telemetry
  <2>1. UNCHANGED <<current, thread>> /\ recording /\ op.what # "rotate" /\ Offer("block") /\ "block" \in Data
    BY <1>0, <1>10 DEF PushBlock, Push, At, Data
  <2>2. Done' = Done + 1 /\ (queue' = queue \/ \E r \in Items : r.kind \notin {"start", "drive"} /\ queue' = Append(queue, r))
    BY <2>1, OfferDone
  <2> QED
    BY <1>0, <1>10, <2>1, <2>2, NoRowPushed
<1> QED
  BY <1>1, <1>2, <1>3, <1>4, <1>5, <1>6, <1>7, <1>8, <1>9, <1>10 DEF PidLoop, Shares

\* A line that becomes the queue, or the record in hand before it, loses its front.
LEMMA FrontLeaves ==
    ASSUME Control
    PROVE  /\ Line' = queue => \E k \in Nat : Shifts(k)
           /\ Line' = Line => \E k \in Nat : Shifts(k)
           /\ Open /\ record \in Items /\ Line = <<strip>> \o (<<record>> \o queue) /\ Line' = <<record>> \o queue =>
                 \E k \in Nat : Shifts(k)
<1>0. /\ queue \in Seq(Items) /\ Len(queue) \in Nat /\ Line \in Seq(Items) /\ Len(Line) \in Nat
      /\ pc \in {"opening", "closing", "renaming"} => record \in Items
      /\ Open => strip \in Items
  BY LineFacts, CallFacts, RecordFacts DEF Control, StripTypes, ThreadShape, Open
<1>1. ASSUME Line' = Line PROVE Shifts(0)
  BY <1>0, <1>1 DEF Shifts
<1>2. ASSUME Open, record \in Items, Line = <<strip>> \o (<<record>> \o queue), Line' = <<record>> \o queue PROVE Shifts(1)
  <2>1. <<record>> \o queue \in Seq(Items)
    BY <1>0, <1>2, ConsFacts
  <2> QED
    BY <1>0, <1>2, <2>1, ConsShift DEF Shifts
<1>3. ASSUME Line' = queue PROVE \E k \in Nat : Shifts(k)
  <2>1. CASE pc \in {"opening", "closing", "renaming"} /\ Open
    <3>1. Line = <<strip>> \o (<<record>> \o queue)
      BY <2>1 DEF Line, Ahead
    <3>2. Shifts(2)
      BY <1>0, <1>3, <2>1, <3>1, ConsShift DEF Shifts
    <3> QED
      BY <3>2
  <2>2. CASE pc \in {"opening", "closing", "renaming"} /\ ~Open
    <3>1. Line = <<record>> \o queue
      BY <2>2 DEF Line, Ahead
    <3>2. Shifts(1)
      BY <1>0, <1>3, <2>2, <3>1, ConsShift DEF Shifts
    <3> QED
      BY <3>2
  <2>3. CASE pc \notin {"opening", "closing", "renaming"} /\ Open
    <3>1. Line = <<strip>> \o queue
      BY <2>3 DEF Line, Ahead
    <3>2. Shifts(1)
      BY <1>0, <1>3, <2>3, <3>1, ConsShift DEF Shifts
    <3> QED
      BY <3>2
  <2>4. CASE pc \notin {"opening", "closing", "renaming"} /\ ~Open
    <3>1. Line = queue
      BY <2>4 DEF Line, Ahead
    <3>2. Shifts(0)
      BY <1>0, <1>3, <3>1 DEF Shifts
    <3> QED
      BY <3>2
  <2> QED
    BY <2>1, <2>2, <2>3, <2>4
<1> QED
  BY <1>1, <1>2, <1>3

\* Taking the head of the queue: the line stays, loses its front, or the sample behind its Start.
LEMMA HeadTaken ==
    ASSUME Control, pc = "loop", queue # <<>>, queue' = Tail(queue), record' = Head(queue), strip' = strip
    PROVE  /\ pc' \in {"opening", "closing"} => Line' = Line
           /\ ~Open /\ pc' \in {"loop", "settling"} => \E k \in Nat : Shifts(k)
           /\ Open /\ pc' = "loop" => SecondTaken(Line, Line') /\ Line[2] = record'
           /\ record' \in Items
<1> USE DEF Control
<1>0. queue \in Seq(Items) /\ (Open' <=> Open) /\ (Open => strip \in Items)
  BY RecordFacts DEF StripTypes, Open
<1>1. /\ Head(queue) \in Items /\ Tail(queue) \in Seq(Items) /\ Len(Tail(queue)) = Len(queue) - 1
      /\ \A i \in 1 .. Len(Tail(queue)) : Tail(queue)[i] = queue[i + 1]
      /\ Head(queue) = queue[1] /\ Len(queue) \in Nat /\ Len(queue) >= 1
  BY <1>0, HeadTailProperties
<1>2. <<Head(queue)>> \o Tail(queue) = queue
  BY <1>0
<1>3. ASSUME pc' \in {"opening", "closing"} PROVE Line' = Line
  <2>1. Ahead = queue /\ Ahead' = queue
    BY <1>2, <1>3 DEF Ahead
  <2> QED
    BY <1>0, <2>1 DEF Line
<1>4. ASSUME ~Open, pc' \in {"loop", "settling"} PROVE Shifts(1)
  <2>1. Line = queue /\ Line' = Tail(queue)
    BY <1>0, <1>4 DEF Line, Ahead
  <2> QED
    BY <1>1, <2>1 DEF Shifts
<1>5. ASSUME Open, pc' = "loop" PROVE SecondTaken(Line, Line') /\ Line[2] = record'
  <2>1. Line = <<strip>> \o queue /\ Line' = <<strip>> \o Tail(queue)
    BY <1>0, <1>5 DEF Line, Ahead
  <2>2. /\ Len(Line) = Len(queue) + 1 /\ Line[1] = strip /\ \A j \in 1 .. Len(queue) : Line[j + 1] = queue[j]
    BY <1>0, <1>5, <2>1, ConsFacts
  <2>3. /\ Len(Line') = Len(Tail(queue)) + 1 /\ Line'[1] = strip
        /\ \A j \in 1 .. Len(Tail(queue)) : Line'[j + 1] = Tail(queue)[j]
    BY <1>0, <1>1, <1>5, <2>1, ConsFacts
  <2>4. Len(Line) = Len(Line') + 1 /\ Len(Line') >= 1 /\ Len(Line) \in Nat /\ Len(Line') \in Nat
    BY <1>1, <2>2, <2>3
  <2>5. Line[2] = record'
    <3>1. 1 \in 1 .. Len(queue)
      BY <1>1
    <3>2. Line[1 + 1] = queue[1]
      BY <2>2, <3>1
    <3> QED
      BY <1>1, <3>2
  <2>6. ASSUME NEW j \in 2 .. Len(Line') PROVE Line'[j] = Line[j + 1]
    <3>1. j - 1 \in 1 .. Len(Tail(queue)) /\ j \in 1 .. Len(queue) /\ (j - 1) + 1 = j
      BY <1>1, <2>3
    <3>2. Line'[j] = Tail(queue)[j - 1] /\ Tail(queue)[j - 1] = queue[j] /\ Line[j + 1] = queue[j]
      BY <1>1, <2>2, <2>3, <3>1
    <3> QED
      BY <3>2
  <2> QED
    BY <2>2, <2>3, <2>4, <2>5, <2>6 DEF SecondTaken
<1> QED
  BY <1>1, <1>3, <1>4, <1>5

\* The thread writes a row with its frame; what it drops takes nothing from the other rows.
LEMMA PidThreadTelemetry ==
    ASSUME Control, Control', Telemetry, PidThread
    PROVE  Telemetry'
<1>0. /\ queue \in Seq(Items) /\ (pc \in {"opening", "closing", "renaming"} => record \in Items)
      /\ Open => strip \in Items /\ strip.kind = "start"
  BY RecordFacts, CallFacts DEF Control, StripTypes, ThreadShape, Open
<1>1. CASE PopRow
  <2>1. /\ pc = "loop" /\ pc' = pc /\ queue # <<>> /\ queue' = Tail(queue) /\ record' = Head(queue) /\ strip' = strip
        /\ Open /\ ~taking /\ taking' = TRUE /\ record'.kind = "drive" /\ UNCHANGED <<loop, attached, framed>>
    BY <1>1 DEF PopRow, IsRow
  <2>2. SecondTaken(Line, Line') /\ Line[2] = record' /\ record' \in Items
    BY <2>1, HeadTaken
  <2>3. /\ FrameInv' /\ StartsRise(Line', current) /\ RowsRise(Line', current, Done) /\ RowsFramed(Line', Ticks)
        /\ \A j \in 1 .. Len(Line') : RowOf(Line', 1, j) =>
              j + 1 \in 1 .. Len(Line) /\ 2 < j + 1 /\ RowOf(Line, 1, j + 1) /\ Line'[j] = Line[j + 1]
    BY <2>1, <2>2, RecordsLeave DEF Data
  <2>4. Done' = Done /\ Ticks' = Ticks /\ current' = current /\ (Open' <=> Open)
    BY <2>1 DEF Done, Ticks, loop, Open
  <2>5. /\ Line[1] = strip /\ Len(Line) \in Nat /\ Len(Line) >= 2 /\ RowOf(Line, 1, 2)
        /\ 1 \in 1 .. Len(Line) /\ 2 \in 1 .. Len(Line)
    <3>1. Line[1] = strip /\ strip.kind = "start" /\ Line \in Seq(Items)
      BY <2>1, LineFacts
    <3>2. Len(Line) \in Nat /\ Len(Line) >= 2
      <4>1. Line' \in Seq(Items)
        BY NextLine
      <4> QED
        BY <2>2, <4>1 DEF SecondTaken
    <3>3. 2 \in 1 + 1 .. Len(Line) /\ \A m \in 1 + 1 .. 2 : m = 2
      BY <3>2
    <3> QED
      BY <2>1, <2>2, <3>1, <3>2, <3>3 DEF RowOf
  <2>6. TickOf(strip.t, record'.n) \in Ticks /\ (strip.t = current => record'.n <= Done)
    BY <2>2, <2>5 DEF Telemetry, RowsFramed, RowsRise
  <2>7. ASSUME NEW j \in 1 .. Len(Line'), RowOf(Line', 1, j) PROVE record'.n < Line'[j].n
    <3>1. j + 1 \in 1 .. Len(Line) /\ 2 < j + 1 /\ RowOf(Line, 1, j + 1) /\ Line'[j] = Line[j + 1]
      BY <2>3, <2>7
    <3>2. Line[2].n < Line[j + 1].n
      BY <2>5, <3>1 DEF Telemetry, RowsRise
    <3> QED
      BY <2>2, <3>1, <3>2
  <2>8. HeldInv'
    BY <2>1, <2>4, <2>6, <2>7 DEF HeldInv
  <2> QED
    BY <2>3, <2>4, <2>8 DEF Telemetry
<1>2. CASE TakeFrame
  BY <1>2, FrameTaken
<1>3. CASE ~taking /\ UNCHANGED telemetry /\ ~PopRow /\ ~TakeFrame
  <2>1. UNCHANGED <<loop, attached, framed>> /\ taking' = FALSE /\ Done' = Done /\ Ticks' = Ticks /\ current' = current
    BY <1>3 DEF PidThread, telemetry, Pop, Opened, Mark, Close, Rename, SyncDirectory, Settle, Idle, Fail, End, loop, Done, Ticks
  <2>2. (\E k \in Nat : Shifts(k)) \/ (SecondTaken(Line, Line') /\ Line[2].kind \in Data)
    <3>1. CASE Pop
      <4>1. pc = "loop" /\ queue # <<>> /\ queue' = Tail(queue) /\ record' = Head(queue) /\ strip' = strip
        BY <3>1 DEF Pop
      <4>2. \/ pc' \in {"opening", "closing"}
            \/ ~Open /\ pc' \in {"settling", "loop"}
            \/ Open /\ pc' = "loop" /\ record'.kind \in Data
        BY <3>1, <4>1 DEF Pop
      <4> QED
        BY <4>1, <4>2, HeadTaken, FrontLeaves
    <3>2. CASE Opened
      <4>1. pc = "opening" /\ pc' \in {"marking", "loop"} /\ strip' = record /\ queue' = queue /\ ~Open /\ record \in Starts
        BY <3>2, CallFacts, ItemFacts DEF Opened, Step, shared, Control, ThreadShape, StripTypes
      <4>2. record # NoRecord
        BY <4>1, RecordFacts
      <4>3. Line' = Line
        BY <4>1, <4>2 DEF Line, Ahead, Open
      <4> QED
        BY <4>3, FrontLeaves
    <3>3. CASE Mark \/ Idle \/ Settle \/ Rename
      <4>1. /\ UNCHANGED <<strip, record, queue>>
            /\ pc' = pc \/ (pc \notin {"opening", "closing", "renaming"} /\ pc' \notin {"opening", "closing", "renaming"})
        BY <3>3 DEF Mark, Idle, Settle, Rename, Step, shared
      <4>2. Line' = Line
        BY <4>1 DEF Line, Ahead, Open
      <4> QED
        BY <4>2, FrontLeaves
    <3>4. CASE Close
      <4>1. pc = "closing" /\ UNCHANGED <<queue, record>> /\ Open
        BY <3>4 DEF Close, shared, Control, ThreadShape
      <4>2. CASE Complete
        <5>1. pc' = "renaming" /\ strip' = strip
          BY <3>4, <4>2 DEF Close
        <5>2. Line' = Line
          BY <4>1, <5>1 DEF Line, Ahead, Open
        <5> QED
          BY <5>2, FrontLeaves
      <4>3. CASE ~Complete
        <5>1. pc' = (IF record.kind = "start" THEN "opening" ELSE "settling") /\ strip' = NoRecord
          BY <3>4, <4>3 DEF Close
        <5>2. record.kind = "start" => Line' = <<record>> \o queue
          BY <4>1, <5>1 DEF Line, Ahead, Open
        <5>3. record.kind # "start" => Line' = queue
          BY <4>1, <5>1 DEF Line, Ahead, Open
        <5>4. Line = <<strip>> \o (<<record>> \o queue)
          BY <4>1 DEF Line, Ahead
        <5> QED
          BY <1>0, <4>1, <5>2, <5>3, <5>4, FrontLeaves
      <4> QED
        BY <4>2, <4>3
    <3>5. CASE SyncDirectory \/ Fail \/ End
      <4>1. strip' = NoRecord /\ queue' = queue /\ pc' \in {"settling", "loop", "ended"}
        BY <3>5 DEF SyncDirectory, Fail, End, Step, shared
      <4>2. Line' = queue
        BY <4>1 DEF Line, Ahead, Open
      <4> QED
        BY <4>2, FrontLeaves
    <3> QED
      BY <1>3, <3>1, <3>2, <3>3, <3>4, <3>5 DEF PidThread
  <2>3. /\ FrameInv' /\ StartsRise(Line', current) /\ RowsRise(Line', current, Done) /\ RowsFramed(Line', Ticks)
    BY <2>1, <2>2, RecordsLeave
  <2>4. HeldInv'
    BY <2>1 DEF HeldInv
  <2> QED
    BY <2>1, <2>3, <2>4 DEF Telemetry
<1> QED
  BY <1>1, <1>2, <1>3 DEF PidThread

LEMMA TelemetryStep ==
    ASSUME Control, Telemetry, [TelemetryNext]_pidVars
    PROVE  Control' /\ Telemetry'
<1>1. /\ framed => recording /\ op = NoCall
      /\ taking => pc = "loop" /\ Open /\ record.kind = "drive"
  BY DEF Telemetry, FrameInv, HeldInv
<1>2. Control'
  BY <1>1, PidControlStep
<1>3. CASE TelemetryNext
  BY <1>2, <1>3, LoopTelemetry, PidThreadTelemetry DEF TelemetryNext
<1>4. CASE UNCHANGED pidVars
  <2>1. /\ Line' = Line /\ Done' = Done /\ Ticks' = Ticks /\ (Open' <=> Open)
        /\ UNCHANGED <<attached, framed, taking, phase, op, recording, current, pc, record, strip>>
    BY <1>4 DEF pidVars, vars, loop, shared, thread, telemetry, Line, Ahead, Open, Done, Ticks
  <2>2. FrameInv' /\ HeldInv'
    BY <2>1 DEF Telemetry, FrameInv, HeldInv
  <2> QED
    BY <1>2, <2>1, <2>2 DEF Telemetry
<1> QED
  BY <1>2, <1>3, <1>4

\* Every row of a PID strip is written with the frame of its own tick, and a captured strip
\* has a live writer, for any queues, reserve and bounds.
THEOREM RowsGetTheirFrames == TelemetrySpec => []RowsHaveTelemetry /\ []CapturedIsLive
<1>1. TelemetryInit => Control /\ Telemetry
  <2> SUFFICES ASSUME TelemetryInit PROVE Control /\ Telemetry
    OBVIOUS
  <2>1. Control
    BY ControlInit DEF TelemetryInit
  <2>2. Line = <<>> /\ Len(Line) = 0 /\ Ticks = {} /\ Len(attached) = 0
    BY DEF TelemetryInit, Init, Line, Ahead, Open, Ticks
  <2>3. FrameInv /\ HeldInv
    <3>1. attached \in Seq(Nat \X Nat) /\ framed = FALSE /\ taking = FALSE
      BY DEF TelemetryInit
    <3>2. ~framed /\ ~taking /\ framed \in BOOLEAN /\ taking \in BOOLEAN
      BY <3>1
    <3>3. \A i, j \in 1 .. Len(attached) : i < j => Earlier(attached[i], attached[j])
      BY <2>2
    <3> QED
      BY <2>2, <3>1, <3>2, <3>3 DEF FrameInv, HeldInv
  <2>4. StartsRise(Line, current) /\ RowsRise(Line, current, Done) /\ RowsFramed(Line, Ticks)
    BY <2>2 DEF StartsRise, RowsRise, RowsFramed
  <2> QED
    BY <2>1, <2>3, <2>4 DEF Telemetry
<1>2. Control /\ Telemetry /\ [TelemetryNext]_pidVars => Control' /\ Telemetry'
  BY TelemetryStep
<1>3. Control /\ Telemetry => RowsHaveTelemetry /\ CapturedIsLive
  BY RowsHold DEF Control, CallInv, CapturedIsLive
<1> QED
  BY <1>1, <1>2, <1>3, PTL DEF TelemetrySpec
=============================================================================
