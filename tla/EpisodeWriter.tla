--------------------------- MODULE EpisodeWriter ---------------------------
(***************************************************************************)
(* One take of the recorder: the class Writer of                           *)
(* native_stack/src/record_main.cpp.  The recorder's loop pushes one row   *)
(* per tick, some with images, into a bounded queue; a writer thread       *)
(* appends them to the files of a ".partial" directory; finish joins the   *)
(* thread, checks its counters, writes the summary, syncs everything and   *)
(* renames the directory to ".ready", the only name the exporter accepts.  *)
(* Every write and sync may fail, the process may be killed and the power  *)
(* may fail between any two steps.                                         *)
(***************************************************************************)
EXTENDS Naturals, Sequences

CONSTANTS
    Streams,  \* the files that take one image per recorded frame: camN.y8, camN.depth.zst
    QueueLimit,
    MaxRows   \* bound: records pushed into one take

ASSUME LimitAssumption == QueueLimit \in Nat \ {0} /\ MaxRows \in Nat

Rows == "samples.jsonl"
Summary == "episode.json"
Files == Streams \cup {Rows, Summary}
\* What is synced besides the files: the take's directory and the one it is in.
Directory == "directory"
Session == "session"

ASSUME StreamAssumption == Streams # {} /\ Streams \cap {Rows, Summary, Directory, Session} = {}

VARIABLES
    main,    \* what the recorder's loop does with the take
    save,    \* finish's first argument, or "keep" when the take is abandoned
    rows, frames,   \* records pushed, and those with images
    queue_, done,    \* shared with the thread under mutex_
    thread_, failed_, \* whether the thread runs, failed_
    counted,        \* written_ and depth_written_
    content, broken, \* of each file: the records in it, and whether its stream failed
    synced, \* the files and the directories that were synced
    name,   \* the name of the take's directory
    told    \* the operator was told that the take is saved

progress == <<main, save, rows, frames>>
worker == <<thread_, failed_, counted>>
directory == <<content, broken, synced, name, told>>
takeVars == <<progress, queue_, done, worker, directory>>

Steps == {"idle", "recording", "joining", "summary", "syncing", "renaming", "committing", "discarding"}
Outcomes == {"saved", "discarded", "kept", "dead"}

TakeTypeOK ==
    /\ main \in Steps \cup Outcomes /\ save \in {"save", "discard", "keep"}
    /\ rows \in 0 .. MaxRows /\ frames \in 0 .. rows
    /\ queue_ \in Seq([image : BOOLEAN, frames : Nat]) /\ Len(queue_) <= QueueLimit
    /\ done \in BOOLEAN /\ failed_ \in BOOLEAN
    /\ thread_ \in {"none", "running", "ended"}
    /\ counted \in [Streams -> Nat]
    /\ content \in [Files -> Nat] /\ broken \subseteq Files
    /\ synced \subseteq Files \cup {Directory, Session}
    /\ name \in {"none", "partial", "ready"} /\ told \in BOOLEAN

TakeInit ==
    /\ main = "idle" /\ save = "keep" /\ rows = 0 /\ frames = 0
    /\ queue_ = <<>> /\ done = FALSE
    /\ thread_ = "none" /\ failed_ = FALSE /\ counted = [s \in Streams |-> 0]
    /\ content = [f \in Files |-> 0] /\ broken = {} /\ synced = {}
    /\ name = "none" /\ told = FALSE

Goto(from, to) == main = from /\ main' = to

-----------------------------------------------------------------------------
(* The recorder's loop.                                                    *)

\* The constructor; a file that cannot be created leaves the directory.
OpenTake ==
    /\ Goto("idle", "recording") /\ name' = "partial" /\ thread_' = "running"
    /\ UNCHANGED <<save, rows, frames, queue_, done, failed_, counted, content, broken, synced, told>>
OpenFails ==
    /\ Goto("idle", "kept") /\ name' \in {"none", "partial"}
    /\ UNCHANGED <<save, rows, frames, queue_, done, worker, content, broken, synced, told>>

HasRoom == ~failed_ /\ Len(queue_) < QueueLimit

PushRow(image) ==
    /\ main = "recording" /\ rows < MaxRows /\ HasRoom
    /\ rows' = rows + 1 /\ frames' = frames + (IF image THEN 1 ELSE 0)
    /\ queue_' = Append(queue_, [image |-> image, frames |-> frames'])
    /\ UNCHANGED <<main, save, done, worker, directory>>

\* Mutant of Leave: the thread is not told that the take is over.
Leave_NotDone(how) ==
    /\ Goto("recording", "joining") /\ save' = how
    /\ UNCHANGED <<rows, frames, queue_, done, worker, directory>>
Leave(how) ==
    /\ Goto("recording", "joining") /\ save' = how /\ done' = TRUE
    /\ UNCHANGED <<rows, frames, queue_, worker, directory>>
FinishTake == Leave("save") \/ Leave("discard")
\* abandon, or the loop's exception path, also for a push that was refused.
Abandon == Leave("keep")

Counted == ~failed_ /\ \A s \in Streams : counted[s] = frames

Joined ==
    /\ main = "joining" /\ thread_ = "ended"
    /\ main' = IF save = "keep" \/ ~Counted THEN "kept"
               ELSE IF save = "discard" \/ frames = 0 THEN "discarding" ELSE "summary"
    /\ UNCHANGED <<save, rows, frames, queue_, done, worker, directory>>

\* remove_all may fail or be cut off half-way: the directory is still ".partial".
Discard ==
    /\ \/ Goto("discarding", "discarded") /\ name' = "none"
       \/ Goto("discarding", "kept") /\ UNCHANGED name
    /\ content' \in [Files -> 0 .. MaxRows]
    /\ \A f \in Files : content'[f] \in {0, content[f]}
    /\ UNCHANGED <<save, rows, frames, queue_, done, worker, broken, synced, told>>

WriteSummary ==
    /\ \/ Goto("summary", "syncing") /\ content' = [content EXCEPT ![Summary] = 1]
       \/ Goto("summary", "kept") /\ UNCHANGED content
    /\ UNCHANGED <<save, rows, frames, queue_, done, worker, broken, synced, name, told>>

\* Mutant of Unsynced: the sync of the image streams is forgotten.
Unsynced_SkipsStreams == (Files \ Streams) \ synced
Unsynced == Files \ synced

SyncFile(f) ==
    /\ main = "syncing" /\ f \in Unsynced
    /\ \/ main' = main /\ synced' = synced \cup {f}
       \/ main' = "kept" /\ UNCHANGED synced
    /\ UNCHANGED <<save, rows, frames, queue_, done, worker, content, broken, name, told>>
SyncPartial ==
    /\ Unsynced = {}
    /\ \/ Goto("syncing", "renaming") /\ synced' = synced \cup {Directory}
       \/ Goto("syncing", "kept") /\ UNCHANGED synced
    /\ UNCHANGED <<save, rows, frames, queue_, done, worker, content, broken, name, told>>

RenameTake ==
    /\ \/ Goto("renaming", "committing") /\ name' = "ready"
       \/ Goto("renaming", "kept") /\ UNCHANGED name
    /\ UNCHANGED <<save, rows, frames, queue_, done, worker, content, broken, synced, told>>

\* Mutant of SyncSession: the operator is told before the rename is durable.
SyncSession_Skipped ==
    /\ Goto("committing", "saved") /\ told' = TRUE
    /\ UNCHANGED <<save, rows, frames, queue_, done, worker, content, broken, synced, name>>
\* The last sync makes the rename durable; when it fails the take is ready, not told.
SyncSession ==
    /\ \/ Goto("committing", "saved") /\ told' = TRUE /\ synced' = synced \cup {Session}
       \/ Goto("committing", "kept") /\ UNCHANGED <<told, synced>>
    /\ UNCHANGED <<save, rows, frames, queue_, done, worker, content, broken, name>>

-----------------------------------------------------------------------------
(* The writer thread: run().                                               *)

\* What a failing stream leaves of the records it had accepted.
Spoiled(wanted, lost) ==
    {c \in [Files -> 0 .. MaxRows] :
        \A f \in Files : IF f \in lost THEN c[f] <= content[f] ELSE c[f] = wanted[f]}

WriteRecord ==
    LET item == Head(queue_)
        touched == IF item.image THEN Streams \cup {Rows} ELSE {Rows}
        wanted == [f \in Files |-> IF f \in touched THEN content[f] + 1 ELSE content[f]]
    IN  /\ thread_ = "running" /\ queue_ # <<>>
        /\ queue_' = Tail(queue_)
        /\ counted' = [s \in Streams |-> IF item.image THEN counted[s] + 1 ELSE counted[s]]
        /\ \E lost \in SUBSET touched :
              /\ content' \in Spoiled(wanted, lost)
              /\ broken' = broken \cup lost
              /\ IF lost # {} THEN failed_' = TRUE /\ thread_' = "ended"
                 ELSE UNCHANGED <<failed_, thread_>>
        /\ UNCHANGED <<progress, done, synced, name, told>>

\* Compressing the depth of a record fails: its images may be in, its row is not.
CompressFails ==
    LET item == Head(queue_)
        wanted == [f \in Files |-> IF f \in Streams THEN content[f] + 1 ELSE content[f]]
    IN  /\ thread_ = "running" /\ queue_ # <<>> /\ item.image
        /\ queue_' = Tail(queue_) /\ failed_' = TRUE /\ thread_' = "ended"
        /\ \E lost \in SUBSET Streams : content' \in Spoiled(wanted, lost)
        /\ counted' \in [Streams -> 0 .. MaxRows]
        /\ \A s \in Streams : counted'[s] \in {counted[s], counted[s] + 1}
        /\ UNCHANGED <<progress, done, broken, synced, name, told>>

Flush ==
    /\ thread_ = "running" /\ done /\ queue_ = <<>>
    /\ thread_' = "ended"
    /\ \E lost \in SUBSET (Streams \cup {Rows}) :
          /\ content' \in Spoiled(content, lost)
          /\ broken' = broken \cup lost /\ failed_' = (broken' # {})
    /\ UNCHANGED <<progress, queue_, done, counted, synced, name, told>>

-----------------------------------------------------------------------------
(* What a killed process and a power failure leave behind.                 *)

Left(sure) ==
    content' \in {c \in [Files -> 0 .. MaxRows] :
                    \A f \in Files : IF f \in sure THEN c[f] = content[f] ELSE c[f] <= content[f]}

Alive == main \notin Outcomes

\* Only what is still in the buffers of the process is lost.
Kill ==
    /\ Alive /\ main' = "dead"
    /\ Left(IF main \in {"recording", "joining", "discarding"} THEN {} ELSE Files)
    /\ thread_' = "ended"
    /\ UNCHANGED <<save, rows, frames, queue_, done, failed_, counted, broken, synced, name, told>>

\* Only what was synced, and the names a synced directory gives, is sure to be there.
PowerFails ==
    /\ main # "dead" /\ main' = "dead"
    /\ Left(IF Directory \in synced THEN synced ELSE {})
    /\ name' \in IF Session \in synced THEN {name} ELSE {"none", "partial", name}
    /\ thread_' = "ended"
    /\ UNCHANGED <<save, rows, frames, queue_, done, failed_, counted, broken, synced, told>>

RecorderLoop ==
    \/ OpenTake \/ OpenFails \/ (\E image \in BOOLEAN : PushRow(image)) \/ FinishTake \/ Abandon
    \/ Joined \/ Discard \/ WriteSummary \/ (\E f \in Files : SyncFile(f)) \/ SyncPartial
    \/ RenameTake \/ SyncSession
WriterThread == WriteRecord \/ CompressFails \/ Flush

TakeNext == RecorderLoop \/ WriterThread \/ Kill \/ PowerFails

\* Both threads of the process are scheduled; how long a take lasts is the operator's.
Closes == RecorderLoop /\ main # "recording" /\ main # "idle"
RecorderSpec == TakeInit /\ [][TakeNext]_takeVars /\ WF_takeVars(WriterThread) /\ WF_takeVars(Closes)

-----------------------------------------------------------------------------
(* Properties.                                                             *)

\* What the exporter takes for a complete take is one the operator saved: every
\* record that was pushed has its row and its images in every stream, whatever
\* failed and whenever the process or the power went (finish, abandon).
ReadyIsComplete ==
    name = "ready" =>
        /\ save = "save" /\ ~failed_ /\ frames > 0
        /\ content[Rows] = rows /\ content[Summary] = 1
        /\ \A s \in Streams : content[s] = frames

\* Ending a take ends: the join cannot wait for a thread that waits for the
\* loop, whatever is still queued and whatever has failed (join, run).
FinishEnds == main = "joining" ~> main \in Outcomes

OfferedRows == [rows |-> rows, images |-> frames]
Shown == IF name = "ready"
         THEN [rows |-> content[Rows], images |-> content[CHOOSE s \in Streams : TRUE]]
         ELSE [rows |-> 0, images |-> 0]
Take == INSTANCE TakeCommit WITH offered <- OfferedRows, shown <- Shown

\* The files, the syncs and the rename together are one atomic commit: the take
\* is visible with every record it was offered or not at all, and a confirmed
\* take survives a crash and a power failure.
TakeSpec == Take!Spec
=============================================================================
