----------------------------- MODULE FrameStore -----------------------------
(***************************************************************************)
(* The shared-memory frame store of native_stack/src/frame_store.cpp: one  *)
(* camera process publishes packed frames into a mapped file, any number   *)
(* of processes copy the latest one out, and a robust mutex that is only   *)
(* ever tried guards the copy.  Every process may be killed at any point,  *)
(* in the middle of a copy too, and a camera may start again.              *)
(*                                                                         *)
(* A frame is its sequence number: the pixels, the sequence field and the  *)
(* rest of the metadata are Cells that hold the number of the frame they   *)
(* came from.  A copy fills its cells one at a time in any order, so it    *)
(* does not matter how the compiler orders a memcpy and a struct copy.     *)
(***************************************************************************)
EXTENDS Naturals

CONSTANTS
    Writers,    \* camera processes for one store path
    Readers,    \* processes that read the store
    PixelParts, \* the pieces a pixel copy is torn into
    MaxStores,  \* bound: stores created at the path
    MaxFrames   \* bound: frames one camera process receives

None == "none"

ASSUME BoundAssumption == MaxStores \in Nat /\ MaxFrames \in Nat
ASSUME ProcessAssumption ==
    Writers \cap Readers = {} /\ None \notin Writers \cup Readers

VARIABLES
    entry,   \* the store the path names
    flock,   \* the camera that holds the writer lock file
    created, \* how many stores were created at the path
    owner, dead, cells,         \* of each store: its mutex, whether the owner died, the mapped file
    wpc, wstore, frame, todo,   \* of each camera: its state, store, last frame, cells left to copy
    rpc, rstore, unread, copy,    \* of each reader: its state, store, cells left to copy, copy in progress
    held,                       \* the frame each reader last read completely
    newest   \* history: the frame each store last published completely

shared == <<entry, flock, created>>
mutexes == <<owner, dead>>
cameras == <<wpc, wstore, frame, todo>>
images == <<rpc, rstore, unread, copy, held>>
storeVars == <<shared, mutexes, cells, cameras, images, newest>>

Sequence == "sequence"
Rest == "metadata"
Cells == PixelParts \cup {Sequence, Rest}
Stores == 1 .. MaxStores
NoStore == 0
Blank == [c \in Cells |-> 0]

Publishing == {"idle", "trying", "copying"}
Reading == {"peek", "fetch"}

StoreTypeOK ==
    /\ entry \in 0 .. created /\ created \in 0 .. MaxStores
    /\ flock \in Writers \cup {None}
    /\ owner \in [Stores -> Writers \cup Readers \cup {None}]
    /\ dead \in [Stores -> BOOLEAN]
    /\ cells \in [Stores -> [Cells -> Nat]]
    /\ wpc \in [Writers -> {"gone", "locked", "created"} \cup Publishing]
    /\ wstore \in [Writers -> Stores \cup {NoStore}]
    /\ frame \in [Writers -> Nat]
    /\ todo \in [Writers -> SUBSET Cells]
    /\ rpc \in [Readers -> {"closed", "idle", "changed"} \cup Reading]
    /\ rstore \in [Readers -> Stores \cup {NoStore}]
    /\ unread \in [Readers -> SUBSET Cells]
    /\ copy \in [Readers -> [Cells -> Nat]]
    /\ held \in [Readers -> [Cells -> Nat]]
    /\ newest \in [Stores -> Nat]
    /\ \A w \in Writers : wpc[w] \notin {"gone", "locked"} => wstore[w] \in 1 .. created
    /\ \A r \in Readers : rpc[r] # "closed" => rstore[r] \in 1 .. created

StoreInit ==
    /\ entry = NoStore /\ flock = None /\ created = 0
    /\ owner = [i \in Stores |-> None] /\ dead = [i \in Stores |-> FALSE]
    /\ cells = [i \in Stores |-> Blank]
    /\ wpc = [w \in Writers |-> "gone"] /\ wstore = [w \in Writers |-> NoStore]
    /\ frame = [w \in Writers |-> 0] /\ todo = [w \in Writers |-> {}]
    /\ rpc = [r \in Readers |-> "closed"] /\ rstore = [r \in Readers |-> NoStore]
    /\ unread = [r \in Readers |-> {}]
    /\ copy = [r \in Readers |-> Blank] /\ held = [r \in Readers |-> Blank]
    /\ newest = [i \in Stores |-> 0]

-----------------------------------------------------------------------------
(* The robust mutex.                                                       *)

Free(i) == owner[i] = None \/ dead[i]

Take(i, p) == owner' = [owner EXCEPT ![i] = p] /\ dead' = [dead EXCEPT ![i] = FALSE]
Release(i) == owner' = [owner EXCEPT ![i] = None] /\ UNCHANGED dead

\* Mutant of Recovered: recovery keeps the frame of the process that died.
Recovered_KeepsFrame(i) == cells[i][Sequence]
\* try_lock: recovering the mutex of a dead process invalidates the frame.
Recovered(i) == IF dead[i] THEN 0 ELSE cells[i][Sequence]

\* What the kernel leaves of a killed process' hold on a mutex.
Orphan(p) ==
    /\ dead' = [i \in Stores |-> owner[i] = p \/ dead[i]]
    /\ UNCHANGED owner

-----------------------------------------------------------------------------
(* A camera: the constructor of FrameWriter, then one publish per frame.   *)

Camera(w, from, to) == wpc[w] = from /\ wpc' = [wpc EXCEPT ![w] = to]

\* A second camera fails here: LOCK_NB.
TakeLock(w) ==
    /\ Camera(w, "gone", "locked") /\ created < MaxStores
    /\ flock = None /\ flock' = w
    /\ UNCHANGED <<entry, created, mutexes, cells, wstore, frame, todo, images, newest>>

\* The temporary file: sized, mapped and initialised before anyone can open it.
CreateStore(w) ==
    /\ Camera(w, "locked", "created") /\ created < MaxStores
    /\ created' = created + 1
    /\ wstore' = [wstore EXCEPT ![w] = created + 1]
    /\ UNCHANGED <<entry, flock, mutexes, cells, frame, todo, images, newest>>

\* rename: readers that are connected keep the store they opened.
PublishStore(w) ==
    /\ Camera(w, "created", "idle")
    /\ entry' = wstore[w]
    /\ UNCHANGED <<flock, created, mutexes, cells, wstore, frame, todo, images, newest>>

\* on_frame: every received frame takes a number, published or not.
ReceiveFrame(w) ==
    /\ Camera(w, "idle", "trying") /\ frame[w] < MaxFrames
    /\ frame' = [frame EXCEPT ![w] = @ + 1]
    /\ UNCHANGED <<shared, mutexes, cells, wstore, todo, images, newest>>

\* Every try of the two milliseconds found the mutex held.
DropFrame(w) ==
    /\ Camera(w, "trying", "idle") /\ ~Free(wstore[w])
    /\ UNCHANGED <<shared, mutexes, cells, wstore, frame, todo, images, newest>>

\* FrameWriter::publish takes the mutex and clears the published sequence.
BeginPublish(w) ==
    /\ Camera(w, "trying", "copying") /\ Free(wstore[w])
    /\ Take(wstore[w], w)
    /\ cells' = [cells EXCEPT ![wstore[w]][Sequence] = 0]
    /\ todo' = [todo EXCEPT ![w] = Cells]
    /\ UNCHANGED <<shared, wstore, frame, images, newest>>

CopyIn(w, c) ==
    /\ wpc[w] = "copying" /\ c \in todo[w]
    /\ cells' = [cells EXCEPT ![wstore[w]][c] = frame[w]]
    /\ todo' = [todo EXCEPT ![w] = @ \ {c}]
    /\ UNCHANGED <<shared, mutexes, wpc, wstore, frame, images, newest>>

\* Mutant of EndPublish: the mutex is released while pixels are still copied.
EndPublish_Early(w) ==
    /\ Camera(w, "copying", "idle") /\ {Sequence, Rest} \cap todo[w] = {}
    /\ Release(wstore[w])
    /\ newest' = [newest EXCEPT ![wstore[w]] = frame[w]]
    /\ UNCHANGED <<shared, cells, wstore, frame, todo, images>>
EndPublish(w) ==
    /\ Camera(w, "copying", "idle") /\ todo[w] = {}
    /\ Release(wstore[w])
    /\ newest' = [newest EXCEPT ![wstore[w]] = frame[w]]
    /\ UNCHANGED <<shared, cells, wstore, frame, todo, images>>

\* A camera ends, in order or killed: the kernel drops its lock file and mapping.
KillWriter(w) ==
    /\ wpc[w] # "gone"
    /\ Orphan(w)
    /\ flock' = IF flock = w THEN None ELSE flock
    /\ wpc' = [wpc EXCEPT ![w] = "gone"] /\ wstore' = [wstore EXCEPT ![w] = NoStore]
    /\ frame' = [frame EXCEPT ![w] = 0] /\ todo' = [todo EXCEPT ![w] = {}]
    /\ UNCHANGED <<entry, created, cells, images, newest>>

-----------------------------------------------------------------------------
(* A reader: the recorder's Image, on kaivuri_frame_open and _read.        *)

OpenStore(r) ==
    /\ rpc[r] = "closed" /\ entry # NoStore
    /\ rpc' = [rpc EXCEPT ![r] = "idle"] /\ rstore' = [rstore EXCEPT ![r] = entry]
    /\ UNCHANGED <<shared, mutexes, cells, cameras, unread, copy, held, newest>>

\* Image::read asks for the metadata first, and for the pixels when they changed.
BeginRead(r) ==
    /\ rpc[r] \in {"idle", "changed"} /\ Free(rstore[r])
    /\ Take(rstore[r], r)
    /\ cells' = [cells EXCEPT ![rstore[r]][Sequence] = Recovered(rstore[r])]
    /\ rpc' = [rpc EXCEPT ![r] = IF @ = "idle" THEN "peek" ELSE "fetch"]
    /\ unread' = [unread EXCEPT ![r] = IF rpc[r] = "idle" THEN {Sequence, Rest} ELSE Cells]
    /\ copy' = [copy EXCEPT ![r] = held[r]]
    /\ UNCHANGED <<shared, cameras, rstore, held, newest>>

\* The mutex is held: Image::read gives up until its next call.
ReadBusy(r) ==
    /\ rpc[r] = "changed" /\ ~Free(rstore[r])
    /\ rpc' = [rpc EXCEPT ![r] = "idle"]
    /\ UNCHANGED <<shared, mutexes, cells, cameras, rstore, unread, copy, held, newest>>

CopyOut(r, c) ==
    /\ rpc[r] \in Reading /\ c \in unread[r]
    /\ cells[rstore[r]][Sequence] # 0
    /\ copy' = [copy EXCEPT ![r][c] = cells[rstore[r]][c]]
    /\ unread' = [unread EXCEPT ![r] = @ \ {c}]
    /\ UNCHANGED <<shared, mutexes, cells, cameras, rpc, rstore, held, newest>>

\* Unlock and return: no frame, an unchanged one, a changed one, or the copy of it.
EndRead(r) ==
    LET empty == cells[rstore[r]][Sequence] = 0
        changed == copy[r][Sequence] # held[r][Sequence]
    IN  /\ rpc[r] \in Reading /\ (empty \/ unread[r] = {})
        /\ Release(rstore[r])
        /\ rpc' = [rpc EXCEPT ![r] = IF @ = "peek" /\ ~empty /\ changed THEN "changed" ELSE "idle"]
        /\ held' = [held EXCEPT ![r] = IF rpc[r] = "fetch" /\ ~empty THEN copy[r] ELSE @]
        /\ unread' = [unread EXCEPT ![r] = {}] /\ copy' = [copy EXCEPT ![r] = Blank]
        /\ UNCHANGED <<shared, cells, cameras, rstore, newest>>

KillReader(r) ==
    /\ rpc[r] # "closed"
    /\ Orphan(r)
    /\ rpc' = [rpc EXCEPT ![r] = "closed"] /\ rstore' = [rstore EXCEPT ![r] = NoStore]
    /\ unread' = [unread EXCEPT ![r] = {}]
    /\ copy' = [copy EXCEPT ![r] = Blank] /\ held' = [held EXCEPT ![r] = Blank]
    /\ UNCHANGED <<shared, cells, cameras, newest>>

WriterStep(w) ==
    \/ TakeLock(w) \/ CreateStore(w) \/ PublishStore(w)
    \/ ReceiveFrame(w) \/ DropFrame(w) \/ BeginPublish(w)
    \/ \E c \in Cells : CopyIn(w, c)
    \/ EndPublish(w) \/ KillWriter(w)

ReaderStep(r) ==
    \/ OpenStore(r) \/ BeginRead(r) \/ ReadBusy(r)
    \/ \E c \in Cells : CopyOut(r, c)
    \/ EndRead(r) \/ KillReader(r)

StoreNext == (\E w \in Writers : WriterStep(w)) \/ (\E r \in Readers : ReaderStep(r))

StoreSpec == StoreInit /\ [][StoreNext]_storeVars

-----------------------------------------------------------------------------
(* Properties.                                                             *)

\* A frame a reader returns is whole, whoever was killed in the middle of which
\* copy: its pixels, its sequence and its metadata are of one publish
\* (try_lock, publish, kaivuri_frame_read).
NoTornFrame == \A r \in Readers, c \in Cells : held[r][c] = held[r][Sequence]

\* The store a reader opens now is the one the running camera publishes to, so
\* of two cameras started for one path the second can never take the path away
\* (flock and rename in the constructor of FrameWriter).
LiveStoreIsNamed == \A w \in Writers : wpc[w] \in Publishing => entry = wstore[w]

\* A frame left published is whole: whenever nobody holds the mutex and its
\* last owner did not die, what the next reader finds is one complete frame.
PublishedIsWhole ==
    \A i \in Stores :
        owner[i] = None /\ cells[i][Sequence] # 0 =>
            \A c \in Cells : cells[i][c] = cells[i][Sequence]

\* The inductive invariant behind these: who may be inside the mutex, which
\* cells are whole, and how far each camera and each reader have come
\* (publish, kaivuri_frame_read, try_lock between any two of their steps).
Inside ==
    /\ \A w \in Writers : wpc[w] # "gone" => flock = w
    /\ \A w \in Writers : wpc[w] = "copying" => owner[wstore[w]] = w /\ ~dead[wstore[w]]
    /\ \A r \in Readers : rpc[r] \in Reading => owner[rstore[r]] = r /\ ~dead[rstore[r]]
Whole ==
    \A i \in Stores : owner[i] \notin Writers /\ cells[i][Sequence] # 0 =>
        \A c \in Cells : cells[i][c] = newest[i]
Written ==
    \A w \in Writers :
        /\ wpc[w] \in {"gone", "locked"} => frame[w] = 0
        /\ wpc[w] = "created" => /\ frame[w] = 0 /\ entry < wstore[w]
                                 /\ cells[wstore[w]][Sequence] = 0 /\ newest[wstore[w]] = 0
        /\ wpc[w] = "idle" => newest[wstore[w]] <= frame[w]
        /\ wpc[w] \in {"trying", "copying"} => newest[wstore[w]] < frame[w]
        /\ wpc[w] = "copying" => \A c \in Cells \ todo[w] : cells[wstore[w]][c] = frame[w]
Copied ==
    \A r \in Readers :
        /\ rpc[r] \in Reading => \A c \in Cells \ unread[r] :
              rpc[r] = "fetch" \/ c = Sequence => copy[r][c] = cells[rstore[r]][c]
        /\ \A c \in Cells : held[r][c] = held[r][Sequence]
        /\ rpc[r] = "closed" => held[r][Sequence] = 0 /\ rstore[r] = NoStore
        /\ rpc[r] # "closed" => held[r][Sequence] <= newest[rstore[r]]
        /\ rpc[r] \in {"changed", "fetch"} => held[r][Sequence] < newest[rstore[r]]
Unborn ==
    \A i \in Stores : created < i => owner[i] = None /\ cells[i][Sequence] = 0 /\ newest[i] = 0
StoreConsistent == Inside /\ Whole /\ Written /\ Copied /\ Unborn /\ LiveStoreIsNamed

\* What every process may rely on at any moment, whoever is killed where: the
\* mutex, the cells and the copies in progress agree, and no reader returns a
\* torn frame (publish, try_lock, kaivuri_frame_read).
StoreIsSafe == StoreConsistent /\ NoTornFrame

-----------------------------------------------------------------------------
(* What the store promises: one atomic register per store.                 *)

\* A store counts as empty from the start of a publish to its end.
Current == [i \in Stores |-> IF owner[i] \in Writers THEN 0 ELSE cells[i][Sequence]]
Held == [r \in Readers |-> held[r][Sequence]]
Register == INSTANCE FrameRegister WITH current <- Current, held <- Held, opened <- rstore

\* Copying frames in and out behind the mutex is indistinguishable from writing
\* and reading each frame at once: a reader never sees an older frame after a
\* newer one, nor a frame that was replaced before its read began.
RegisterSpec == Register!Spec
=============================================================================
