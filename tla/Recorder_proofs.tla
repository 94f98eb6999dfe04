-------------------------- MODULE Recorder_proofs ---------------------------
(***************************************************************************)
(* Theorems about the episode recorder and what it reads.                  *)
(*                                                                         *)
(* FrameStore: types and safety for any number of cameras, readers,        *)
(* stores, frames and pieces a copy is torn into, and that the store       *)
(* implements FrameRegister.                                               *)
(* TakeCapture: the pairs a recorder makes of two cameras on such stores,  *)
(* for any limits.                                                         *)
(* Recorder: its types, and that a row is only ever pushed with a status   *)
(* of one uninterrupted hold and with its own drive packet.                *)
(***************************************************************************)
EXTENDS Recorder, FrameStore, TakeCapture, SafetyCore_proofs, FiniteSetTheorems

-----------------------------------------------------------------------------
(* The shared frames and their pairs.                                      *)

LEMMA CellFacts ==
    /\ Sequence \in Cells /\ Rest \in Cells
    /\ Blank \in [Cells -> Nat] /\ \A c \in Cells : Blank[c] = 0
BY DEF Cells, Blank

\* Every variable keeps its type, whoever is killed when.
THEOREM StoreTypes == StoreSpec => []StoreTypeOK
<1>1. StoreInit => StoreTypeOK
  BY CellFacts, BoundAssumption DEF StoreInit, StoreTypeOK, NoStore, Stores, Publishing
<1>2. StoreTypeOK /\ [StoreNext]_storeVars => StoreTypeOK'
  <2> SUFFICES ASSUME StoreTypeOK, [StoreNext]_storeVars PROVE StoreTypeOK'
    OBVIOUS
  <2> USE DEF StoreTypeOK, NoStore, Publishing, Reading, Take, Release, Orphan, Camera,
              shared, mutexes, cameras, images
  <2>0. created \in Nat /\ MaxStores \in Nat /\ Stores = 1 .. MaxStores
    BY BoundAssumption DEF Stores
  <2>1. ASSUME NEW w \in Writers, TakeLock(w) PROVE StoreTypeOK'
    BY <2>1 DEF TakeLock
  <2>2. ASSUME NEW w \in Writers, CreateStore(w) PROVE StoreTypeOK'
    <3>1. entry' \in 0 .. created' /\ created' \in 0 .. MaxStores
      BY <2>0, <2>2 DEF CreateStore
    <3>2. wpc' \in [Writers -> {"gone", "locked", "created", "idle", "trying", "copying"}]
      BY <2>2 DEF CreateStore
    <3>3. /\ wstore' \in [Writers -> Stores \cup {0}]
          /\ \A v \in Writers : wpc'[v] \notin {"gone", "locked"} => wstore'[v] \in 1 .. created'
          /\ \A r \in Readers : rpc'[r] # "closed" => rstore'[r] \in 1 .. created'
      BY <2>0, <2>2 DEF CreateStore
    <3> QED
      BY <2>2, <3>1, <3>2, <3>3 DEF CreateStore
  <2>3. ASSUME NEW w \in Writers, PublishStore(w) PROVE StoreTypeOK'
    <3>1. wstore[w] \in 1 .. created
      BY <2>3 DEF PublishStore
    <3>2. entry' \in 0 .. created'
      BY <2>0, <2>3, <3>1 DEF PublishStore
    <3>3. wpc' \in [Writers -> {"gone", "locked", "created", "idle", "trying", "copying"}]
      BY <2>3 DEF PublishStore
    <3> QED
      BY <2>3, <3>1, <3>2, <3>3 DEF PublishStore
  <2>4. ASSUME NEW w \in Writers, ReceiveFrame(w) PROVE StoreTypeOK'
    <3>1. frame' \in [Writers -> Nat]
      BY <2>4 DEF ReceiveFrame
    <3>2. wpc' \in [Writers -> {"gone", "locked", "created", "idle", "trying", "copying"}]
      BY <2>4 DEF ReceiveFrame
    <3> QED
      BY <2>4, <3>1, <3>2 DEF ReceiveFrame
  <2>5. ASSUME NEW w \in Writers, DropFrame(w) PROVE StoreTypeOK'
    BY <2>5 DEF DropFrame
  <2>6. ASSUME NEW w \in Writers, BeginPublish(w) PROVE StoreTypeOK'
    <3>1. cells' \in [Stores -> [Cells -> Nat]]
      BY <2>6 DEF BeginPublish
    <3> QED
      BY <2>6, <3>1 DEF BeginPublish
  <2>7. ASSUME NEW w \in Writers, NEW c \in Cells, CopyIn(w, c) PROVE StoreTypeOK'
    <3>1. cells' \in [Stores -> [Cells -> Nat]] /\ todo' \in [Writers -> SUBSET Cells]
      BY <2>7 DEF CopyIn
    <3> QED
      BY <2>7, <3>1 DEF CopyIn
  <2>8. ASSUME NEW w \in Writers, EndPublish(w) PROVE StoreTypeOK'
    BY <2>8 DEF EndPublish
  <2>9. ASSUME NEW w \in Writers, KillWriter(w) PROVE StoreTypeOK'
    <3>1. /\ wpc' \in [Writers -> {"gone", "locked", "created", "idle", "trying", "copying"}]
          /\ wstore' \in [Writers -> Stores \cup {0}] /\ frame' \in [Writers -> Nat]
          /\ todo' \in [Writers -> SUBSET Cells] /\ dead' \in [Stores -> BOOLEAN]
      BY <2>9 DEF KillWriter
    <3> QED
      BY <2>9, <3>1 DEF KillWriter
  <2>10. ASSUME NEW r \in Readers, OpenStore(r) PROVE StoreTypeOK'
    <3>1. /\ rpc' \in [Readers -> {"closed", "idle", "changed", "peek", "fetch"}]
          /\ rstore' \in [Readers -> Stores \cup {0}]
      BY <2>0, <2>10 DEF OpenStore
    <3>2. \A v \in Readers : rpc'[v] # "closed" => rstore'[v] \in 1 .. created'
      BY <2>0, <2>10 DEF OpenStore
    <3> QED
      BY <2>10, <3>1, <3>2 DEF OpenStore
  <2>11. ASSUME NEW r \in Readers, BeginRead(r) PROVE StoreTypeOK'
    <3>1. rstore[r] \in Stores /\ Recovered(rstore[r]) \in Nat
      BY <2>0, <2>11, CellFacts DEF BeginRead, Recovered
    <3> QED
      BY <2>11, <3>1, CellFacts DEF BeginRead
  <2>12. ASSUME NEW r \in Readers, ReadBusy(r) PROVE StoreTypeOK'
    BY <2>12 DEF ReadBusy
  <2>13. ASSUME NEW r \in Readers, NEW c \in Cells, CopyOut(r, c) PROVE StoreTypeOK'
    <3>1. copy' \in [Readers -> [Cells -> Nat]] /\ unread' \in [Readers -> SUBSET Cells]
      BY <2>0, <2>13 DEF CopyOut
    <3> QED
      BY <2>13, <3>1 DEF CopyOut
  <2>14. ASSUME NEW r \in Readers, EndRead(r) PROVE StoreTypeOK'
    BY <2>14, CellFacts DEF EndRead
  <2>15. ASSUME NEW r \in Readers, KillReader(r) PROVE StoreTypeOK'
    BY <2>15, CellFacts DEF KillReader
  <2>16. CASE UNCHANGED storeVars
    BY <2>16 DEF storeVars
  <2> QED
    BY <2>1, <2>2, <2>3, <2>4, <2>5, <2>6, <2>7, <2>8, <2>9, <2>10, <2>11, <2>12, <2>13,
       <2>14, <2>15, <2>16 DEF StoreNext, WriterStep, ReaderStep
<1> QED
  BY <1>1, <1>2, PTL DEF StoreSpec

-----------------------------------------------------------------------------
\* What each step leaves of the inductive invariant, one conjunct at a time.
LEMMA StoreInductive ==
    ASSUME StoreTypeOK, StoreTypeOK', StoreConsistent, [StoreNext]_storeVars
    PROVE  StoreConsistent'
<1> USE DEF Publishing, Reading, Camera, shared, mutexes, cameras, images
<1>0. /\ created \in Nat /\ MaxStores \in Nat /\ Stores = 1 .. MaxStores
      /\ None \notin Writers /\ None \notin Readers
      /\ \A w \in Writers : w \notin Readers
      /\ Sequence \in Cells /\ Rest \in Cells
  BY BoundAssumption, ProcessAssumption, CellFacts DEF Stores, StoreTypeOK
<1>a. /\ Inside /\ Whole /\ Written /\ Copied /\ Unborn /\ LiveStoreIsNamed
  BY DEF StoreConsistent
<1>b. /\ wpc \in [Writers -> {"gone", "locked", "created"} \cup Publishing]
      /\ rpc \in [Readers -> {"closed", "idle", "changed"} \cup Reading]
      /\ \A v \in Writers : wpc[v] \notin {"gone", "locked"} => wstore[v] \in Stores /\ wstore[v] <= created
      /\ \A v \in Readers : rpc[v] # "closed" => rstore[v] \in Stores /\ rstore[v] <= created
  <2>1. /\ wpc \in [Writers -> {"gone", "locked", "created"} \cup Publishing]
        /\ rpc \in [Readers -> {"closed", "idle", "changed"} \cup Reading]
    BY DEF StoreTypeOK
  <2>2. 1 .. created \subseteq Stores /\ \A j \in 1 .. created : j <= created
    <3>1. created <= MaxStores
      BY <1>0 DEF StoreTypeOK
    <3> QED
      BY <1>0, <3>1
  <2>3. /\ \A v \in Writers : wpc[v] \notin {"gone", "locked"} => wstore[v] \in 1 .. created
        /\ \A v \in Readers : rpc[v] # "closed" => rstore[v] \in 1 .. created
    BY DEF StoreTypeOK
  <2> QED
    BY <2>1, <2>2, <2>3
<1>t. /\ owner \in [Stores -> Writers \cup Readers \cup {None}] /\ dead \in [Stores -> BOOLEAN]
      /\ cells \in [Stores -> [Cells -> Nat]] /\ newest \in [Stores -> Nat]
      /\ frame \in [Writers -> Nat] /\ todo \in [Writers -> SUBSET Cells]
      /\ unread \in [Readers -> SUBSET Cells] /\ rstore \in [Readers -> Stores \cup {NoStore}]
      /\ copy \in [Readers -> [Cells -> Nat]] /\ held \in [Readers -> [Cells -> Nat]]
  BY DEF StoreTypeOK
<1>c. \A u, v \in Writers : wpc[u] # "gone" /\ wpc[v] # "gone" => u = v
  BY <1>a DEF Inside
<1>1. ASSUME NEW w \in Writers, TakeLock(w) PROVE StoreConsistent'
  <2>1. /\ UNCHANGED <<entry, created, owner, dead, cells, wstore, frame, todo, rpc, rstore, unread, copy, held, newest>>
        /\ wpc[w] = "gone" /\ wpc'[w] = "locked" /\ flock' = w
        /\ \A v \in Writers : v # w => wpc'[v] = "gone" /\ wpc[v] = "gone"
    BY <1>0, <1>1, <1>a, <1>b DEF TakeLock, Inside
  <2>2. Inside'
    BY <2>1, <1>a DEF Inside
  <2>3. Whole'
    BY <2>1, <1>a DEF Whole
  <2>4. Written'
    BY <2>1, <1>a DEF Written
  <2>5. Copied'
    BY <2>1, <1>a DEF Copied
  <2>6. Unborn'
    BY <2>1, <1>a DEF Unborn
  <2>7. LiveStoreIsNamed'
    BY <2>1, <1>a DEF LiveStoreIsNamed
  <2> QED
    BY <2>2, <2>3, <2>4, <2>5, <2>6, <2>7 DEF StoreConsistent
<1>2. ASSUME NEW w \in Writers, CreateStore(w) PROVE StoreConsistent'
  BY <1>0, <1>2 DEF CreateStore, StoreTypeOK, StoreConsistent, Inside, Whole, Written, Copied, Unborn, LiveStoreIsNamed
<1>3. ASSUME NEW w \in Writers, PublishStore(w) PROVE StoreConsistent'
  <2>1. /\ UNCHANGED <<flock, created, owner, dead, cells, wstore, frame, todo, rpc, rstore, unread, copy, held, newest>>
        /\ wpc[w] = "created" /\ wpc'[w] = "idle" /\ entry' = wstore[w]
        /\ \A v \in Writers : v # w => wpc'[v] = "gone" /\ wpc[v] = "gone"
    BY <1>3, <1>b, <1>c DEF PublishStore
  <2>2. Inside'
    BY <2>1, <1>a DEF Inside
  <2>3. Whole'
    BY <2>1, <1>a DEF Whole
  <2>4. Written'
    BY <2>1, <1>a DEF Written
  <2>5. Copied'
    BY <2>1, <1>a DEF Copied
  <2>6. Unborn'
    BY <2>1, <1>a DEF Unborn
  <2>7. LiveStoreIsNamed'
    BY <2>1, <1>a DEF LiveStoreIsNamed
  <2> QED
    BY <2>2, <2>3, <2>4, <2>5, <2>6, <2>7 DEF StoreConsistent
<1>4. ASSUME NEW w \in Writers, ReceiveFrame(w) PROVE StoreConsistent'
  <2>1. /\ UNCHANGED <<entry, flock, created, owner, dead, cells, wstore, todo, rpc, rstore, unread, copy, held, newest>>
        /\ wpc[w] = "idle" /\ wpc'[w] = "trying" /\ frame'[w] = frame[w] + 1
        /\ \A v \in Writers : v # w => wpc'[v] = "gone" /\ wpc[v] = "gone" /\ frame'[v] = frame[v]
    BY <1>4, <1>b, <1>c, <1>t DEF ReceiveFrame
  <2>2. Inside' /\ Whole' /\ Unborn' /\ LiveStoreIsNamed'
    BY <2>1, <1>a DEF Inside, Whole, Unborn, LiveStoreIsNamed
  <2>3. Written'
    <3>1. newest[wstore[w]] \in Nat /\ frame[w] \in Nat /\ newest[wstore[w]] < frame'[w]
      BY <2>1, <1>a, <1>b, <1>t DEF Written
    <3> QED
      BY <3>1, <2>1, <1>a DEF Written
  <2>4. Copied'
    BY <2>1, <1>a DEF Copied
  <2> QED
    BY <2>2, <2>3, <2>4 DEF StoreConsistent
<1>5. ASSUME NEW w \in Writers, DropFrame(w) PROVE StoreConsistent'
  <2>1. /\ UNCHANGED <<entry, flock, created, owner, dead, cells, wstore, frame, todo, rpc, rstore, unread, copy, held, newest>>
        /\ wpc[w] = "trying" /\ wpc'[w] = "idle"
        /\ \A v \in Writers : v # w => wpc'[v] = "gone" /\ wpc[v] = "gone"
    BY <1>5, <1>b, <1>c DEF DropFrame
  <2>2. Inside' /\ Whole' /\ Unborn' /\ LiveStoreIsNamed'
    BY <2>1, <1>a DEF Inside, Whole, Unborn, LiveStoreIsNamed
  <2>3. Written'
    <3>1. newest[wstore[w]] \in Nat /\ frame[w] \in Nat /\ newest[wstore[w]] <= frame[w]
      BY <2>1, <1>a, <1>b, <1>t DEF Written
    <3> QED
      BY <3>1, <2>1, <1>a DEF Written
  <2>4. Copied'
    BY <2>1, <1>a DEF Copied
  <2> QED
    BY <2>2, <2>3, <2>4 DEF StoreConsistent
<1>6. ASSUME NEW w \in Writers, BeginPublish(w) PROVE StoreConsistent'
  <2> DEFINE i == wstore[w]
  <2>1. /\ UNCHANGED <<entry, flock, created, wstore, frame, rpc, rstore, unread, copy, held, newest>>
        /\ wpc[w] = "trying" /\ wpc'[w] = "copying" /\ todo'[w] = Cells
        /\ \A v \in Writers : v # w => wpc'[v] = "gone" /\ wpc[v] = "gone"
        /\ i \in Stores /\ i <= created
    BY <1>6, <1>b, <1>c DEF BeginPublish, StoreTypeOK
  <2>2. /\ owner'[i] = w /\ dead'[i] = FALSE
        /\ \A j \in Stores : j # i => owner'[j] = owner[j] /\ dead'[j] = dead[j] /\ cells'[j] = cells[j]
        /\ cells'[i][Sequence] = 0
    BY <1>6, <2>1, <1>0 DEF BeginPublish, Take, StoreTypeOK
  <2>3. \A r \in Readers : rpc[r] \in {"peek", "fetch"} => rstore[r] # i
    BY <1>6, <1>a, <1>0 DEF BeginPublish, Free, Inside
  <2>4. Inside'
    BY <2>1, <2>2, <2>3, <1>a, <1>b DEF Inside
  <2>5. Whole'
    BY <2>1, <2>2, <1>a DEF Whole
  <2>6. Written'
    BY <2>1, <2>2, <1>a DEF Written
  <2>7. Copied'
    BY <2>1, <2>2, <2>3, <1>a, <1>b DEF Copied
  <2>8. Unborn'
    BY <2>1, <2>2, <1>a, <1>0 DEF Unborn
  <2>9. LiveStoreIsNamed'
    BY <2>1, <1>a DEF LiveStoreIsNamed
  <2> QED
    BY <2>4, <2>5, <2>6, <2>7, <2>8, <2>9 DEF StoreConsistent
<1>7. ASSUME NEW w \in Writers, NEW c \in Cells, CopyIn(w, c) PROVE StoreConsistent'
  <2> DEFINE i == wstore[w]
  <2>1. /\ UNCHANGED <<entry, flock, created, owner, dead, wpc, wstore, frame, rpc, rstore, unread, copy, held, newest>>
        /\ wpc[w] = "copying" /\ todo'[w] = todo[w] \ {c}
        /\ \A v \in Writers : v # w => wpc[v] = "gone"
        /\ i \in Stores /\ i <= created /\ owner[i] = w
    BY <1>7, <1>a, <1>b, <1>c, <1>t DEF CopyIn, Inside
  <2>2. /\ \A j \in Stores : j # i => cells'[j] = cells[j]
        /\ cells'[i][c] = frame[w]
        /\ \A d \in Cells : d # c => cells'[i][d] = cells[i][d]
    BY <1>7, <2>1, <1>t DEF CopyIn
  <2>3. \A r \in Readers : rpc[r] \in {"peek", "fetch"} => rstore[r] # i
    BY <2>1, <1>a, <1>0 DEF Inside
  <2>4. Inside'
    BY <2>1, <1>a DEF Inside
  <2>5. Whole'
    BY <2>1, <2>2, <1>a DEF Whole
  <2>6. Written'
    BY <2>1, <2>2, <1>a DEF Written
  <2>7. Copied'
    BY <2>1, <2>2, <2>3, <1>a, <1>b DEF Copied
  <2>8. Unborn'
    BY <2>1, <2>2, <1>a, <1>0 DEF Unborn
  <2>9. LiveStoreIsNamed'
    BY <2>1, <1>a DEF LiveStoreIsNamed
  <2> QED
    BY <2>4, <2>5, <2>6, <2>7, <2>8, <2>9 DEF StoreConsistent
<1>8. ASSUME NEW w \in Writers, EndPublish(w) PROVE StoreConsistent'
  <2> DEFINE i == wstore[w]
  <2>1. /\ UNCHANGED <<entry, flock, created, dead, cells, wstore, frame, todo, rpc, rstore, unread, copy, held>>
        /\ wpc[w] = "copying" /\ wpc'[w] = "idle" /\ todo[w] = {}
        /\ \A v \in Writers : v # w => wpc'[v] = "gone" /\ wpc[v] = "gone"
        /\ i \in Stores /\ i <= created /\ owner[i] = w /\ frame[w] \in Nat
    BY <1>8, <1>a, <1>b, <1>c DEF EndPublish, Release, StoreTypeOK, Inside
  <2>2. /\ owner'[i] = None /\ newest'[i] = frame[w]
        /\ \A j \in Stores : j # i => owner'[j] = owner[j] /\ newest'[j] = newest[j]
    BY <1>8, <2>1, <1>0 DEF EndPublish, Release, StoreTypeOK
  <2>3. /\ \A r \in Readers : rpc[r] \in {"peek", "fetch"} => rstore[r] # i
        /\ newest[i] \in Nat /\ newest[i] < frame[w] /\ \A c \in Cells : cells[i][c] = frame[w]
        /\ \A r \in Readers : held[r][Sequence] \in Nat
    <3>1. \A r \in Readers : rpc[r] \in {"peek", "fetch"} => rstore[r] # i
      BY <2>1, <1>a, <1>0 DEF Inside
    <3>2. newest[i] < frame[w] /\ \A c \in Cells : cells[i][c] = frame[w]
      BY <2>1, <1>a DEF Written
    <3>3. newest[i] \in Nat /\ \A r \in Readers : held[r][Sequence] \in Nat
      BY <2>1, <1>0, <1>t
    <3> QED
      BY <3>1, <3>2, <3>3
  <2>4. Inside'
    BY <2>1, <2>2, <2>3, <1>a, <1>b DEF Inside
  <2>5. Whole'
    BY <2>1, <2>2, <2>3, <1>a DEF Whole
  <2>6. Written'
    BY <2>1, <2>2, <1>a DEF Written
  <2>7. Copied'
    <3> SUFFICES ASSUME NEW r \in Readers, rpc[r] # "closed", rstore[r] = i
                 PROVE  held[r][Sequence] < newest'[i]
      BY <2>1, <2>2, <2>3, <1>a, <1>b, <1>t DEF Copied
    <3> QED
      BY <2>1, <2>2, <2>3, <1>a DEF Copied
  <2>8. Unborn'
    BY <2>1, <2>2, <1>a, <1>0 DEF Unborn
  <2>9. LiveStoreIsNamed'
    BY <2>1, <1>a DEF LiveStoreIsNamed
  <2> QED
    BY <2>4, <2>5, <2>6, <2>7, <2>8, <2>9 DEF StoreConsistent
<1>9. ASSUME NEW w \in Writers, KillWriter(w) PROVE StoreConsistent'
  <2>1. /\ UNCHANGED <<entry, created, owner, cells, rpc, rstore, unread, copy, held, newest>>
        /\ wpc'[w] = "gone" /\ frame'[w] = 0
        /\ \A v \in Writers : v # w => wpc'[v] = "gone" /\ wpc[v] = "gone" /\ frame'[v] = frame[v]
        /\ \A j \in Stores : owner[j] # w => dead'[j] = dead[j]
    BY <1>9, <1>b, <1>c, <1>t DEF KillWriter, Orphan
  <2>2. Inside'
    BY <2>1, <1>a, <1>b, <1>0 DEF Inside
  <2>3. Whole' /\ Unborn' /\ LiveStoreIsNamed'
    BY <2>1, <1>a DEF Whole, Unborn, LiveStoreIsNamed
  <2>4. Written'
    BY <2>1, <1>a DEF Written
  <2>5. Copied'
    BY <2>1, <1>a DEF Copied
  <2> QED
    BY <2>2, <2>3, <2>4, <2>5 DEF StoreConsistent
<1>10. ASSUME NEW r \in Readers, OpenStore(r) PROVE StoreConsistent'
  <2>1. /\ UNCHANGED <<entry, flock, created, owner, dead, cells, wpc, wstore, frame, todo, unread, copy, held, newest>>
        /\ rpc[r] = "closed" /\ rpc'[r] = "idle" /\ rstore'[r] = entry /\ entry \in Stores
        /\ \A v \in Readers : v # r => rpc'[v] = rpc[v] /\ rstore'[v] = rstore[v]
    BY <1>10, <1>b, <1>t, <1>0 DEF OpenStore, StoreTypeOK, NoStore
  <2>2. Inside' /\ Whole' /\ Written' /\ Unborn' /\ LiveStoreIsNamed'
    BY <2>1, <1>a DEF Inside, Whole, Written, Unborn, LiveStoreIsNamed
  <2>3. Copied'
    <3>1. newest[entry] \in Nat /\ held[r][Sequence] = 0
      BY <2>1, <1>a, <1>t DEF Copied
    <3> QED
      BY <3>1, <2>1, <1>a DEF Copied
  <2> QED
    BY <2>2, <2>3 DEF StoreConsistent
<1>11. ASSUME NEW r \in Readers, BeginRead(r) PROVE StoreConsistent'
  <2> DEFINE i == rstore[r]
  <2>1. /\ UNCHANGED <<entry, flock, created, wpc, wstore, frame, todo, rstore, held, newest>>
        /\ rpc[r] \in {"idle", "changed"} /\ rpc'[r] = IF rpc[r] = "idle" THEN "peek" ELSE "fetch"
        /\ unread'[r] = IF rpc[r] = "idle" THEN {Sequence, Rest} ELSE Cells
        /\ \A v \in Readers : v # r => rpc'[v] = rpc[v] /\ unread'[v] = unread[v] /\ copy'[v] = copy[v]
        /\ i \in Stores /\ i <= created
    BY <1>11, <1>b DEF BeginRead, StoreTypeOK
  <2>2. /\ owner'[i] = r /\ dead'[i] = FALSE
        /\ \A j \in Stores : j # i => owner'[j] = owner[j] /\ dead'[j] = dead[j] /\ cells'[j] = cells[j]
        /\ cells'[i][Sequence] = (IF dead[i] THEN 0 ELSE cells[i][Sequence])
        /\ \A c \in Cells : c # Sequence => cells'[i][c] = cells[i][c]
    BY <1>11, <2>1, <1>0 DEF BeginRead, Take, Recovered, StoreTypeOK
  <2>3. /\ \A v \in Readers : rpc[v] \in {"peek", "fetch"} => rstore[v] # i
        /\ \A v \in Writers : wpc[v] = "copying" => wstore[v] # i
        /\ ~dead[i] => owner[i] = None
    BY <1>11, <2>1, <1>a, <1>0 DEF BeginRead, Free, Inside
  <2>4. Inside'
    BY <2>1, <2>2, <2>3, <1>a, <1>b, <1>0 DEF Inside
  <2>5. Whole'
    BY <2>1, <2>2, <2>3, <1>a, <1>0 DEF Whole
  <2>6. Written'
    BY <2>1, <2>2, <2>3, <1>a, <1>b DEF Written
  <2>7. Copied'
    BY <2>1, <2>2, <2>3, <1>a, <1>b DEF Copied
  <2>8. Unborn'
    BY <2>1, <2>2, <1>a, <1>0 DEF Unborn
  <2>9. LiveStoreIsNamed'
    BY <2>1, <1>a DEF LiveStoreIsNamed
  <2> QED
    BY <2>4, <2>5, <2>6, <2>7, <2>8, <2>9 DEF StoreConsistent
<1>12. ASSUME NEW r \in Readers, ReadBusy(r) PROVE StoreConsistent'
  <2>1. /\ UNCHANGED <<entry, flock, created, owner, dead, cells, wpc, wstore, frame, todo, rstore, unread, copy, held, newest>>
        /\ rpc[r] = "changed" /\ rpc'[r] = "idle"
        /\ \A v \in Readers : v # r => rpc'[v] = rpc[v]
    BY <1>12, <1>b DEF ReadBusy
  <2>2. Inside' /\ Whole' /\ Written' /\ Unborn' /\ LiveStoreIsNamed'
    BY <2>1, <1>a DEF Inside, Whole, Written, Unborn, LiveStoreIsNamed
  <2>3. Copied'
    BY <2>1, <1>a, <1>b DEF Copied
  <2> QED
    BY <2>2, <2>3 DEF StoreConsistent
<1>13. ASSUME NEW r \in Readers, NEW c \in Cells, CopyOut(r, c) PROVE StoreConsistent'
  <2>1. /\ UNCHANGED <<entry, flock, created, owner, dead, cells, wpc, wstore, frame, todo, rpc, rstore, held, newest>>
        /\ unread'[r] = unread[r] \ {c} /\ copy'[r][c] = cells[rstore[r]][c]
        /\ \A d \in Cells : d # c => copy'[r][d] = copy[r][d]
        /\ \A v \in Readers : v # r => unread'[v] = unread[v] /\ copy'[v] = copy[v]
    BY <1>13, <1>t DEF CopyOut
  <2>2. Inside' /\ Whole' /\ Written' /\ Unborn' /\ LiveStoreIsNamed'
    BY <2>1, <1>a DEF Inside, Whole, Written, Unborn, LiveStoreIsNamed
  <2>3. Copied'
    BY <2>1, <1>a DEF Copied
  <2> QED
    BY <2>2, <2>3 DEF StoreConsistent
<1>14. ASSUME NEW r \in Readers, EndRead(r) PROVE StoreConsistent'
  <2> DEFINE i == rstore[r]
             full == rpc[r] = "fetch" /\ cells[i][Sequence] # 0
  <2>1. /\ UNCHANGED <<entry, flock, created, dead, cells, wpc, wstore, frame, todo, rstore, newest>>
        /\ rpc[r] \in {"peek", "fetch"} /\ rpc'[r] \in {"idle", "changed"}
        /\ rpc'[r] = "changed" => /\ rpc[r] = "peek" /\ unread[r] = {} /\ cells[i][Sequence] # 0
                                  /\ copy[r][Sequence] # held[r][Sequence]
        /\ full => unread[r] = {}
        /\ held'[r] = IF full THEN copy[r] ELSE held[r]
        /\ \A v \in Readers : v # r => rpc'[v] = rpc[v] /\ unread'[v] = unread[v] /\ copy'[v] = copy[v] /\ held'[v] = held[v]
        /\ i \in Stores /\ i <= created
    BY <1>14, <1>b, <1>t, SMTT(30) DEF EndRead, Release
  <2>2. /\ owner'[i] = None /\ owner[i] = r
        /\ \A j \in Stores : j # i => owner'[j] = owner[j]
        /\ \A v \in Readers : v # r /\ rpc[v] \in {"peek", "fetch"} => rstore[v] # i
        /\ \A v \in Writers : wpc[v] = "copying" => wstore[v] # i
    <3>1. owner[i] = r /\ \A v \in Readers : rpc[v] \in {"peek", "fetch"} => owner[rstore[v]] = v
      BY <2>1, <1>a DEF Inside
    <3>2. owner' = [owner EXCEPT ![i] = None]
      BY <1>14 DEF EndRead, Release
    <3>3. owner'[i] = None /\ \A j \in Stores : j # i => owner'[j] = owner[j]
      BY <2>1, <3>2, <1>t
    <3>4. \A v \in Readers : v # r /\ rpc[v] \in {"peek", "fetch"} => rstore[v] # i
      BY <3>1
    <3>5. \A v \in Writers : wpc[v] = "copying" => wstore[v] # i
      BY <3>1, <1>a, <1>0 DEF Inside
    <3> QED
      BY <3>1, <3>3, <3>4, <3>5
  <2>3. /\ newest[i] \in Nat /\ held[r][Sequence] \in Nat
        /\ cells[i][Sequence] # 0 => \A c \in Cells : cells[i][c] = newest[i]
        /\ full => \A c \in Cells : copy[r][c] = newest[i]
        /\ rpc'[r] = "changed" => copy[r][Sequence] = newest[i]
    <3>1. newest[i] \in Nat /\ held[r][Sequence] \in Nat
      BY <2>1, <1>0, <1>t
    <3>2. cells[i][Sequence] # 0 => \A c \in Cells : cells[i][c] = newest[i]
      BY <2>1, <2>2, <1>a, <1>0 DEF Whole
    <3>3. \A c \in Cells \ unread[r] : rpc[r] = "fetch" \/ c = Sequence => copy[r][c] = cells[i][c]
      BY <2>1, <1>a DEF Copied
    <3> QED
      BY <3>1, <3>2, <3>3, <2>1, <1>0
  <2>4. Inside'
    BY <2>1, <2>2, <1>a, <1>b, <1>0 DEF Inside
  <2>5. Whole'
    BY <2>1, <2>2, <1>a, <1>0 DEF Whole
  <2>6. Written'
    BY <2>1, <1>a DEF Written
  <2>7. Copied'
    <3>1. ASSUME NEW v \in Readers, v # r
          PROVE  /\ rpc'[v] \in Reading => \A c \in Cells \ unread'[v] :
                       rpc'[v] = "fetch" \/ c = Sequence => copy'[v][c] = cells'[rstore'[v]][c]
                 /\ \A c \in Cells : held'[v][c] = held'[v][Sequence]
                 /\ rpc'[v] = "closed" => held'[v][Sequence] = 0 /\ rstore'[v] = NoStore
                 /\ rpc'[v] # "closed" => held'[v][Sequence] <= newest'[rstore'[v]]
                 /\ rpc'[v] \in {"changed", "fetch"} => held'[v][Sequence] < newest'[rstore'[v]]
      BY <3>1, <2>1, <1>a DEF Copied
    <3>2. /\ \A c \in Cells : held'[r][c] = held'[r][Sequence]
          /\ held'[r][Sequence] <= newest[i]
          /\ rpc'[r] = "changed" => held'[r][Sequence] < newest[i]
      BY <2>1, <2>3, <1>a, <1>0 DEF Copied
    <3> QED
      BY <3>1, <3>2, <2>1 DEF Copied
  <2>8. Unborn'
    BY <2>1, <2>2, <1>a, <1>0 DEF Unborn
  <2>9. LiveStoreIsNamed'
    BY <2>1, <1>a DEF LiveStoreIsNamed
  <2> QED
    BY <2>4, <2>5, <2>6, <2>7, <2>8, <2>9 DEF StoreConsistent
<1>15. ASSUME NEW r \in Readers, KillReader(r) PROVE StoreConsistent'
  <2>1. /\ UNCHANGED <<entry, flock, created, owner, cells, wpc, wstore, frame, todo, newest>>
        /\ rpc'[r] = "closed" /\ held'[r] = Blank /\ rstore'[r] = NoStore
        /\ \A v \in Readers : v # r => /\ rpc'[v] = rpc[v] /\ unread'[v] = unread[v] /\ copy'[v] = copy[v]
                                       /\ held'[v] = held[v] /\ rstore'[v] = rstore[v]
        /\ \A j \in Stores : owner[j] # r => dead'[j] = dead[j]
    BY <1>15, <1>b DEF KillReader, Orphan, StoreTypeOK
  <2>2. Inside'
    BY <2>1, <1>a, <1>b, <1>0 DEF Inside
  <2>3. Whole' /\ Written' /\ Unborn' /\ LiveStoreIsNamed'
    BY <2>1, <1>a DEF Whole, Written, Unborn, LiveStoreIsNamed
  <2>4. Copied'
    BY <2>1, <1>a, CellFacts DEF Copied
  <2> QED
    BY <2>2, <2>3, <2>4 DEF StoreConsistent
<1>16. CASE UNCHANGED storeVars
  BY <1>16 DEF storeVars, StoreConsistent, Inside, Whole, Written, Copied, Unborn, LiveStoreIsNamed
<1> QED
  BY <1>1, <1>2, <1>3, <1>4, <1>5, <1>6, <1>7, <1>8, <1>9, <1>10, <1>11, <1>12, <1>13,
     <1>14, <1>15, <1>16 DEF StoreNext, WriterStep, ReaderStep

\* The inductive invariant holds of every run of the store.
THEOREM StoreSafe == StoreSpec => []StoreConsistent
<1>1. StoreInit => StoreConsistent
  BY CellFacts, BoundAssumption, ProcessAssumption
  DEF StoreInit, StoreConsistent, Inside, Whole, Written, Copied, Unborn, LiveStoreIsNamed,
      Stores, NoStore, Publishing, Reading
<1>2. StoreTypeOK /\ StoreTypeOK' /\ StoreConsistent /\ [StoreNext]_storeVars => StoreConsistent'
  BY StoreInductive
<1> QED
  BY <1>1, <1>2, StoreTypes, PTL DEF StoreSpec

\* No reader ever returns a torn frame, a frame left published is whole, and the
\* store that is opened is the one the running camera publishes to.
THEOREM ReadsAreWhole == StoreSpec => [](StoreIsSafe /\ PublishedIsWhole /\ LiveStoreIsNamed)
<1>1. StoreConsistent => StoreIsSafe /\ PublishedIsWhole /\ LiveStoreIsNamed
  BY ProcessAssumption, CellFacts
  DEF StoreIsSafe, StoreConsistent, Whole, Copied, NoTornFrame, PublishedIsWhole
<1> QED
  BY <1>1, StoreSafe, PTL

-----------------------------------------------------------------------------
\* Every step of the store is a step of the register or leaves it alone.
LEMMA StepRefines ==
    ASSUME StoreTypeOK, StoreTypeOK', StoreConsistent, [StoreNext]_storeVars
    PROVE  [Register!Next]_(Register!vars)
<1> USE DEF Publishing, Reading, Camera, shared, mutexes, cameras, images
<1>0. /\ None \notin Writers /\ None \notin Readers
      /\ \A w \in Writers : w \notin Readers
      /\ Sequence \in Cells /\ Register!Stores = Stores
  BY ProcessAssumption, CellFacts DEF Stores, Register!Stores
<1>t. /\ owner \in [Stores -> Writers \cup Readers \cup {None}] /\ dead \in [Stores -> BOOLEAN]
      /\ cells \in [Stores -> [Cells -> Nat]] /\ newest \in [Stores -> Nat]
      /\ frame \in [Writers -> Nat] /\ rstore \in [Readers -> Stores \cup {NoStore}]
      /\ copy \in [Readers -> [Cells -> Nat]] /\ held \in [Readers -> [Cells -> Nat]]
      /\ \A v \in Writers : wpc[v] \notin {"gone", "locked"} => wstore[v] \in Stores
      /\ \A v \in Readers : rpc[v] # "closed" => rstore[v] \in Stores
  <2>1. created \in 0 .. MaxStores /\ 1 .. created \subseteq Stores
    BY BoundAssumption DEF StoreTypeOK, Stores
  <2>2. /\ \A v \in Writers : wpc[v] \notin {"gone", "locked"} => wstore[v] \in Stores
        /\ \A v \in Readers : rpc[v] # "closed" => rstore[v] \in Stores
    BY <2>1 DEF StoreTypeOK
  <2> QED
    BY <2>2 DEF StoreTypeOK
<1>s. StoreConsistent
  OBVIOUS
\* Steps that leave the register alone.
<1>u. ASSUME UNCHANGED <<entry, owner, cells, newest, rstore, held>>
      PROVE  UNCHANGED Register!vars
  BY <1>u DEF Register!vars, Current, Held
<1>1. ASSUME NEW w \in Writers,
             TakeLock(w) \/ CreateStore(w) \/ ReceiveFrame(w) \/ DropFrame(w) \/ KillWriter(w)
      PROVE  UNCHANGED Register!vars
  BY <1>1, <1>u DEF TakeLock, CreateStore, ReceiveFrame, DropFrame, KillWriter, Orphan
<1>2. ASSUME NEW r \in Readers, ReadBusy(r) \/ \E c \in Cells : CopyOut(r, c)
      PROVE  UNCHANGED Register!vars
  BY <1>2, <1>u DEF ReadBusy, CopyOut
<1>3. ASSUME NEW w \in Writers, PublishStore(w) PROVE Register!Next
  <2>1. /\ wstore[w] \in Stores /\ wstore[w] > entry /\ entry' = wstore[w]
        /\ UNCHANGED <<owner, cells, newest, rstore, held>>
        /\ cells[wstore[w]][Sequence] = 0
    BY <1>3, <1>s, <1>t DEF PublishStore, StoreConsistent, Written, StoreTypeOK, Stores
  <2>2. Current[wstore[w]] = 0 /\ Current' = Current /\ Held' = Held
    BY <2>1 DEF Current, Held
  <2>3. Register!Replace(wstore[w])
    BY <2>1, <2>2 DEF Register!Replace
  <2> QED
    BY <2>1, <2>3, <1>0 DEF Register!Next
<1>4. ASSUME NEW w \in Writers, BeginPublish(w) PROVE Register!Next
  <2>1. /\ wstore[w] \in Stores /\ owner' = [owner EXCEPT ![wstore[w]] = w]
        /\ \A j \in Stores : j # wstore[w] => cells'[j] = cells[j]
        /\ UNCHANGED <<entry, newest, rstore, held>>
    BY <1>4, <1>t DEF BeginPublish, Take
  <2>2. Current' = [Current EXCEPT ![wstore[w]] = 0] /\ Held' = Held
    BY <2>1, <1>t DEF Current, Held
  <2>3. Register!Empty(wstore[w])
    BY <2>1, <2>2 DEF Register!Empty
  <2> QED
    BY <2>1, <2>3, <1>0 DEF Register!Next
<1>5. ASSUME NEW w \in Writers, NEW c \in Cells, CopyIn(w, c) PROVE UNCHANGED Register!vars
  <2>1. /\ wstore[w] \in Stores /\ owner[wstore[w]] = w
        /\ \A j \in Stores : j # wstore[w] => cells'[j] = cells[j]
        /\ UNCHANGED <<entry, owner, newest, rstore, held>>
    BY <1>5, <1>t, <1>s DEF CopyIn, StoreConsistent, Inside
  <2> QED
    BY <2>1 DEF Register!vars, Current, Held
<1>6. ASSUME NEW w \in Writers, EndPublish(w) PROVE Register!Next
  <2> DEFINE i == wstore[w]
  <2>1. /\ i \in Stores /\ owner' = [owner EXCEPT ![i] = None]
        /\ newest' = [newest EXCEPT ![i] = frame[w]]
        /\ UNCHANGED <<entry, cells, rstore, held>>
    BY <1>6, <1>t DEF EndPublish, Release
  <2>2. cells[i][Sequence] = frame[w] /\ newest[i] < frame[w]
    BY <1>6, <1>s, <1>0 DEF EndPublish, StoreConsistent, Written
  <2>3. /\ newest'[i] = frame[w] /\ Held' = Held
        /\ Current' = [Current EXCEPT ![i] = newest'[i]]
    BY <2>1, <2>2, <1>t, <1>0 DEF Current, Held
  <2>4. Register!Publish(i)
    BY <2>1, <2>2, <2>3, <1>t DEF Register!Publish
  <2> QED
    BY <2>1, <2>4, <1>0 DEF Register!Next
<1>7. ASSUME NEW r \in Readers, OpenStore(r) PROVE Register!Next
  <2>1. /\ rstore[r] = 0 /\ entry # 0 /\ rstore' = [rstore EXCEPT ![r] = entry]
        /\ UNCHANGED <<entry, owner, cells, newest, held>>
    BY <1>7, <1>s DEF OpenStore, StoreConsistent, Copied, NoStore
  <2>2. Register!Open(r)
    BY <2>1 DEF Register!Open, Current, Held
  <2> QED
    BY <2>2 DEF Register!Next
<1>8. ASSUME NEW r \in Readers, BeginRead(r) PROVE [Register!Next]_(Register!vars)
  <2> DEFINE i == rstore[r]
  <2>1. /\ i \in Stores /\ owner' = [owner EXCEPT ![i] = r]
        /\ \A j \in Stores : j # i => cells'[j] = cells[j]
        /\ cells'[i][Sequence] = (IF dead[i] THEN 0 ELSE cells[i][Sequence])
        /\ owner[i] = None \/ dead[i]
        /\ UNCHANGED <<entry, newest, rstore, held>>
    BY <1>8, <1>t, <1>0 DEF BeginRead, Take, Free, Recovered
  <2>2. Held' = Held
    BY <2>1 DEF Held
  <2>3. CASE dead[i]
    <3>1. Current' = [Current EXCEPT ![i] = 0]
      BY <2>1, <2>3, <1>t, <1>0 DEF Current
    <3>2. Register!Empty(i)
      BY <2>1, <2>2, <3>1 DEF Register!Empty
    <3> QED
      BY <2>1, <3>2, <1>0 DEF Register!Next
  <2>4. CASE ~dead[i]
    <3>1. Current' = Current
      BY <2>1, <2>4, <1>t, <1>0 DEF Current
    <3> QED
      BY <2>1, <2>2, <3>1 DEF Register!vars
  <2> QED
    BY <2>3, <2>4
<1>9. ASSUME NEW r \in Readers, EndRead(r) PROVE [Register!Next]_(Register!vars)
  <2> DEFINE i == rstore[r]
             full == rpc[r] = "fetch" /\ cells[i][Sequence] # 0
  <2>1. /\ i \in Stores /\ owner' = [owner EXCEPT ![i] = None] /\ owner[i] = r
        /\ held' = [held EXCEPT ![r] = IF full THEN copy[r] ELSE held[r]]
        /\ full => unread[r] = {}
        /\ UNCHANGED <<entry, cells, newest, rstore>>
    BY <1>9, <1>t, <1>s DEF EndRead, Release, StoreConsistent, Inside
  <2>2. Current' = Current /\ Current[i] = cells[i][Sequence]
    BY <2>1, <1>t, <1>0 DEF Current
  <2>3. CASE full
    <3>1. copy[r][Sequence] = cells[i][Sequence] /\ held[r][Sequence] < newest[i]
      BY <2>1, <2>3, <1>s, <1>0 DEF StoreConsistent, Copied
    <3>2. cells[i][Sequence] = newest[i]
      BY <2>1, <2>3, <1>s, <1>0 DEF StoreConsistent, Whole
    <3>3. Held' = [Held EXCEPT ![r] = Current[i]]
      BY <2>1, <2>2, <2>3, <3>1, <1>t DEF Held
    <3>4. Register!Read(r)
      <4>1. i # 0
        BY <2>1 DEF Stores
      <4>2. Current[i] > Held[r]
        BY <2>1, <2>2, <3>1, <3>2, <1>t, <1>0 DEF Held
      <4> QED
        BY <2>1, <2>2, <3>3, <4>1, <4>2 DEF Register!Read
    <3> QED
      BY <3>4 DEF Register!Next
  <2>4. CASE ~full
    <3>1. Held' = Held
      BY <2>1, <2>4, <1>t DEF Held
    <3> QED
      BY <2>1, <2>2, <3>1 DEF Register!vars
  <2> QED
    BY <2>3, <2>4
<1>10. ASSUME NEW r \in Readers, KillReader(r) PROVE Register!Next
  <2>1. /\ rstore' = [rstore EXCEPT ![r] = 0] /\ held' = [held EXCEPT ![r] = Blank]
        /\ UNCHANGED <<entry, owner, cells, newest>>
    BY <1>10 DEF KillReader, Orphan, NoStore
  <2>2. Held' = [Held EXCEPT ![r] = 0] /\ Current' = Current
    BY <2>1, <1>t, CellFacts DEF Held, Current
  <2>3. Register!Close(r)
    BY <2>1, <2>2 DEF Register!Close
  <2> QED
    BY <2>3 DEF Register!Next
<1>11. CASE UNCHANGED storeVars
  BY <1>11, <1>u DEF storeVars
<1> QED
  BY <1>1, <1>2, <1>3, <1>4, <1>5, <1>6, <1>7, <1>8, <1>9, <1>10, <1>11
  DEF StoreNext, WriterStep, ReaderStep

\* The store implements an atomic register per store: a reader gets the latest
\* published frame or none, and never an older one after a newer one.
THEOREM StoreIsRegister == StoreSpec => RegisterSpec
<1>1. StoreInit => Register!Init
  BY CellFacts, ProcessAssumption DEF StoreInit, Register!Init, Current, Held, Stores, Register!Stores, NoStore
<1>2. StoreTypeOK /\ StoreTypeOK' /\ StoreConsistent /\ [StoreNext]_storeVars => [Register!Next]_(Register!vars)
  BY StepRefines
<1> QED
  BY <1>1, <1>2, StoreTypes, StoreSafe, PTL DEF StoreSpec, RegisterSpec, Register!Spec

-----------------------------------------------------------------------------
(* The recorder's pairs (TakeCapture).                                     *)

\* A frame is never newer than its arrival, an image's exposure is its number,
\* and what the recorder has seen is not newer than the store.
Clocks ==
    \A k \in Cams :
        /\ ir[k].exp = ir[k].seq /\ ir[k].seq <= ir[k].at /\ ir[k].at <= now
        /\ depth[k].seq <= depth[k].at /\ depth[k].at <= now
        /\ seen[k].exp = seen[k].seq /\ seen[k].seq <= ir[k].seq

\* What the recorder has seen is not older than the last pair, whose numbers it
\* remembers; what it found fresh is newer, and its depth of the same exposure.
PairInv ==
    /\ \A k \in Cams : pair.ir[k].exp <= seen[k].exp
    /\ recorded > 0 => \A k \in Cams : lastIr[k] = pair.ir[k].exp
    /\ recorded = 0 => pair = NoPair
    /\ tick \in {"depth", "decide"} /\ fresh => \A k \in Cams : seen[k].exp > pair.ir[k].exp
    /\ tick = "decide" /\ fresh => \A k \in Depths : SameExposure(seenDepth[k], seen[k])

\* A read leaves the old frame or brings the one in the store.
LEMMA ReadFacts ==
    ASSUME NEW store, NEW old, NEW read \in Reads(store, old)
    PROVE  /\ read.ok \in BOOLEAN
           /\ read.ok => read.frame = store /\ store.seq # 0
           /\ ~read.ok => read.frame = old
           /\ read.frame \in {store, old}
<1>1. read = [ok |-> FALSE, frame |-> old] \/ (store.seq # 0 /\ read = [ok |-> TRUE, frame |-> store])
  BY DEF Reads
<1>2. CASE read = [ok |-> FALSE, frame |-> old]
  <2>1. read.ok = FALSE /\ read.frame = old
    BY <1>2
  <2> QED
    BY <2>1
<1>3. CASE store.seq # 0 /\ read = [ok |-> TRUE, frame |-> store]
  <2>1. read.ok = TRUE /\ read.frame = store
    BY <1>3
  <2> QED
    BY <1>3, <2>1
<1> QED
  BY <1>1, <1>2, <1>3

LEMMA FrameFacts ==
    /\ \A f \in Frame : f.seq \in 0 .. MaxTime /\ f.exp \in 0 .. MaxTime + 1 /\ f.at \in 0 .. MaxTime
    /\ NoFrame \in Frame /\ NoFrame.seq = 0 /\ NoFrame.exp = 0 /\ NoFrame.at = 0
    /\ MaxTime \in Nat /\ 1 \in Cams /\ 2 \in Cams /\ \A k \in Cams : k = 1 \/ k = 2
BY SpacingAssumption DEF Frame, NoFrame, Cams

LEMMA ReadTypes ==
    ASSUME NEW store \in Frame, NEW old \in Frame, NEW read \in Reads(store, old)
    PROVE  read.frame \in Frame /\ Marked(read) \in 0 .. MaxTime
BY ReadFacts, FrameFacts DEF Marked

\* The reads of the depth stores: what the recorder holds of each afterwards.
LEMMA DepthReads ==
    ASSUME depth \in [Cams -> Frame], seenDepth \in [Cams -> Frame],
           NEW read \in [Depths -> UNION {Reads(depth[k], seenDepth[k]) : k \in Depths}],
           \A k \in Depths : read[k] \in Reads(depth[k], seenDepth[k])
    PROVE  /\ [k \in Cams |-> IF k \in Depths THEN read[k].frame ELSE seenDepth[k]] \in [Cams -> Frame]
           /\ [k \in Cams |-> IF k \in Depths THEN Marked(read[k]) ELSE 0] \in [Cams -> 0 .. MaxTime]
<1>1. ASSUME NEW k \in Depths PROVE read[k].frame \in Frame /\ Marked(read[k]) \in 0 .. MaxTime
  <2>1. k \in Cams
    BY <1>1, DepthAssumption
  <2> QED
    BY <2>1, ReadTypes
<1> QED
  BY <1>1, FrameFacts

\* An image that was read leaves the clocks right.
LEMMA SeenKept ==
    ASSUME CaptureTypeOK, Clocks, UNCHANGED <<now, ir, depth>>,
           \A k \in Cams : seen'[k] \in {ir[k], seen[k]}
    PROVE  Clocks'
<1>1. ASSUME NEW k \in Cams PROVE seen'[k].exp = seen'[k].seq /\ seen'[k].seq <= ir[k].seq
  <2>1. ir[k].seq \in Nat /\ ir[k].exp = ir[k].seq /\ seen[k].exp = seen[k].seq /\ seen[k].seq <= ir[k].seq
    BY FrameFacts DEF CaptureTypeOK, Clocks
  <2>2. CASE seen'[k] = ir[k]
    BY <2>1, <2>2
  <2>3. CASE seen'[k] = seen[k]
    BY <2>1, <2>3
  <2> QED
    BY <2>2, <2>3
<1> QED
  BY <1>1 DEF Clocks

LEMMA CaptureStep ==
    ASSUME CaptureTypeOK, Clocks, [CaptureNext]_captureVars
    PROVE  CaptureTypeOK' /\ Clocks'
<1> USE FrameFacts DEF CaptureTypeOK, Clocks
<1>1. CASE Advance
  BY <1>1 DEF Advance, stores, cache, take
<1>2. ASSUME NEW k \in Cams, IrArrives(k) PROVE CaptureTypeOK' /\ Clocks'
  <2>1. Successor(ir[k], 0) \in Frame
    <3>1. ir[k] \in Frame /\ now \in 0 .. MaxTime /\ ir[k].seq < now /\ ir[k].exp < now
      BY <1>2 DEF IrArrives
    <3>2. ir[k].seq + 1 \in 0 .. MaxTime /\ ir[k].exp + 1 + 0 \in 0 .. MaxTime + 1
      BY <3>1
    <3> QED
      BY <3>1, <3>2 DEF Successor, Frame
  <2>2. ir' = [ir EXCEPT ![k] = Successor(ir[k], 0)]
    BY <1>2 DEF IrArrives
  <2>3. ir' \in [Cams -> Frame]
    BY <2>1, <2>2
  <2>4. \A j \in Cams : ir'[j] = IF j = k THEN Successor(ir[k], 0) ELSE ir[j]
    BY <2>2
  <2>5. Successor(ir[k], 0).seq = ir[k].seq + 1 /\ Successor(ir[k], 0).exp = ir[k].exp + 1 /\ Successor(ir[k], 0).at = now
    BY DEF Successor
  <2>6. UNCHANGED <<now, depth, tick, cache, fresh, capture, take, pair>>
    BY <1>2 DEF IrArrives
  <2>7. Clocks'
    <3> SUFFICES ASSUME NEW j \in Cams
                 PROVE  /\ ir'[j].exp = ir'[j].seq /\ ir'[j].seq <= ir'[j].at /\ ir'[j].at <= now
                        /\ seen[j].seq <= ir'[j].seq
      BY <2>6 DEF cache
    <3>1. ir[j].at < now \/ j # k
      BY <1>2 DEF IrArrives
    <3> QED
      BY <2>4, <2>5, <3>1
  <2> QED
    BY <2>3, <2>6, <2>7 DEF cache, take
<1>3. ASSUME NEW k \in Depths, DepthArrives(k) PROVE CaptureTypeOK' /\ Clocks'
  <2>0. k \in Cams
    BY DepthAssumption
  <2>1. PICK skipped \in 0 .. 1 : /\ depth[k].exp + skipped <= ir[k].exp
                                  /\ depth' = [depth EXCEPT ![k] = Successor(depth[k], skipped)]
    BY <1>3 DEF DepthArrives
  <2>2. depth[k].at < now /\ UNCHANGED <<now, ir, tick, cache, fresh, capture, take, pair>>
    BY <1>3 DEF DepthArrives
  <2>3. /\ Successor(depth[k], skipped).seq = depth[k].seq + 1 /\ Successor(depth[k], skipped).at = now
        /\ Successor(depth[k], skipped) \in Frame
    <3>1. depth[k] \in Frame /\ ir[k] \in Frame /\ now \in 0 .. MaxTime /\ ir[k].exp <= now /\ depth[k].seq < now
      BY <2>0, <2>2
    <3>2. depth[k].seq + 1 \in 0 .. MaxTime /\ depth[k].exp + 1 + skipped \in 0 .. MaxTime + 1
      BY <2>1, <3>1
    <3> QED
      BY <3>1, <3>2 DEF Successor, Frame
  <2>4. depth' \in [Cams -> Frame]
    BY <2>0, <2>1, <2>3
  <2>5. \A j \in Cams : depth'[j] = IF j = k THEN Successor(depth[k], skipped) ELSE depth[j]
    BY <2>0, <2>1
  <2>6. \A j \in Cams : depth'[j].seq <= depth'[j].at /\ depth'[j].at <= now
    BY <2>0, <2>2, <2>3, <2>5
  <2> QED
    BY <2>2, <2>4, <2>6 DEF cache, take
<1>4. CASE StartTake
  <2>1. PICK a \in Reads(ir[1], seen[1]), b \in Reads(ir[2], seen[2]) :
            seen' = <<a.frame, b.frame>> /\ lastIr' = <<Marked(a), Marked(b)>>
    BY <1>4 DEF StartTake
  <2>2. PICK read \in [Depths -> UNION {Reads(depth[k], seenDepth[k]) : k \in Depths}] :
            /\ \A k \in Depths : read[k] \in Reads(depth[k], seenDepth[k])
            /\ seenDepth' = [k \in Cams |-> IF k \in Depths THEN read[k].frame ELSE seenDepth[k]]
            /\ lastDepth' = [k \in Cams |-> IF k \in Depths THEN Marked(read[k]) ELSE 0]
    BY <1>4 DEF StartTake
  <2>3. seenDepth' \in [Cams -> Frame] /\ lastDepth' \in [Cams -> 0 .. MaxTime]
    BY <2>2, DepthReads
  <2>4. /\ a.frame \in Frame /\ b.frame \in Frame /\ Marked(a) \in 0 .. MaxTime /\ Marked(b) \in 0 .. MaxTime
        /\ a.frame \in {ir[1], seen[1]} /\ b.frame \in {ir[2], seen[2]}
    <3>1. ir[1] \in Frame /\ ir[2] \in Frame /\ seen[1] \in Frame /\ seen[2] \in Frame
      OBVIOUS
    <3>2. a.frame \in Frame /\ Marked(a) \in 0 .. MaxTime /\ b.frame \in Frame /\ Marked(b) \in 0 .. MaxTime
      BY <3>1, ReadTypes
    <3>3. a.frame \in {ir[1], seen[1]}
      BY ReadFacts
    <3>4. b.frame \in {ir[2], seen[2]}
      BY ReadFacts
    <3> QED
      BY <3>2, <3>3, <3>4
  <2>5. /\ seen' \in [Cams -> Frame] /\ lastIr' \in [Cams -> 0 .. MaxTime]
        /\ seen'[1] = a.frame /\ seen'[2] = b.frame
    BY <2>1, <2>4 DEF Cams
  <2>6. /\ UNCHANGED <<now, stores, fresh, capture, lastMaster>> /\ tick' = "images"
        /\ recorded' = 0 /\ lastFrame' = now /\ pair' = NoPair
    BY <1>4 DEF StartTake, TickPasses
  <2>7. NoPair \in [ir : [Cams -> Frame], depth : [Cams -> Frame], at : 0 .. MaxTime]
    BY DEF NoPair
  <2>8. CaptureTypeOK'
    BY <2>3, <2>5, <2>6, <2>7 DEF stores
  <2>9. Clocks'
    <3>1. \A k \in Cams : seen'[k] \in {ir[k], seen[k]}
      BY <2>4, <2>5
    <3> QED
      BY <2>6, <3>1, SeenKept DEF stores
  <2> QED
    BY <2>8, <2>9
<1>5. CASE ReadImages
  <2>1. PICK a \in Reads(ir[1], seen[1]), b \in Reads(ir[2], seen[2]) :
            /\ seen' = <<a.frame, IF a.ok THEN b.frame ELSE seen[2]>>
            /\ fresh' = (a.ok /\ b.ok /\ Paired(a.frame, b.frame, now))
    BY <1>5 DEF ReadImages
  <2>2. a.frame \in Frame /\ b.frame \in Frame /\ a.frame \in {ir[1], seen[1]} /\ b.frame \in {ir[2], seen[2]}
    <3>1. ir[1] \in Frame /\ ir[2] \in Frame /\ seen[1] \in Frame /\ seen[2] \in Frame
      OBVIOUS
    <3>2. a.frame \in Frame /\ b.frame \in Frame
      BY <3>1, ReadTypes
    <3>3. a.frame \in {ir[1], seen[1]}
      BY ReadFacts
    <3>4. b.frame \in {ir[2], seen[2]}
      BY ReadFacts
    <3> QED
      BY <3>2, <3>3, <3>4
  <2>3. /\ seen' \in [Cams -> Frame] /\ seen'[1] \in {ir[1], seen[1]} /\ seen'[2] \in {ir[2], seen[2]}
    BY <2>1, <2>2 DEF Cams
  <2>4. fresh' \in BOOLEAN
    BY <2>1
  <2>5. capture' = now /\ tick' = "depth" /\ UNCHANGED <<now, stores, seenDepth, take, pair>>
    BY <1>5 DEF ReadImages, TickPasses
  <2>6. CaptureTypeOK'
    BY <2>3, <2>4, <2>5 DEF stores, take
  <2>7. \A k \in Cams : seen'[k] \in {ir[k], seen[k]}
    BY <2>3
  <2>8. Clocks'
    BY <2>5, <2>7, SeenKept DEF stores
  <2> QED
    BY <2>6, <2>8
<1>6. CASE ReadDepth
  <2>1. tick' = "decide" /\ UNCHANGED <<now, stores, seen, capture, take, pair>>
    BY <1>6 DEF ReadDepth, TickPasses
  <2>2. seenDepth' \in [Cams -> Frame] /\ fresh' \in BOOLEAN
    <3>1. CASE ~fresh
      BY <1>6, <3>1 DEF ReadDepth
    <3>2. CASE fresh
      <4>1. PICK read \in [Depths -> UNION {Reads(depth[k], seenDepth[k]) : k \in Depths}] :
               /\ \A k \in Depths : read[k] \in Reads(depth[k], seenDepth[k])
               /\ seenDepth' = [k \in Cams |-> IF k \in Depths THEN read[k].frame ELSE seenDepth[k]]
               /\ fresh' = \A k \in Depths : /\ read[k].ok /\ read[k].frame.seq # lastDepth[k]
                                             /\ SameExposure(read[k].frame, seen[k])
        BY <1>6, <3>2 DEF ReadDepth
      <4> QED
        BY <4>1, DepthReads
    <3> QED
      BY <3>1, <3>2
  <2> QED
    BY <2>1, <2>2 DEF stores, take
<1>7. CASE Record
  <2>1. /\ recorded' = recorded + 1 /\ lastFrame' = capture /\ lastMaster' = seen[1].at /\ tick' = "wait"
        /\ lastIr' = [k \in Cams |-> seen[k].seq]
        /\ lastDepth' = [k \in Cams |-> IF k \in Depths THEN seenDepth[k].seq ELSE lastDepth[k]]
        /\ pair' = [ir |-> seen, depth |-> seenDepth, at |-> capture]
        /\ UNCHANGED <<now, stores, cache, fresh, capture>>
    BY <1>7 DEF Record
  <2>2. lastIr' \in [Cams -> 0 .. MaxTime] /\ lastDepth' \in [Cams -> 0 .. MaxTime] /\ lastMaster' \in 0 .. MaxTime
    BY <2>1
  <2>3. pair' \in [ir : [Cams -> Frame], depth : [Cams -> Frame], at : 0 .. MaxTime]
    BY <2>1
  <2> QED
    BY <2>1, <2>2, <2>3 DEF stores, cache
<1>8. CASE Skip
  BY <1>8 DEF Skip, stores, cache, take
<1>9. CASE NextTick \/ EndTake
  <2>1. /\ UNCHANGED <<now, stores, cache, take, pair>> /\ fresh' = FALSE /\ capture' = 0
        /\ tick' = "images" \/ tick' = "idle"
    BY <1>9 DEF NextTick, EndTake, NextIteration, TickPasses
  <2> QED
    BY <2>1 DEF stores, cache, take
<1>10. CASE UNCHANGED captureVars
  BY <1>10 DEF captureVars, stores, cache, take
<1> QED
  BY <1>1, <1>2, <1>3, <1>4, <1>5, <1>6, <1>7, <1>8, <1>9, <1>10 DEF CaptureNext, Cameras, Recorder

\* The frames, the recorder's copies and what it remembers of them keep their types.
THEOREM CaptureTypes == CaptureSpec => [](CaptureTypeOK /\ Clocks)
<1>1. CaptureInit => CaptureTypeOK /\ Clocks
  <2> SUFFICES ASSUME CaptureInit PROVE CaptureTypeOK /\ Clocks
    OBVIOUS
  <2> USE FrameFacts DEF CaptureInit, NoPair
  <2>1. /\ pair \in [ir : [Cams -> Frame], depth : [Cams -> Frame], at : 0 .. MaxTime]
        /\ ir \in [Cams -> Frame] /\ depth \in [Cams -> Frame]
        /\ seen \in [Cams -> Frame] /\ seenDepth \in [Cams -> Frame]
    OBVIOUS
  <2>2. lastIr \in [Cams -> 0 .. MaxTime] /\ lastDepth \in [Cams -> 0 .. MaxTime]
    OBVIOUS
  <2>3. CaptureTypeOK
    BY <2>1, <2>2 DEF CaptureTypeOK
  <2>4. Clocks
    BY DEF Clocks
  <2> QED
    BY <2>3, <2>4
<1> QED
  BY <1>1, CaptureStep, PTL DEF CaptureSpec

LEMMA PairStep ==
    ASSUME CaptureTypeOK, Clocks, PairInv, DepthMatches, [CaptureNext]_captureVars
    PROVE  PairInv' /\ DepthMatches'
<1> USE FrameFacts DEF PairInv, DepthMatches
<1>0. seen \in [Cams -> Frame] /\ ir \in [Cams -> Frame] /\ recorded \in Nat
  BY DEF CaptureTypeOK
<1>1. CASE Advance \/ Cameras \/ UNCHANGED captureVars
  BY <1>1 DEF Advance, Cameras, IrArrives, DepthArrives, captureVars, cache, take
<1>2. CASE StartTake
  <2>1. pair' = NoPair /\ recorded' = 0 /\ tick' = "images"
    BY <1>2 DEF StartTake, TickPasses
  <2>2. \A k \in Cams : seen'[k].exp \in 0 .. MaxTime + 1
    BY <1>2, CaptureStep DEF CaptureTypeOK, CaptureNext, Recorder
  <2>3. \A k \in Cams : NoPair.ir[k].exp = 0
    BY DEF NoPair
  <2> QED
    BY <2>1, <2>2, <2>3
<1>3. CASE ReadImages
  <2>1. PICK a \in Reads(ir[1], seen[1]), b \in Reads(ir[2], seen[2]) :
            /\ seen' = <<a.frame, IF a.ok THEN b.frame ELSE seen[2]>>
            /\ fresh' = (a.ok /\ b.ok /\ Paired(a.frame, b.frame, now))
    BY <1>3 DEF ReadImages
  <2>2. tick = "images" /\ tick' = "depth" /\ UNCHANGED <<take, pair>>
    BY <1>3 DEF ReadImages, TickPasses
  <2>3. /\ seen'[1] \in {ir[1], seen[1]} /\ seen'[2] \in {ir[2], seen[2]}
        /\ fresh' => /\ seen'[1] = ir[1] /\ seen'[2] = ir[2] /\ ir[1].seq # 0 /\ ir[2].seq # 0
                     /\ ir[1].seq # lastIr[1] /\ ir[2].seq # lastIr[2]
    <3>1. /\ a.ok \in BOOLEAN /\ b.ok \in BOOLEAN
          /\ a.frame \in {ir[1], seen[1]} /\ (a.ok => a.frame = ir[1] /\ ir[1].seq # 0)
          /\ b.frame \in {ir[2], seen[2]} /\ (b.ok => b.frame = ir[2] /\ ir[2].seq # 0)
      BY ReadFacts
    <3>2. Paired(a.frame, b.frame, now) => a.frame.seq # lastIr[1] /\ b.frame.seq # lastIr[2]
      BY DEF Paired
    <3>3. seen'[1] = a.frame /\ seen'[2] = IF a.ok THEN b.frame ELSE seen[2]
      BY <2>1
    <3> QED
      BY <2>1, <3>1, <3>2, <3>3
  <2>4. \A k \in Cams : /\ seen'[k] \in {ir[k], seen[k]}
                        /\ fresh' => seen'[k] = ir[k] /\ ir[k].seq # 0 /\ ir[k].seq # lastIr[k]
    BY <2>3
  <2>5. \A k \in Cams : pair.ir[k].exp <= seen[k].exp /\ seen[k].exp <= ir[k].exp /\ ir[k].exp = ir[k].seq
    BY <1>0 DEF Clocks
  <2>6. ASSUME NEW k \in Cams PROVE pair.ir[k].exp <= seen'[k].exp /\ (fresh' => seen'[k].exp > pair.ir[k].exp)
    <3>0. pair.ir[k].exp \in Nat /\ seen[k].exp \in Nat /\ ir[k].exp \in Nat
      BY <1>0 DEF CaptureTypeOK
    <3>1. pair.ir[k].exp <= seen'[k].exp
      BY <2>4, <2>5, <3>0
    <3>2. CASE recorded = 0
      BY <2>4, <2>5, <3>0, <3>1, <3>2 DEF NoPair
    <3>3. CASE recorded > 0
      BY <2>4, <2>5, <3>0, <3>1, <3>3
    <3> QED
      BY <1>0, <3>1, <3>2, <3>3
  <2> QED
    BY <2>2, <2>6 DEF take
<1>4. CASE ReadDepth
  <2>1. tick = "depth" /\ tick' = "decide" /\ UNCHANGED <<seen, take, pair>>
    BY <1>4 DEF ReadDepth, TickPasses
  <2>2. fresh' => fresh /\ \A k \in Depths : SameExposure(seenDepth'[k], seen[k])
    <3> SUFFICES ASSUME fresh' PROVE fresh /\ \A k \in Depths : SameExposure(seenDepth'[k], seen[k])
      OBVIOUS
    <3>1. fresh
      BY <1>4 DEF ReadDepth
    <3>2. PICK read \in [Depths -> UNION {Reads(depth[k], seenDepth[k]) : k \in Depths}] :
             /\ seenDepth' = [k \in Cams |-> IF k \in Depths THEN read[k].frame ELSE seenDepth[k]]
             /\ fresh' = \A k \in Depths : /\ read[k].ok /\ read[k].frame.seq # lastDepth[k]
                                           /\ SameExposure(read[k].frame, seen[k])
      BY <1>4, <3>1 DEF ReadDepth
    <3> QED
      BY <3>1, <3>2, DepthAssumption
  <2> QED
    BY <2>1, <2>2 DEF take
<1>5. CASE Record
  <2>1. /\ tick = "decide" /\ fresh /\ tick' = "wait" /\ recorded' = recorded + 1
        /\ lastIr' = [k \in Cams |-> seen[k].seq] /\ pair'.ir = seen /\ pair'.depth = seenDepth
        /\ UNCHANGED seen
    BY <1>5 DEF Record, cache
  <2>2. \A k \in Cams : seen[k].exp = seen[k].seq /\ seen[k].exp \in Nat
    BY <1>0 DEF Clocks
  <2> QED
    BY <1>0, <2>1, <2>2, DepthAssumption DEF SameExposure
<1>6. CASE Skip \/ NextTick \/ EndTake
  BY <1>6 DEF Skip, NextTick, EndTake, NextIteration, TickPasses, cache, take
<1> QED
  BY <1>1, <1>2, <1>3, <1>4, <1>5, <1>6 DEF CaptureNext, Recorder

THEOREM PairsKept == CaptureSpec => [](PairInv /\ DepthMatches)
<1>1. CaptureInit => PairInv /\ DepthMatches
  BY FrameFacts DEF CaptureInit, PairInv, DepthMatches, NoPair
<1> QED
  BY <1>1, CaptureTypes, PairStep, PTL DEF CaptureSpec

\* Recorded depth is of the exposure of the image beside it.
THEOREM DepthIsMatched == CaptureSpec => []DepthMatches
BY PairsKept, PTL

\* Within a take every pair shows two newer exposures than the pair before.
THEOREM PairsKeepAdvancing == CaptureSpec => PairsAdvance
<1>1. PairInv /\ [CaptureNext]_captureVars =>
         [Record => \A k \in Cams : pair'.ir[k].exp > pair.ir[k].exp]_captureVars
  <2> SUFFICES ASSUME PairInv, Record, NEW k \in Cams PROVE pair'.ir[k].exp > pair.ir[k].exp
    OBVIOUS
  <2>1. pair'.ir = seen /\ tick = "decide" /\ fresh
    BY DEF Record
  <2> QED
    BY <2>1 DEF PairInv
<1> QED
  BY <1>1, PairsKept, PTL DEF CaptureSpec, PairsAdvance

-----------------------------------------------------------------------------
(* The loop and its arming.                                                *)

Live == {"arming", "armed", "decaying"}

LEMMA AgedType ==
    ASSUME NEW c \in CoreType
    PROVE  Aged(c) \in CoreType /\ Aged(c).state = c.state
<1> DEFINE plan == [c.plan EXCEPT !.t0 = Older(@)]
<1>1. plan \in Plan
  BY DEF CoreType, Plan, Older
<1>2. Aged(c) = [c EXCEPT !.arm_started = Older(@), !.updated = Older(@),
                          !.decay_started = Older(@), !.plan = plan]
  BY DEF Aged, CoreType
<1>3. /\ Older(c.arm_started) \in Nat /\ Older(c.updated) \in Nat
      /\ Older(c.decay_started) \in Nat
  BY DEF CoreType, Older
<1> HIDE DEF plan
<1> QED
  BY <1>1, <1>2, <1>3 DEF CoreType

\* A tick makes nothing live, and keeps nothing live without a healthy IMU.
LEMMA TickKeeps ==
    ASSUME NEW c \in CoreType, NEW h \in BOOLEAN, NEW d, d = Tick(c, Present, h)
    PROVE  /\ d \in CoreType
           /\ d.state \in Live => h /\ c.state \in Live
           /\ d.state = "armed" => c.state = "armed"
           /\ d.state = "arming" => c.state = "arming"
BY TickType, TickEffect, PresentAssumption DEF Live

\* A drive packet makes nothing live without a healthy IMU, and arms only a
\* core that was arming before.
LEMMA DriveKeeps ==
    ASSUME NEW c \in CoreType, NEW s \in Shape, NEW h \in BOOLEAN,
           NEW d, d = ReceiveDrive(c, s, Present, h)
    PROVE  /\ d \in CoreType
           /\ d.state \in Live => h \/ c.state \in Live
           /\ d.state = "armed" => c.state \in {"arming", "armed"}
<1>1. d \in CoreType
  BY ReceiveDriveType, PresentAssumption
<1>2. ASSUME d.state \in Live PROVE h \/ c.state \in Live
  <2>1. Fault(c).state = "fault" /\ Disarm(c).state = "disarmed"
    BY HaltType DEF Fault, Disarm, SafetyState
  <2> QED
    BY <1>2, <2>1 DEF ReceiveDrive, Live
<1>3. ASSUME d.state = "armed" PROVE c.state \in {"arming", "armed"}
  <2>1. Present - Present = 0 /\ ~(0 >= ArmDuration)
    BY PresentAssumption, HoldAssumption, TimeAssumption
  <2> QED
    BY <1>3, <2>1, ReceiveDriveEffect, PresentAssumption
<1> QED
  BY <1>1, <1>2, <1>3

LEMMA StopsCore ==
    ASSUME NEW c \in CoreType
    PROVE  /\ Fault(c) \in CoreType /\ Fault(c).state = "fault"
           /\ Disarm(c) \in CoreType /\ Disarm(c).state = "disarmed"
BY HaltType DEF Fault, Disarm, SafetyState

LEMMA PacketTypes ==
    /\ Zero \in Row /\ Stick \in Row /\ DisarmPacket \in Shape /\ StatusPacket \in Shape
    /\ \A row \in Row : DrivePacket(row) \in Shape
    /\ DisarmPacket.op = "disarm" /\ StatusPacket.op = "status"
    /\ \A row \in Row : DrivePacket(row).op = "drive"
<1>1. Zero \in Row /\ Stick \in Row
  BY ScaleAssumption DEF Zero, Stick, Row
<1>2. <<>> \in Seq(Row) /\ \A row \in Row : <<row>> \in Seq(Row)
  OBVIOUS
<1>3. \A op \in Operation, rows \in Seq(Row) : Packet(op, rows) \in Shape /\ Packet(op, rows).op = op
  BY DEF Packet, Shape
<1> QED
  BY <1>1, <1>2, <1>3 DEF DisarmPacket, StatusPacket, DrivePacket, Operation

\* What another producer drives with.
LEMMA OtherPackets ==
    \A row \in {Zero, Stick}, deadman \in BOOLEAN :
        [DrivePacket(row) EXCEPT !.deadman = deadman] \in Shape
<1>1. \A row \in {Zero, Stick} : DrivePacket(row) \in Shape
  BY PacketTypes
<1>2. \A s \in Shape, deadman \in BOOLEAN : [s EXCEPT !.deadman = deadman] \in Shape
  BY DEF Shape
<1> QED
  BY <1>1, <1>2

LEMMA CoreInitType == CoreInit \in CoreType
<1>1. NoPlan \in Plan
  BY DEF NoPlan, Plan
<1> QED
  BY <1>1, ZeroType DEF CoreInit, CoreType, SafetyState

-----------------------------------------------------------------------------
USE DEF service, connection, locals, timers, history

LEMMA TypeInit == Init => TypeOK
<1>1. CoreInit \in CoreType /\ Fault(CoreInit) \in CoreType
  BY CoreInitType, StopsCore
<1>2. <<DisarmPacket>> \in Seq(Shape)
  BY PacketTypes
<1>3. NoStatus \in Status
  BY DEF NoStatus, Status, SafetyState
<1> SUFFICES ASSUME Init PROVE TypeOK
  OBVIOUS
<1>4. core \in CoreType /\ wire \in Seq(Shape) /\ reply \in Status
  BY <1>1, <1>2, <1>3 DEF Init
<1> QED
  BY <1>4, SessionAssumption DEF Init, TypeOK

\* What the wire may hold after a step.
LEMMA WireTypes ==
    ASSUME TypeOK
    PROVE  /\ wire # <<>> => Head(wire) \in Shape /\ Tail(wire) \in Seq(Shape)
           /\ Append(wire, DisarmPacket) \in Seq(Shape)
           /\ wire \o <<DisarmPacket, StatusPacket>> \in Seq(Shape)
           /\ <<DisarmPacket>> \in Seq(Shape)
BY PacketTypes DEF TypeOK

LEMMA SendTypes ==
    ASSUME TypeOK, Send
    PROVE  wire' \in Seq(Shape)
<1>1. PICK stick \in {Zero, Stick} :
        wire' = wire \o (IF rearm THEN <<DisarmPacket>> ELSE <<>>)
                     \o (IF Drives(stick) THEN <<DrivePacket(Motion(stick))>> ELSE <<>>)
                     \o <<StatusPacket>>
  BY DEF Send
<1>2. Motion(stick) \in Row
  BY PacketTypes DEF Motion
<1>3. /\ <<>> \in Seq(Shape) /\ <<DisarmPacket>> \in Seq(Shape) /\ <<StatusPacket>> \in Seq(Shape)
      /\ <<DrivePacket(Motion(stick))>> \in Seq(Shape)
  BY <1>2, PacketTypes
<1>4. wire \in Seq(Shape)
  BY DEF TypeOK
<1> HIDE DEF Drives
<1> QED
  BY <1>1, <1>3, <1>4

LEMMA TypeStep == TypeOK /\ [Next]_vars => TypeOK'
<1> SUFFICES ASSUME TypeOK, [Next]_vars PROVE TypeOK'
  OBVIOUS
<1>1. CASE Served
  <2>1. Head(wire) \in Shape /\ wire' \in Seq(Shape)
    <3>1. wire # <<>> /\ wire' = Tail(wire)
      BY <1>1 DEF Served
    <3>2. Head(wire) \in Shape /\ Tail(wire) \in Seq(Shape)
      BY <3>1, WireTypes
    <3> QED
      BY <3>1, <3>2
  <2>a. lessee' \in {"none", "recorder", "other"}
    BY <1>1 DEF Served, TypeOK
  <2>2. core' \in CoreType
    <3>1. /\ core \in CoreType /\ healthy \in BOOLEAN
      BY DEF TypeOK
    <3>2. \/ core' = ReceiveDrive(core, Head(wire), Present, healthy)
          \/ core' = Disarm(core)
          \/ core' = core
      BY <1>1 DEF Served, Becomes
    <3>3. Disarm(core) \in CoreType
      BY <3>1, StopsCore
    <3>4. ReceiveDrive(core, Head(wire), Present, healthy) \in CoreType
      BY <2>1, <3>1, DriveKeeps
    <3> QED
      BY <3>1, <3>2, <3>3, <3>4
  <2>3. left' \in BOOLEAN /\ driven' \in BOOLEAN
    BY <1>1 DEF Served, Becomes, TypeOK
  <2>4. reply' \in Status
    <3>1. CASE UNCHANGED reply
      BY <3>1 DEF TypeOK
    <3>2. CASE reply' = [state |-> core.state, healthy |-> healthy, left |-> taking /\ left,
                         driven |-> driven, other |-> lessee = "other"]
      BY <3>2 DEF TypeOK, Status, CoreType
    <3> QED
      BY <1>1, <3>1, <3>2 DEF Served
  <2>5. answered' \in BOOLEAN
    BY <1>1 DEF Served, TypeOK
  <2>6. UNCHANGED <<healthy, pc, after, locals, timers, events>>
    BY <1>1 DEF Served
  <2> QED
    BY <2>1, <2>2, <2>3, <2>4, <2>5, <2>6, <2>a DEF TypeOK
<1>2. CASE ImuTurns
  <2>1. core' \in CoreType /\ left' \in BOOLEAN
    BY <1>2, TickKeeps DEF ImuTurns, Becomes, TypeOK
  <2> QED
    BY <1>2, <2>1 DEF ImuTurns, Event, TypeOK
<1>3. CASE Stopped
  <2>1. core' \in CoreType /\ left' \in BOOLEAN
    BY <1>3, StopsCore DEF Stopped, Becomes, TypeOK
  <2> QED
    BY <1>3, <2>1 DEF Stopped, Event, TypeOK
<1>a. CASE OtherDrives
  <2>1. core' \in CoreType /\ left' \in BOOLEAN
    <3>1. PICK s \in Shape : Becomes(ReceiveDrive(core, s, Present, healthy))
      BY <1>a, OtherPackets DEF OtherDrives
    <3> QED
      BY <3>1, DriveKeeps DEF Becomes, TypeOK
  <2> QED
    BY <1>a, <2>1 DEF OtherDrives, Event, TypeOK
<1>b. CASE OtherCloses
  <2>1. core' \in CoreType /\ left' \in BOOLEAN
    BY <1>b, StopsCore DEF OtherCloses, Becomes, TypeOK
  <2> QED
    BY <1>b, <2>1 DEF OtherCloses, Event, TypeOK
<1>4. CASE Passes
  <2>1. core' \in CoreType /\ left' \in BOOLEAN
    BY <1>4, TickKeeps, AgedType DEF Passes, Becomes, TypeOK
  <2>2. stall' \in Nat /\ cleared' \in Nat /\ waiting' \in Nat /\ length' \in Nat
    BY <1>4 DEF Passes, Upto, TypeOK
  <2> QED
    BY <1>4, <2>1, <2>2 DEF Passes, TypeOK
<1>5. CASE Press
  <2>1. ASSUME NEW pressed \in SUBSET Buttons PROVE Cardinality(pressed) \in Nat
    <3>1. IsFiniteSet({"start"}) /\ IsFiniteSet({"save"}) /\ IsFiniteSet({"discard"})
          /\ IsFiniteSet({"rearm"})
      BY FS_Singleton
    <3>2. Buttons = (({"start"} \cup {"save"}) \cup {"discard"}) \cup {"rearm"}
      BY DEF Buttons
    <3>3. IsFiniteSet(Buttons)
      BY <3>1, <3>2, FS_Union
    <3> QED
      BY <3>3, FS_Subset, FS_CardinalityType
  <2> QED
    BY <1>5, <2>1 DEF Press, Goto, TypeOK
<1>6. CASE Quit
  BY <1>6, ZenonT(60) DEF Quit, Goto, TypeOK
<1>7. CASE Send
  BY <1>7, SendTypes, ZenonT(60) DEF Send, Goto, TypeOK
<1>8. CASE SeesFault
  <2>1. pc' \in {"abandoning", "clearing"}
    BY <1>8 DEF SeesFault, Answered, Goto
  <2>2. /\ was_armed' = (reply.state = "armed") /\ imu_ready' = reply.healthy
        /\ answered' = FALSE /\ stall' = 0
        /\ UNCHANGED <<service, reply, after, auto, rearm, episodes, waiting, events, history>>
        /\ UNCHANGED <<wire, taking, pending, cleared, length>>
    BY <1>8 DEF SeesFault, Answered
  <2>3. was_armed' \in BOOLEAN /\ imu_ready' \in BOOLEAN
    BY <2>2 DEF TypeOK, Status
  <2> QED
    BY <2>1, <2>2, <2>3 DEF TypeOK
<1>9. CASE Clear
  <2>1. wire' \in Seq(Shape) /\ cleared' \in Nat
    <3>1. CASE cleared >= Recovery
      <4>1. cleared' = 0 /\ wire' = <<DisarmPacket>>
        BY <1>9, <3>1 DEF Clear
      <4>2. <<DisarmPacket>> \in Seq(Shape)
        BY WireTypes
      <4> QED
        BY <4>1, <4>2
    <3>2. CASE ~(cleared >= Recovery)
      BY <1>9, <3>2 DEF Clear, TypeOK
    <3> QED
      BY <3>1, <3>2
  <2>2. /\ pc' = "end"
        /\ UNCHANGED <<service, reply, answered, after, locals, stall, waiting, length, events,
                       history>>
    BY <1>9 DEF Clear, Goto
  <2> QED
    BY <2>1, <2>2 DEF TypeOK
<1>10. CASE Begin
  <2>1. pc' \in {"sample"} /\ wire' = wire /\ taking' = TRUE /\ pending' = FALSE /\ length' = 0 /\ cleared' = cleared
    BY <1>10 DEF Begin, Answered, Goto
  <2>2. /\ was_armed' = (reply.state = "armed") /\ imu_ready' = reply.healthy
        /\ answered' = FALSE /\ stall' = 0
        /\ UNCHANGED <<service, reply, after, auto, rearm, episodes, waiting, events, history>>
    BY <1>10 DEF Begin, Answered
  <2>3. was_armed' \in BOOLEAN /\ imu_ready' \in BOOLEAN
    BY <2>2 DEF TypeOK, Status
  <2> QED
    BY <2>1, <2>2, <2>3 DEF TypeOK
<1>11. CASE Lose
  <2>1. pc' \in {"abandoning"} /\ UNCHANGED <<wire, taking, pending, cleared, length>>
    BY <1>11 DEF Lose, Answered, Goto
  <2>2. /\ was_armed' = (reply.state = "armed") /\ imu_ready' = reply.healthy
        /\ answered' = FALSE /\ stall' = 0
        /\ UNCHANGED <<service, reply, after, auto, rearm, episodes, waiting, events, history>>
    BY <1>11 DEF Lose, Answered
  <2>3. was_armed' \in BOOLEAN /\ imu_ready' \in BOOLEAN
    BY <2>2 DEF TypeOK, Status
  <2> QED
    BY <2>1, <2>2, <2>3 DEF TypeOK
<1>12. CASE Abandoned
  BY <1>12 DEF Abandoned, Goto, TypeOK
<1>13. CASE GoOn
  <2>1. pc' \in {"sample", "end"}
    BY <1>13 DEF GoOn, Answered, Goto
  <2>2. /\ was_armed' = (reply.state = "armed") /\ imu_ready' = reply.healthy
        /\ answered' = FALSE /\ stall' = 0
        /\ UNCHANGED <<service, reply, after, auto, rearm, episodes, waiting, events, history>>
        /\ UNCHANGED <<wire, taking, pending, cleared, length>>
    BY <1>13 DEF GoOn, Answered
  <2>3. was_armed' \in BOOLEAN /\ imu_ready' \in BOOLEAN
    BY <2>2 DEF TypeOK, Status
  <2> QED
    BY <2>1, <2>2, <2>3 DEF TypeOK
<1>14. CASE Sample
  BY <1>14 DEF Sample, Goto, TypeOK
<1>15. CASE Finished
  <2>1. pc' \in {"closing", "drive", "end"}
    BY <1>15 DEF Finished, Goto, TypeOK
  <2>2. pending' \in BOOLEAN /\ waiting' \in Nat /\ episodes' \in Nat
    BY <1>15 DEF Finished, Another, TypeOK
  <2>3. /\ after' = "end" /\ taking' = FALSE
        /\ UNCHANGED <<service, connection, auto, rearm, was_armed, imu_ready,
                       stall, cleared, length, events, history>>
    BY <1>15 DEF Finished
  <2> QED
    BY <2>1, <2>2, <2>3 DEF TypeOK
<1>16. CASE EndIteration
  BY <1>16 DEF EndIteration, Goto, NoStatus, Status, SafetyState, TypeOK
<1>17. CASE Throws
  BY <1>17, WireTypes DEF Throws, NoStatus, Status, SafetyState, TypeOK
<1>18. CASE Close
  BY <1>18, WireTypes DEF Close, Goto, TypeOK
<1>19. CASE UNCHANGED vars
  BY <1>19 DEF vars, TypeOK
<1> QED
  BY <1>1, <1>2, <1>3, <1>4, <1>5, <1>6, <1>7, <1>8, <1>9, <1>10, <1>11, <1>12, <1>13, <1>14,
     <1>15, <1>16, <1>17, <1>18, <1>19, <1>a, <1>b DEF Next, Loop

\* Every reachable state is one the variables are declared for.
THEOREM RecorderTypes == Spec => []TypeOK
BY TypeInit, TypeStep, PTL DEF Spec

-----------------------------------------------------------------------------
(* The invariant.                                                          *)

Running == pc \notin {"closing", "ended"}
Drove == \E i \in DOMAIN wire : wire[i].op = "drive"

\* Disarms may wait on the wire; an iteration adds at most its drive packet,
\* and then its status.
WireInv ==
    /\ pc # "status" => ~answered /\ \A i \in DOMAIN wire : wire[i].op = "disarm"
    /\ pc = "status" /\ answered => wire = <<>>
    /\ pc = "status" /\ ~answered =>
          /\ \A i \in DOMAIN wire : wire[i].op = "status" <=> i = Len(wire)
          /\ \A i \in DOMAIN wire : wire[i].op = "drive" => i = Len(wire) - 1

\* A lease nobody holds lets nothing run, so that what is live without another producer
\* is live by the recorder's own packets.
LeaseInv == lessee = "none" => core.state \notin Live

\* Without a healthy IMU nothing is live, and nothing of the recorder's becomes live before
\* it knows that the IMU is healthy again and drives.
ImuInv ==
    /\ ~healthy => core.state \notin Live
    /\ ~imu_ready => ~Drove /\ (lessee = "other" \/ core.state \notin Live)
    /\ pc = "status" /\ answered /\ ~reply.healthy => lessee = "other" \/ core.state \notin Live

\* A core that is still armed by the recorder once the drive packet was served accepted it.
DriveInv ==
    /\ pc = "status" /\ ~answered /\ ~Drove /\ core.state = "armed" => lessee = "other" \/ driven
    /\ pc = "status" /\ answered /\ reply.state = "armed" => reply.other \/ reply.driven
    /\ pc = "sample" => reply.other \/ reply.driven

\* A hold of the recorder's that was left during a take is not complete again before the
\* next status, which then ends the take: arming only starts with this iteration's drive
\* packet, and a second one comes after the status.
HoldInv ==
    /\ left => lessee = "other" \/ core.state # "armed"
    /\ taking /\ ~left => core.state = "armed"
    /\ pc = "status" /\ answered /\ reply.state = "armed" =>
          (reply.other \/ ~reply.left) /\ (left \/ core.state = "armed")
    /\ pc = "sample" => reply.other \/ ~reply.left
    /\ left /\ core.state = "arming" /\ lessee # "other" =>
          /\ ~Drove /\ pc \in {"status", "abandoning", "clearing", "end"}
          /\ taking => pc \in {"status", "abandoning"}
          /\ pc = "status" /\ answered => reply.state # "armed"

IInv == Running => WireInv /\ LeaseInv /\ ImuInv /\ DriveInv /\ HoldInv

LEMMA InvInit == Init => IInv
<1> SUFFICES ASSUME Init PROVE IInv
  OBVIOUS
<1>1. core.state \in {"disarmed", "fault"}
  BY CoreInitType, StopsCore DEF Init, CoreInit
<1>2. \A i \in DOMAIN wire : wire[i].op = "disarm"
  BY PacketTypes DEF Init
<1> QED
  BY <1>1, <1>2 DEF Init, IInv, WireInv, LeaseInv, ImuInv, DriveInv, HoldInv, Drove, Live

\* What Send puts on the wire.
LEMMA SendWire ==
    ASSUME TypeOK, Send, \A i \in DOMAIN wire : wire[i].op = "disarm"
    PROVE  /\ \A i \in DOMAIN wire' : wire'[i].op = "status" <=> i = Len(wire')
           /\ \A i \in DOMAIN wire' : wire'[i].op = "drive" => i = Len(wire') - 1
           /\ Drove' <=> imu_ready
<1>1. PICK stick \in {Zero, Stick} :
        wire' = wire \o (IF rearm THEN <<DisarmPacket>> ELSE <<>>)
                     \o (IF Drives(stick) THEN <<DrivePacket(Motion(stick))>> ELSE <<>>)
                     \o <<StatusPacket>>
  BY DEF Send
<1> DEFINE waits == wire \o (IF rearm THEN <<DisarmPacket>> ELSE <<>>)
           drive == DrivePacket(Motion(stick))
<1>2. drive \in Shape /\ drive.op = "drive" /\ StatusPacket \in Shape /\ StatusPacket.op = "status"
  BY PacketTypes DEF Motion
<1>3. waits \in Seq(Shape) /\ \A i \in DOMAIN waits : waits[i].op = "disarm"
  <2>1. wire \in Seq(Shape) /\ DisarmPacket \in Shape /\ DisarmPacket.op = "disarm"
    BY PacketTypes DEF TypeOK
  <2>2. CASE rearm
    <3>1. waits = Append(wire, DisarmPacket)
      BY <2>1, <2>2
    <3> QED
      BY <2>1, <3>1
  <2>3. CASE ~rearm
    <3>1. waits = wire
      BY <2>1, <2>3
    <3> QED
      BY <2>1, <3>1
  <2> QED
    BY <2>2, <2>3 DEF TypeOK
<1> HIDE DEF waits, drive
<1>4. CASE imu_ready
  <2>1. wire' = Append(Append(waits, drive), StatusPacket)
    BY <1>1, <1>2, <1>3, <1>4 DEF Drives, waits, drive
  <2>2. /\ Len(wire') = Len(waits) + 2 /\ DOMAIN wire' = 1 .. Len(waits) + 2
        /\ \A i \in 1 .. Len(waits) : wire'[i] = waits[i]
        /\ wire'[Len(waits) + 1] = drive /\ wire'[Len(waits) + 2] = StatusPacket
    BY <1>2, <1>3, <2>1
  <2> QED
    BY <1>2, <1>3, <1>4, <2>2 DEF Drove
<1>5. CASE ~imu_ready
  <2>1. wire' = Append(waits, StatusPacket)
    BY <1>1, <1>2, <1>3, <1>5 DEF Drives, waits
  <2>2. /\ Len(wire') = Len(waits) + 1 /\ DOMAIN wire' = 1 .. Len(waits) + 1
        /\ \A i \in 1 .. Len(waits) : wire'[i] = waits[i]
        /\ wire'[Len(waits) + 1] = StatusPacket
    BY <1>2, <1>3, <2>1
  <2> QED
    BY <1>2, <1>3, <1>5, <2>2 DEF Drove
<1> QED
  BY <1>4, <1>5 DEF TypeOK

\* What is left on the wire of a running session once its head is served.
LEMMA ServedWire ==
    ASSUME TypeOK, WireInv, Running, wire # <<>>, wire' = Tail(wire)
    PROVE  /\ Drove' => Drove
           /\ Head(wire).op = "drive" => pc = "status" /\ ~answered /\ Drove /\ ~Drove'
           /\ Head(wire).op = "status" =>
                 pc = "status" /\ ~answered /\ wire' = <<>> /\ ~Drove
           /\ Head(wire).op = "disarm" /\ pc # "status" =>
                 \A i \in DOMAIN wire' : wire'[i].op = "disarm"
           /\ Head(wire).op # "status" /\ pc = "status" =>
                 /\ \A i \in DOMAIN wire' : wire'[i].op = "status" <=> i = Len(wire')
                 /\ \A i \in DOMAIN wire' : wire'[i].op = "drive" => i = Len(wire') - 1
<1>1. /\ Head(wire) = wire[1] /\ Len(wire) \in Nat \ {0} /\ DOMAIN wire = 1 .. Len(wire)
      /\ Len(wire') = Len(wire) - 1 /\ DOMAIN wire' = 1 .. Len(wire) - 1
      /\ \A i \in DOMAIN wire' : wire'[i] = wire[i + 1]
  BY DEF TypeOK
<1>2. Drove' => Drove
  BY <1>1 DEF Drove
<1>3. ASSUME Head(wire).op = "drive" PROVE pc = "status" /\ ~answered /\ Drove /\ ~Drove'
  <2>1. pc = "status" /\ ~answered
    BY <1>1, <1>3 DEF WireInv
  <2>2. \A i \in DOMAIN wire : wire[i].op = "drive" => i = 1
    BY <1>1, <1>3, <2>1 DEF WireInv
  <2> QED
    BY <1>1, <1>3, <2>1, <2>2 DEF Drove
<1>4. ASSUME Head(wire).op = "status"
      PROVE  pc = "status" /\ ~answered /\ wire' = <<>> /\ ~Drove
  <2>1. pc = "status" /\ ~answered
    BY <1>1, <1>4 DEF WireInv
  <2>2. Len(wire) = 1
    BY <1>1, <1>4, <2>1 DEF WireInv
  <2>3. ~Drove
    BY <1>1, <1>4, <2>2 DEF Drove
  <2>4. wire' = <<>>
    BY <2>2 DEF TypeOK
  <2> QED
    BY <2>1, <2>3, <2>4
<1>5. ASSUME Head(wire).op = "disarm", pc # "status"
      PROVE  \A i \in DOMAIN wire' : wire'[i].op = "disarm"
  BY <1>1, <1>5 DEF WireInv
<1>6. ASSUME Head(wire).op # "status", pc = "status"
      PROVE  /\ \A i \in DOMAIN wire' : wire'[i].op = "status" <=> i = Len(wire')
             /\ \A i \in DOMAIN wire' : wire'[i].op = "drive" => i = Len(wire') - 1
  <2>1. ~answered
    BY <1>6 DEF WireInv
  <2> QED
    BY <1>1, <1>6, <2>1 DEF WireInv
<1> QED
  BY <1>2, <1>3, <1>4, <1>5, <1>6

-----------------------------------------------------------------------------
(* Every step keeps the invariant.                                         *)

\* A step of the core that the recorder does not take part in: a lease that is not
\* another producer's now was not another's before, unless the core stopped, and the core
\* came no further; or another producer drives.
LEMMA CoreAlone ==
    ASSUME TypeOK, IInv, NEW c \in CoreType, Becomes(c), healthy' \in BOOLEAN,
           c.state \in Live => healthy',
           Running /\ lessee' = "none" => c.state \notin Live,
           \/ lessee' = "other"
           \/ c.state \notin Live
           \/ /\ lessee' = lessee /\ core.state \in Live
              /\ c.state = "armed" => core.state = "armed"
              /\ c.state = "arming" => core.state = "arming",
           UNCHANGED <<connection, pc, taking, imu_ready, driven>>
    PROVE  IInv'
<1> SUFFICES ASSUME Running PROVE (WireInv /\ LeaseInv /\ ImuInv /\ DriveInv /\ HoldInv)'
  BY DEF IInv, Running
<1>1. WireInv /\ LeaseInv /\ ImuInv /\ DriveInv /\ HoldInv
  BY DEF IInv
<1>2. core' = c /\ left' = ((taking \/ answered) /\ (left \/ c.state # "armed"))
  BY DEF Becomes
<1>3. WireInv' /\ Drove' = Drove
  BY <1>1 DEF WireInv, Drove
<1>4. ImuInv' /\ LeaseInv'
  BY <1>1, <1>2, <1>3 DEF ImuInv, LeaseInv
<1>a. c.state \notin Live => c.state # "armed" /\ c.state # "arming"
  BY DEF Live
<1>5. DriveInv'
  BY <1>1, <1>2, <1>3, <1>a DEF DriveInv
<1>6. HoldInv'
  <2>1. (left => lessee = "other" \/ core.state # "armed")'
    BY <1>1, <1>2, <1>a DEF HoldInv
  <2>2. (taking /\ ~left => core.state = "armed")'
    BY <1>2 DEF TypeOK
  <2>3. (/\ pc = "status" /\ answered /\ reply.state = "armed" =>
               (reply.other \/ ~reply.left) /\ (left \/ core.state = "armed")
         /\ pc = "sample" => reply.other \/ ~reply.left)'
    BY <1>1, <1>2 DEF HoldInv
  <2>4. ASSUME left', core'.state = "arming", lessee' # "other"
        PROVE  /\ ~Drove /\ pc \in {"status", "abandoning", "clearing", "end"}
               /\ taking => pc \in {"status", "abandoning"}
               /\ pc = "status" /\ answered => reply.state # "armed"
    <3>1. core.state = "arming" /\ lessee' = lessee
      BY <1>2, <1>a, <2>4
    <3>2. CASE left
      BY <1>1, <2>4, <3>1, <3>2 DEF HoldInv
    <3>3. CASE ~left
      <4>1. ~taking /\ answered
        BY <1>1, <1>2, <2>4, <3>1, <3>3 DEF HoldInv
      <4>2. pc = "status" /\ wire = <<>> /\ reply.state # "armed"
        BY <1>1, <3>1, <3>3, <4>1 DEF HoldInv, WireInv
      <4> QED
        BY <4>1, <4>2 DEF Drove
    <3> QED
      BY <3>2, <3>3
  <2> QED
    BY <1>3, <2>1, <2>2, <2>3, <2>4 DEF HoldInv
<1> QED
  BY <1>3, <1>4, <1>5, <1>6

LEMMA ServedStep == TypeOK /\ IInv /\ Served => IInv'
<1> SUFFICES ASSUME TypeOK, IInv, Served, Running
             PROVE  (WireInv /\ LeaseInv /\ ImuInv /\ DriveInv /\ HoldInv)'
  BY DEF IInv, Running, Served
<1>1. WireInv /\ LeaseInv /\ ImuInv /\ DriveInv /\ HoldInv
  BY DEF IInv
<1> DEFINE p == Head(wire)
<1>2. /\ wire # <<>> /\ wire' = Tail(wire) /\ p \in Shape
      /\ UNCHANGED <<healthy, pc, taking, imu_ready>>
  BY WireTypes DEF Served
<1>3. /\ Drove' => Drove
      /\ p.op = "drive" => pc = "status" /\ ~answered /\ Drove /\ ~Drove'
      /\ p.op = "status" => pc = "status" /\ ~answered /\ wire' = <<>> /\ ~Drove
      /\ p.op = "disarm" /\ pc # "status" => \A i \in DOMAIN wire' : wire'[i].op = "disarm"
      /\ p.op # "status" /\ pc = "status" =>
            /\ \A i \in DOMAIN wire' : wire'[i].op = "status" <=> i = Len(wire')
            /\ \A i \in DOMAIN wire' : wire'[i].op = "drive" => i = Len(wire') - 1
  BY <1>1, <1>2, ServedWire
<1> HIDE DEF p
<1>4. CASE /\ p.op = "drive" /\ Listens /\ Becomes(ReceiveDrive(core, p, Present, healthy))
           /\ driven' = (core'.state = "armed") /\ lessee' = "recorder"
           /\ UNCHANGED <<reply, answered>>
  <2>1. /\ core'.state \in Live => healthy \/ core.state \in Live
        /\ core'.state = "armed" => core.state \in {"arming", "armed"}
    BY <1>2, <1>4, DriveKeeps DEF Becomes, TypeOK
  <2>2. left' = (taking /\ (left \/ core'.state # "armed"))
    BY <1>3, <1>4 DEF Becomes
  <2>3. WireInv'
    BY <1>2, <1>3, <1>4 DEF WireInv
  <2>a. lessee # "other"
    BY <1>4 DEF Listens
  <2>4. ImuInv' /\ LeaseInv'
    BY <1>1, <1>2, <1>3, <1>4, <2>1 DEF ImuInv, LeaseInv
  <2>5. DriveInv'
    BY <1>2, <1>3, <1>4 DEF DriveInv
  <2>6. HoldInv'
    <3>1. left' => core'.state # "armed"
      BY <1>1, <1>3, <1>4, <2>1, <2>2, <2>a DEF HoldInv
    <3> QED
      BY <1>2, <1>3, <1>4, <2>2, <3>1 DEF HoldInv
  <2> QED
    BY <2>3, <2>4, <2>5, <2>6
<1>a. CASE p.op = "drive" /\ ~Listens /\ UNCHANGED <<core, lessee, reply, answered, history>>
  <2>1. lessee = "other"
    BY <1>a DEF Listens, TypeOK
  <2>2. WireInv'
    BY <1>2, <1>3, <1>a DEF WireInv
  <2>3. ImuInv' /\ LeaseInv'
    BY <1>1, <1>2, <1>3, <1>a, <2>1 DEF ImuInv, LeaseInv
  <2>4. DriveInv' /\ HoldInv'
    BY <1>1, <1>2, <1>3, <1>a, <2>1 DEF DriveInv, HoldInv
  <2> QED
    BY <2>2, <2>3, <2>4
<1>5. CASE /\ p.op = "disarm" /\ Becomes(Disarm(core)) /\ lessee' = "none"
           /\ UNCHANGED <<reply, answered, driven>>
  <2>1. core'.state = "disarmed" /\ left' = (taking \/ answered)
    BY <1>5, StopsCore DEF Becomes, TypeOK
  <2>2. WireInv'
    BY <1>1, <1>2, <1>3, <1>5 DEF WireInv
  <2>3. ImuInv' /\ LeaseInv' /\ DriveInv'
    BY <1>1, <1>2, <1>3, <1>5, <2>1 DEF ImuInv, LeaseInv, DriveInv, Live
  <2>4. HoldInv'
    BY <1>1, <1>2, <1>5, <2>1 DEF HoldInv
  <2> QED
    BY <2>2, <2>3, <2>4
<1>6. CASE /\ p.op = "status"
           /\ reply' = [state |-> core.state, healthy |-> healthy,
                        left |-> taking /\ left, driven |-> driven,
                        other |-> lessee = "other"]
           /\ answered' = TRUE /\ left' = (taking /\ left)
           /\ UNCHANGED <<core, lessee, driven>>
  <2>1. /\ reply'.state = core.state /\ reply'.healthy = healthy
        /\ reply'.left = (taking /\ left) /\ reply'.driven = driven
        /\ reply'.other = (lessee = "other")
    BY <1>6
  <2>2. WireInv'
    BY <1>2, <1>3, <1>6 DEF WireInv
  <2>3. ImuInv' /\ LeaseInv'
    BY <1>1, <1>2, <1>3, <1>6, <2>1 DEF ImuInv, LeaseInv
  <2>4. DriveInv'
    BY <1>1, <1>2, <1>3, <1>6, <2>1 DEF DriveInv
  <2>5. HoldInv'
    BY <1>1, <1>2, <1>3, <1>6, <2>1 DEF HoldInv
  <2> QED
    BY <2>2, <2>3, <2>4, <2>5
<1> QED
  BY <1>4, <1>5, <1>6, <1>a DEF Served, p

LEMMA AnsweredStep ==
    ASSUME TypeOK, IInv, SeesFault \/ Begin \/ Lose \/ GoOn
    PROVE  IInv'
<1>1. /\ answered /\ pc = "status" /\ answered' = FALSE
      /\ was_armed' = (reply.state = "armed") /\ imu_ready' = reply.healthy
      /\ UNCHANGED <<core, healthy, lessee, reply, left, driven, wire>>
  BY DEF SeesFault, Begin, Lose, GoOn, Answered, Goto
<1>2. WireInv /\ LeaseInv /\ ImuInv /\ DriveInv /\ HoldInv /\ wire = <<>>
  BY <1>1 DEF IInv, Running, WireInv
<1>3. pc' \in {"abandoning", "clearing", "sample", "end"}
  BY DEF SeesFault, Begin, Lose, GoOn, Answered, Goto
<1>4. pc' = "sample" => taking' /\ reply.state = "armed"
  BY DEF SeesFault, Begin, Lose, GoOn, Answered, Goto, Lost, Healthy, TypeOK
<1>5. taking' => taking \/ reply.state = "armed"
  BY DEF SeesFault, Begin, Lose, GoOn, Healthy, TypeOK
<1>6. taking' /\ pc' # "sample" => pc' = "abandoning" /\ taking
  BY DEF SeesFault, Begin, Lose, GoOn, Answered, Goto, TypeOK
<1>7. WireInv' /\ ~Drove'
  BY <1>1, <1>2, <1>3 DEF WireInv, Drove
<1>8. ImuInv' /\ LeaseInv'
  BY <1>1, <1>2, <1>3, <1>7 DEF ImuInv, LeaseInv
<1>9. DriveInv'
  BY <1>1, <1>2, <1>3, <1>4 DEF DriveInv
<1>10. HoldInv'
  BY <1>1, <1>2, <1>3, <1>4, <1>5, <1>6, <1>7 DEF HoldInv
<1> QED
  BY <1>7, <1>8, <1>9, <1>10 DEF IInv

LEMMA InvStep == TypeOK /\ IInv /\ [Next]_vars => IInv'
<1> SUFFICES ASSUME TypeOK, IInv, [Next]_vars PROVE IInv'
  OBVIOUS
<1>1. CASE Served
  BY <1>1, ServedStep
<1>2. CASE ImuTurns
  <2> DEFINE c == Tick(core, Present, healthy')
  <2>1. /\ Becomes(c) /\ healthy' \in BOOLEAN /\ lessee' = lessee
        /\ UNCHANGED <<connection, pc, taking, imu_ready, driven>>
    BY <1>2 DEF ImuTurns, Event
  <2>2. /\ c \in CoreType
        /\ c.state \in Live => healthy' /\ core.state \in Live
        /\ c.state = "armed" => core.state = "armed"
        /\ c.state = "arming" => core.state = "arming"
    BY <2>1, TickKeeps DEF TypeOK
  <2>3. Running /\ lessee' = "none" => c.state \notin Live
    BY <2>1, <2>2 DEF IInv, LeaseInv
  <2> HIDE DEF c
  <2> QED
    BY <2>1, <2>2, <2>3, CoreAlone
<1>3. CASE Stopped
  <2>1. PICK c \in {Fault(core), Disarm(core)} : Becomes(c)
    BY <1>3 DEF Stopped
  <2>2. c \in CoreType /\ c.state \in {"fault", "disarmed"}
    BY StopsCore DEF TypeOK
  <2> QED
    <3>1. healthy' \in BOOLEAN /\ UNCHANGED <<connection, pc, taking, imu_ready, driven>>
      BY <1>3 DEF Stopped, Event, TypeOK
    <3> QED
      BY <2>1, <2>2, <3>1, CoreAlone DEF Live
<1>4. CASE Passes
  <2> DEFINE aged == Aged(core)
             c == Tick(aged, Present, healthy)
  <2>1. aged \in CoreType /\ aged.state = core.state /\ healthy \in BOOLEAN
    BY AgedType DEF TypeOK
  <2> HIDE DEF aged
  <2>2. /\ c \in CoreType
        /\ c.state \in Live => healthy /\ core.state \in Live
        /\ c.state = "armed" => core.state = "armed"
        /\ c.state = "arming" => core.state = "arming"
    BY <2>1, TickKeeps
  <2>3. /\ Becomes(c) /\ healthy' \in BOOLEAN /\ healthy' = healthy
        /\ UNCHANGED <<connection, pc, taking, imu_ready, driven>>
    BY <1>4 DEF Passes, TypeOK, aged
  <2>4. lessee' = lessee /\ (Running /\ lessee' = "none" => c.state \notin Live)
    BY <1>4, <2>2 DEF Passes, IInv, LeaseInv
  <2> HIDE DEF c
  <2> QED
    BY <2>2, <2>3, <2>4, CoreAlone
<1>a. CASE OtherDrives
  <2>1. PICK s \in Shape : Becomes(ReceiveDrive(core, s, Present, healthy))
    BY <1>a, OtherPackets DEF OtherDrives
  <2> DEFINE c == ReceiveDrive(core, s, Present, healthy)
  <2>2. /\ lessee' = "other" /\ healthy' = healthy /\ healthy \in BOOLEAN
        /\ UNCHANGED <<connection, pc, taking, imu_ready, driven>>
    BY <1>a DEF OtherDrives, Event, TypeOK
  <2>3. CASE Running
    <3>1. c \in CoreType /\ (c.state \in Live => healthy)
      BY <2>3, DriveKeeps DEF IInv, ImuInv, TypeOK
    <3> HIDE DEF c
    <3> QED
      BY <2>1, <2>2, <3>1, CoreAlone DEF c
  <2>4. CASE ~Running
    BY <2>2, <2>4 DEF IInv, Running
  <2> QED
    BY <2>3, <2>4
<1>b. CASE OtherCloses
  <2>1. /\ Becomes(Fault(core)) /\ healthy' = healthy /\ healthy \in BOOLEAN
        /\ UNCHANGED <<connection, pc, taking, imu_ready, driven>>
    BY <1>b DEF OtherCloses, Event, TypeOK
  <2>2. Fault(core) \in CoreType /\ Fault(core).state = "fault"
    BY StopsCore DEF TypeOK
  <2> QED
    BY <2>1, <2>2, CoreAlone DEF Live
<1>5. CASE Press
  <2>1. /\ pc = "top" /\ pc' \in {"saving", "drive"}
        /\ UNCHANGED <<service, connection, taking, imu_ready, history>>
    BY <1>5 DEF Press, Goto
  <2> QED
    BY <2>1 DEF IInv, Running, WireInv, LeaseInv, ImuInv, DriveInv, HoldInv, Drove
<1>6. CASE Quit
  <2>1. /\ pc = "top" /\ pc' \in {"saving", "closing"}
        /\ UNCHANGED <<service, connection, taking, imu_ready, history>>
    BY <1>6 DEF Quit, Goto
  <2> QED
    BY <2>1 DEF IInv, Running, WireInv, LeaseInv, ImuInv, DriveInv, HoldInv, Drove
<1>7. CASE Send
  <2>1. /\ pc = "drive" /\ pc' = "status" /\ answered' = FALSE /\ driven' = FALSE
        /\ UNCHANGED <<service, reply, taking, imu_ready, left>>
    BY <1>7 DEF Send, Goto
  <2>2. WireInv /\ LeaseInv /\ ImuInv /\ DriveInv /\ HoldInv
    BY <2>1 DEF IInv, Running
  <2>3. /\ \A i \in DOMAIN wire' : wire'[i].op = "status" <=> i = Len(wire')
        /\ \A i \in DOMAIN wire' : wire'[i].op = "drive" => i = Len(wire') - 1
        /\ Drove' <=> imu_ready
    BY <1>7, <2>1, <2>2, SendWire DEF WireInv
  <2>4. WireInv'
    BY <2>1, <2>3 DEF WireInv
  <2>5. ImuInv' /\ LeaseInv'
    BY <2>1, <2>2, <2>3 DEF ImuInv, LeaseInv
  <2>6. DriveInv'
    BY <2>1, <2>2, <2>3 DEF DriveInv, ImuInv, Live
  <2>7. HoldInv'
    BY <2>1, <2>2 DEF HoldInv
  <2> QED
    BY <2>4, <2>5, <2>6, <2>7 DEF IInv
<1>8. CASE SeesFault \/ Begin \/ Lose \/ GoOn
  BY <1>8, AnsweredStep
<1>9. CASE Clear
  <2>1. /\ pc = "clearing" /\ pc' = "end" /\ wire' \in {wire, <<DisarmPacket>>}
        /\ UNCHANGED <<service, reply, answered, taking, imu_ready, history>>
    BY <1>9 DEF Clear, Goto
  <2>2. \A i \in DOMAIN wire' : wire'[i].op = "disarm"
    BY <2>1, PacketTypes DEF IInv, Running, WireInv
  <2>3. ~Drove'
    BY <2>2 DEF Drove
  <2> QED
    BY <2>1, <2>2, <2>3 DEF IInv, Running, WireInv, LeaseInv, ImuInv, DriveInv, HoldInv
<1>10. CASE Abandoned
  <2>1. /\ pc = "abandoning" /\ pc' \in {"clearing", "end"} /\ taking' = FALSE
        /\ UNCHANGED <<service, connection, imu_ready, history>>
    BY <1>10 DEF Abandoned, Goto
  <2> QED
    BY <2>1 DEF IInv, Running, WireInv, LeaseInv, ImuInv, DriveInv, HoldInv, Drove
<1>11. CASE Sample
  <2>1. /\ pc = "sample" /\ pc' \in {"saving", "end"}
        /\ UNCHANGED <<service, connection, taking, imu_ready, history>>
    BY <1>11 DEF Sample, Goto
  <2> QED
    BY <2>1 DEF IInv, Running, WireInv, LeaseInv, ImuInv, DriveInv, HoldInv, Drove
<1>12. CASE Finished
  <2>1. /\ pc = "saving" /\ pc' \in {"closing", "drive", "end"} /\ taking' = FALSE
        /\ UNCHANGED <<service, connection, imu_ready, history>>
    BY <1>12 DEF Finished, Goto, TypeOK
  <2> QED
    BY <2>1 DEF IInv, Running, WireInv, LeaseInv, ImuInv, DriveInv, HoldInv, Drove
<1>13. CASE EndIteration
  <2>1. /\ pc = "end" /\ pc' = "top" /\ left' = (taking /\ left)
        /\ UNCHANGED <<service, wire, answered, taking, imu_ready>>
    BY <1>13 DEF EndIteration, Goto
  <2> QED
    BY <2>1 DEF IInv, Running, WireInv, LeaseInv, ImuInv, DriveInv, HoldInv, Drove, TypeOK
<1>14. CASE Throws
  BY <1>14 DEF Throws, IInv, Running
<1>15. CASE Close
  BY <1>15 DEF Close, Goto, IInv, Running
<1>16. CASE UNCHANGED vars
  BY <1>16 DEF vars, IInv, Running, WireInv, LeaseInv, ImuInv, DriveInv, HoldInv, Drove
<1> QED
  BY <1>1, <1>2, <1>3, <1>4, <1>5, <1>6, <1>7, <1>8, <1>9, <1>10, <1>11, <1>12, <1>13, <1>14,
     <1>15, <1>16, <1>a, <1>b DEF Next, Loop

THEOREM InvHolds == Spec => []IInv
BY TypeInit, TypeStep, InvInit, InvStep, PTL DEF Spec

\* The rows of a take belong to one hold: OneHold for sessions of any length,
\* any lease, arming hold and timing of the loop.
THEOREM RowsShareOneHold == Spec => []OneHold
<1>1. IInv => OneHold
  BY DEF IInv, Running, HoldInv, OneHold
<1> QED
  BY <1>1, InvHolds, PTL

\* A row is only pushed once its own drive packet was accepted by an armed core.
THEOREM RowsWereDriven == Spec => []RowsHaveTheirDrive
<1>1. IInv => RowsHaveTheirDrive
  BY DEF IInv, Running, DriveInv, RowsHaveTheirDrive
<1> QED
  BY <1>1, InvHolds, PTL
=============================================================================
