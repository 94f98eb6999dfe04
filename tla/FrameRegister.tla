---------------------------- MODULE FrameRegister ----------------------------
(***************************************************************************)
(* What a frame store promises its readers: each store is a register that  *)
(* holds the latest published frame or nothing, written and read at once.  *)
(* A camera publishes frames in increasing order, at times the register    *)
(* becomes empty, and a reader keeps the frame it read last.               *)
(***************************************************************************)
EXTENDS Naturals

CONSTANTS Readers, MaxStores

VARIABLES
    entry,   \* the store the path names, 0 before the first
    current, \* the frame of each store, 0 when it has none
    newest,  \* the last frame published to each store
    opened,  \* the store each reader reads, 0 when it is closed
    held     \* the frame each reader last read, 0 when it has none

vars == <<entry, current, newest, opened, held>>

Stores == 1 .. MaxStores

Init ==
    /\ entry = 0
    /\ current = [i \in Stores |-> 0] /\ newest = [i \in Stores |-> 0]
    /\ opened = [r \in Readers |-> 0] /\ held = [r \in Readers |-> 0]

\* A camera that starts replaces the store by an empty one.
Replace(i) ==
    /\ i > entry /\ current[i] = 0
    /\ entry' = i /\ UNCHANGED <<current, newest, opened, held>>

Publish(i) ==
    /\ newest'[i] > newest[i]
    /\ newest' = [newest EXCEPT ![i] = newest'[i]]
    /\ current' = [current EXCEPT ![i] = newest'[i]]
    /\ UNCHANGED <<entry, opened, held>>

Empty(i) ==
    /\ current' = [current EXCEPT ![i] = 0]
    /\ UNCHANGED <<entry, newest, opened, held>>

Open(r) ==
    /\ opened[r] = 0 /\ entry # 0
    /\ opened' = [opened EXCEPT ![r] = entry]
    /\ UNCHANGED <<entry, current, newest, held>>

Read(r) ==
    /\ opened[r] # 0
    /\ current[opened[r]] > held[r]
    /\ held' = [held EXCEPT ![r] = current[opened[r]]]
    /\ UNCHANGED <<entry, current, newest, opened>>

Close(r) ==
    /\ opened' = [opened EXCEPT ![r] = 0] /\ held' = [held EXCEPT ![r] = 0]
    /\ UNCHANGED <<entry, current, newest>>

Next ==
    \/ \E i \in Stores : Replace(i) \/ Publish(i) \/ Empty(i)
    \/ \E r \in Readers : Open(r) \/ Read(r) \/ Close(r)

Spec == Init /\ [][Next]_vars
=============================================================================
