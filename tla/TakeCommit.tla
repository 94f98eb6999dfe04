----------------------------- MODULE TakeCommit -----------------------------
(***************************************************************************)
(* What the recorder promises of one take: it is offered records one after *)
(* the other and becomes visible to the exporter in one step, with every   *)
(* record it was offered, or never.  Once the operator was told that it is *)
(* saved, neither a crash nor a power failure takes it back.               *)
(***************************************************************************)
EXTENDS Naturals

VARIABLES
    offered, \* the rows and the images of the records offered so far
    shown,   \* the rows and the images of the visible take, NoTake while there is none
    told     \* the operator was told that the take is saved

vars == <<offered, shown, told>>

NoTake == [rows |-> 0, images |-> 0]

Init == offered = NoTake /\ shown = NoTake /\ told = FALSE

Offer ==
    /\ shown = NoTake
    /\ offered' \in {[offered EXCEPT !.rows = @ + 1],
                     [offered EXCEPT !.rows = @ + 1, !.images = @ + 1]}
    /\ UNCHANGED <<shown, told>>

Commit ==
    /\ shown = NoTake /\ offered.images > 0
    /\ shown' = offered
    /\ UNCHANGED <<offered, told>>

Confirm == shown # NoTake /\ told' = TRUE /\ UNCHANGED <<offered, shown>>

\* A power failure before the confirmation may take the commit back.
Lose == ~told /\ shown' = NoTake /\ UNCHANGED <<offered, told>>

Next == Offer \/ Commit \/ Confirm \/ Lose

Spec == Init /\ [][Next]_vars
=============================================================================
