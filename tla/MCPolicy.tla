------------------------------ MODULE MCPolicy ------------------------------
(***************************************************************************)
(* One run for the two sides of a live policy run that LiveRunner leaves   *)
(* out, and for the probe of a policy's inputs: a behaviour is one of what *)
(* plans are inferred from, one of the life of the run, or one of the      *)
(* probe, and the others stay as they began.                               *)
(***************************************************************************)
EXTENDS PolicyLoop, PolicySession, FrameHistory

VARIABLE subject

\* A third plan follows the second at 5; an encode is gone at 4.
MCMaxTime == [b \in Bundles |-> IF "rtc" \in b THEN 5 ELSE 4]

\* The probe's history of two cameras, with its longest offset first.
MCOffsets == <<1, 0>>
MCPixels == <<1, 1>>

PolicyInit ==
    /\ Init /\ SessionInit /\ ProbeInit /\ subject \in {"loop", "session", "probe"}
    /\ subject # "session" => ~live /\ ~hasPad /\ ~starts /\ controller = "disarmed"
    /\ subject # "loop" => mode = "model" /\ bundle = CHOOSE b \in Bundles : TRUE
    /\ subject # "probe" => max_bytes = CHOOSE b \in Budgets : TRUE
PolicyNext ==
    /\ \/ subject = "loop" /\ Next /\ UNCHANGED <<session, probe>>
       \/ subject = "session" /\ SessionNext /\ UNCHANGED <<vars, probe>>
       \/ subject = "probe" /\ ProbeNext /\ UNCHANGED <<vars, session>>
    /\ UNCHANGED subject
PolicySpec == PolicyInit /\ [][PolicyNext]_<<vars, session, probe, subject>> /\ SessionFairness
=============================================================================
