---------------------------- MODULE MCReference ----------------------------
(***************************************************************************)
(* One run for three small sequential modules that share nothing: the      *)
(* performance tracker and the PID controller of the reference, and the    *)
(* collector whose joints that controller drives.  A behaviour is one of   *)
(* them, and the others stay as they were made.                            *)
(***************************************************************************)
EXTENDS PerfTracker, Pid, PidCollector

VARIABLE subject

MCMinOutput == -4
MCValues == {-2, 0, 2}
MCLimits == {<<-1, 1>>, <<-3, 3>>, <<0, 2>>}

ReferenceInit ==
    /\ Init /\ PidInit /\ CollectorInit /\ subject \in {"tracker", "pid", "collector"}
    /\ subject # "tracker" => class = "loop" /\ period = 0 /\ enabled
    /\ subject # "collector" => ~scripted /\ ~recording
ReferenceNext ==
    /\ \/ subject = "tracker" /\ Next /\ UNCHANGED <<pid, collectorVars>>
       \/ subject = "pid" /\ PidNext /\ UNCHANGED <<vars, collectorVars>>
       \/ subject = "collector" /\ CollectorNext /\ UNCHANGED <<vars, pid>>
    /\ UNCHANGED subject
ReferenceSpec == ReferenceInit /\ [][ReferenceNext]_<<vars, pid, collectorVars, subject>>
=============================================================================
