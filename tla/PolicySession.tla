---------------------------- MODULE PolicySession ----------------------------
(***************************************************************************)
(* The life of one run of vla_live.py: what run_live sets up, how the main *)
(* thread and the supervisor of vla_operator.py end it together, and how   *)
(* the cleanup gives back what was set up, whatever failed.  Each step of  *)
(* the cleanup may raise; it is reported and the next one follows.  The    *)
(* supervisor may hang in a call, the controller may fault or die; only    *)
(* the cleanup is sure to go on.                                           *)
(***************************************************************************)
EXTENDS Integers, Sequences, FiniteSets, SequencesExt

CONSTANT MaxRaises    \* bound: a closing step raises only below so many errors

ASSUME RaisesAssumption == MaxRaises \in Nat

VARIABLES
    live, hasPad, starts,      \* --live, a gamepad was found, --start-services
    main, sup,                 \* the steps of both threads
    held, errors, outcome,     \* what is open, cleanup_errors, outcome: finished, failed or doubt
    stop_kind, halt, closed,   \* of the Supervisor; closed is _closed
    wire, controller           \* packets of the drive connection; what the controller is doing

options == <<live, hasPad, starts>>
connection == <<closed, wire, controller>>
session == <<options, main, sup, held, errors, outcome, stop_kind, halt, connection>>

Unset == "none"
\* What run_live opens and passes before its loop, in order.
Order == <<"pad", "tmp", "control", "control_ready", "cameras", "cameras_ready", "model", "readers",
           "status", "warm-up", "socket", "drain", "ask", "arm", "start", "loop">>
Opens == {"pad", "tmp", "control", "cameras", "model", "readers", "status", "socket"}
Skipped(step) ==
    \/ ~(live /\ hasPad) /\ step \in {"pad", "drain"}
    \/ ~starts /\ step \in {"tmp", "control", "control_ready", "cameras", "cameras_ready"}
    \/ ~live /\ step \in {"socket", "ask", "arm", "start"}
From(i) == CHOOSE j \in i .. Len(Order) : ~Skipped(Order[j]) /\ \A k \in i .. j - 1 : Skipped(Order[k])
After(step) == Order[From(1 + CHOOSE i \in DOMAIN Order : Order[i] = step)]
Trying == ToSet(Order) \cup {"armed"}

\* The last steps of the cleanup, in order, and what each gives back.
Closing == <<"close_status", "stop_services", "close_readers", "remove_tmp", "close_pad", "close_model">>
Returns == <<{"status"}, {"control", "cameras"}, {"readers"}, {"tmp"}, {"pad"}, {"model"}>>
Cleanup == {"test", "set", "join", "shut", "mark", "disarm", "close", "take", "final"} \cup ToSet(Closing)

SessionInit ==
    /\ live \in BOOLEAN /\ hasPad \in BOOLEAN /\ starts \in BOOLEAN
    /\ main = Order[From(1)] /\ sup = Unset
    /\ held = {} /\ errors = {} /\ outcome = "finished"
    /\ stop_kind = Unset /\ halt = FALSE /\ closed = FALSE /\ wire = <<>>
    /\ controller \in IF starts THEN {"disarmed"} ELSE {"disarmed", "fault", "other"}

-----------------------------------------------------------------------------
(* The controller, as this run sees it.  "armed" is armed by this run,     *)
(* "other" by another producer, "off" is dead.                             *)

\* Arming takes several ticks: an "arm" that more packets follow does not arm.
Answer(packet) ==
    CASE packet = "disarm" -> {"disarmed"}
      [] packet = "arm" /\ controller = "disarmed" /\ Len(wire) = 1 -> {"disarmed", "armed"}
      [] packet = "close" /\ controller = "armed" -> {"fault"}
      [] OTHER -> {controller}
Serves ==
    /\ wire # <<>> /\ controller # "off"
    /\ controller' \in Answer(Head(wire)) /\ wire' = Tail(wire)
    /\ UNCHANGED <<options, main, sup, held, errors, outcome, stop_kind, halt, closed>>
Breaks ==
    /\ \/ controller = "armed" /\ controller' = "fault"
       \/ controller # "off" /\ (~starts \/ "control" \in held) /\ controller' = "off"
    /\ UNCHANGED <<options, main, sup, held, errors, outcome, stop_kind, halt, closed, wire>>

-----------------------------------------------------------------------------
(* run_live: what comes before the loop.                                   *)

\* A step opens something, or waits for it; start begins the thread.
Open ==
    /\ main \in ToSet(Order) \ {"ask", "arm", "loop"}
    /\ held' = IF main \in Opens THEN held \cup {main} ELSE held
    /\ main' = After(main)
    /\ sup' = CASE main = "socket" -> "made" [] main = "start" -> "tick" [] OTHER -> sup
    /\ UNCHANGED <<options, errors, outcome, stop_kind, halt, connection>>
\* Supervisor.arm: only a disarmed controller is asked, until it is armed.
Ask ==
    /\ main = "ask" /\ controller = "disarmed" /\ main' = "arm"
    /\ UNCHANGED <<options, sup, held, errors, outcome, stop_kind, halt, connection>>
Arm ==
    /\ main = "arm" /\ main' = "armed" /\ wire' = Append(wire, "arm")
    /\ UNCHANGED <<options, sup, held, errors, outcome, stop_kind, halt, closed, controller>>
Asked ==
    /\ main = "armed" /\ wire = <<>> /\ controller \in {"armed", "disarmed"}
    /\ main' = IF controller = "armed" THEN "start" ELSE "arm"
    /\ UNCHANGED <<options, sup, held, errors, outcome, stop_kind, halt, connection>>

\* Mutant of Finally: a supervisor that was never started is not shut down.
Finally_WhenStarted ==
    IF sup \notin {Unset, "made"} THEN "test" ELSE IF "status" \in held THEN "final" ELSE "stop_services"
\* Where the cleanup begins.
Finally == IF sup # Unset THEN "test" ELSE IF "status" \in held THEN "final" ELSE "stop_services"
\* Anything before the end of the loop may raise or be interrupted.
Fails ==
    /\ main \in Trying /\ outcome' = "failed" /\ main' = Finally
    /\ UNCHANGED <<options, sup, held, errors, stop_kind, halt, connection>>
\* The time is over, or the supervisor has stopped.
LeaveLoop ==
    /\ main = "loop" /\ main' = Finally
    /\ outcome' = IF stop_kind # Unset THEN stop_kind ELSE "finished"
    /\ UNCHANGED <<options, sup, held, errors, stop_kind, halt, connection>>

-----------------------------------------------------------------------------
(* What both threads do: Supervisor.stop and Supervisor.shutdown.          *)

\* Go(thread, from, to): the thread that is at one step goes to the next.
Go(thread, from, to) ==
    IF thread = "main" THEN main = from /\ main' = to /\ UNCHANGED sup
    ELSE sup = from /\ sup' = to /\ UNCHANGED main
\* Where each thread goes from stop and from shutdown.
Stopped(thread) == IF thread = "main" /\ sup # "made" THEN "join" ELSE "shut"
Left(thread) == IF thread = "main" THEN "take" ELSE "dead"

\* stop: the first reason stays; it is looked for and set without a lock.
Test(thread) ==
    /\ Go(thread, "test", IF stop_kind = Unset THEN "set" ELSE Stopped(thread))
    /\ halt' = (halt \/ stop_kind # Unset)
    /\ UNCHANGED <<options, held, errors, outcome, stop_kind, connection>>
Set(thread) ==
    /\ Go(thread, "set", Stopped(thread))
    /\ stop_kind' = (IF thread = "main" THEN outcome ELSE "doubt") /\ halt' = TRUE
    /\ UNCHANGED <<options, held, errors, outcome, connection>>

\* shutdown: _closed is looked at and set without a lock.
Shut(thread) ==
    /\ Go(thread, "shut", IF closed THEN Left(thread) ELSE "mark")
    /\ UNCHANGED <<options, held, errors, outcome, stop_kind, halt, connection>>
Mark(thread) ==
    /\ Go(thread, "mark", "disarm") /\ closed' = TRUE
    /\ UNCHANGED <<options, held, errors, outcome, stop_kind, halt, wire, controller>>
\* The send may raise, and does on a closed socket; the socket is closed all the same.
SendDisarm(thread) ==
    /\ Go(thread, "disarm", "close")
    /\ \/ "socket" \in held /\ wire' = Append(wire, "disarm") /\ UNCHANGED errors
       \/ UNCHANGED wire /\ errors' = errors \cup (IF thread = "main" THEN {"disarm"} ELSE {})
    /\ UNCHANGED <<options, held, outcome, stop_kind, halt, closed, controller>>
CloseSocket(thread) ==
    /\ Go(thread, "close", Left(thread))
    /\ held' = held \ {"socket"} /\ wire' = IF "socket" \in held THEN Append(wire, "close") ELSE wire
    /\ UNCHANGED <<options, errors, outcome, stop_kind, halt, closed, controller>>
Ends(thread) ==
    Test(thread) \/ Set(thread) \/ Shut(thread) \/ Mark(thread) \/ SendDisarm(thread) \/ CloseSocket(thread)

-----------------------------------------------------------------------------
(* run: the supervisor thread.                                             *)

\* Pad.poll raises when the pad is gone or its event queue has overrun.
PadIsLost == sup = "tick" /\ ~halt /\ hasPad
\* A lost pad, a plan without a pad to fall back on, a controller that is not armed,
\* and a call that raises stop the run.
Pass ==
    /\ \/ sup = "tick" /\ (IF halt THEN sup' = "shut" ELSE sup' = "send")
       \/ PadIsLost /\ sup' = "test"
       \/ sup = "send" /\ "socket" \in held /\ sup' = "status"
       \/ sup = "send" /\ ~hasPad /\ sup' = "test"
       \/ sup = "status" /\ halt /\ sup' = "shut"
       \/ sup = "status" /\ wire = <<>> /\ controller # "off" /\ "socket" \in held
          /\ sup' = IF controller = "armed" THEN "tick" ELSE "test"
       \/ sup \in {"send", "status"} /\ sup' = "test"
    /\ UNCHANGED <<options, main, held, errors, outcome, stop_kind, halt, connection>>

-----------------------------------------------------------------------------
(* run_live: the cleanup.                                                  *)

\* Mutant of Join: it waits until the thread is dead.
Join_Forever ==
    /\ main = "join" /\ main' = "shut" /\ sup = "dead"
    /\ UNCHANGED <<options, sup, held, errors, outcome, stop_kind, halt, connection>>
\* The thread is waited for two seconds.
Join ==
    /\ main = "join" /\ main' = "shut"
    /\ errors' = IF sup = "dead" THEN errors ELSE errors \cup {"join"}
    /\ UNCHANGED <<options, sup, held, outcome, stop_kind, halt, connection>>
\* What the supervisor stopped for is the outcome of a run that was not otherwise ended.
Take ==
    /\ main = "take" /\ main' = "final"
    /\ outcome' = IF stop_kind # Unset /\ outcome = "finished" THEN stop_kind ELSE outcome
    /\ UNCHANGED <<options, sup, held, errors, stop_kind, halt, connection>>
\* final_status: armed after a second, or no answer, is an error.
FinalStatus ==
    /\ main = "final" /\ main' = "close_status"
    /\ \/ controller # "off" /\ (sup # Unset => controller \notin {"armed", "other"}) /\ UNCHANGED errors
       \/ errors' = errors \cup {"final"}
    /\ UNCHANGED <<options, sup, held, outcome, stop_kind, halt, connection>>
\* A closing step that raises has given back a part: stop_services stops waiting for the
\* rest of the processes.  The next step follows.
Kept(i) == SUBSET (held \cap Returns[i])
CloseNext(i) == main' = IF i = Len(Closing) THEN "done" ELSE Closing[i + 1]
CloseStep ==
    /\ \E i \in DOMAIN Closing :
        /\ main = Closing[i] /\ CloseNext(i)
        /\ \/ held' = held \ Returns[i] /\ UNCHANGED errors
           \/ /\ held \cap Returns[i] # {} /\ Cardinality(errors) < MaxRaises
              /\ errors' = errors \cup {Closing[i]}
              /\ \E kept \in Kept(i) : held' = (held \ Returns[i]) \cup kept
    /\ controller' = IF starts /\ "control" \in held \ held' THEN "off" ELSE controller
    /\ UNCHANGED <<options, sup, outcome, stop_kind, halt, closed, wire>>
CleansUp == Ends("main") \/ Join \/ Take \/ FinalStatus \/ CloseStep

-----------------------------------------------------------------------------
SessionNext ==
    \/ Open \/ Ask \/ Arm \/ Asked \/ Fails \/ LeaveLoop \/ CleansUp
    \/ Pass \/ Ends("supervisor")
    \/ Serves \/ Breaks

\* The cleanup cannot be interrupted and its calls have time limits; a call of the
\* supervisor may hang, and the controller owes nothing.
SessionFairness == WF_session(CleansUp)
SessionSpec == SessionInit /\ [][SessionNext]_session /\ SessionFairness

-----------------------------------------------------------------------------
(* Properties.                                                             *)

\* A run ends disarmed, with everything given back and the true reason, or says what
\* it left: nothing the machine stands on is taken down while the controller is armed,
\* unless the final status reported it; what is still open has its error; a drive
\* connection is open only for a supervisor that did not finish; and a run that the
\* supervisor stopped is not reported as finished (stop, shutdown, the finally of run_live).
EndsDisarmed ==
    /\ main \in ToSet(Closing) \cup {"done"} =>
          /\ controller = "armed" => "final" \in errors
          /\ "socket" \in held => "join" \in errors
          /\ outcome = "finished" /\ sup # Unset /\ "join" \notin errors => stop_kind = "finished"
    /\ main = "done" => \A i \in DOMAIN Closing : held \cap Returns[i] # {} => Closing[i] \in errors

\* The cleanup ends, also when the supervisor hangs, the controller is gone and every
\* step of the cleanup raises.
CleanupEnds == main \in Cleanup ~> main = "done"
=============================================================================
