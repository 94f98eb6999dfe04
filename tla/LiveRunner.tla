----------------------------- MODULE LiveRunner -----------------------------
(***************************************************************************)
(* The live policy runner: native_stack/tools/vla_live.py with the         *)
(* Supervisor and the TaskList of vla_operator.py.  Three threads share    *)
(* one plan.  The main thread infers: it reads the prompt, observes,       *)
(* computes a chunk and offers it.  The supervisor owns the drive          *)
(* connection: each pass it handles the pad, copies the plan and sends it, *)
(* the sticks or a hold.  A third thread turns typed lines into prompts.   *)
(* Every step is one critical section or one call of a thread.  The pump   *)
(* permission and the success marker change no decision and are left out.  *)
(***************************************************************************)
EXTENDS Integers

CONSTANTS
    MaxAge, FirstPlan, Length, \* of an observation, of the wait for a plan, of a chunk's rows
    MaxTime, MaxChanges        \* bounds: the clock, the changes of the mode and of the prompt

ASSUME LimitAssumption == MaxAge \in Nat /\ FirstPlan \in Nat /\ Length \in Nat
ASSUME BoundAssumption == MaxTime \in Nat /\ MaxChanges \in Nat

VARIABLES
    now, beat,     \* the clock, and whether the supervisor passed since it moved
    mode, plan, fresh, since, \* under Supervisor.lock; since is model_since
    halt, pad,     \* Supervisor.halt; whether there is a gamepad
    version, switches, changes, \* TaskList.version; the mode switches and prompt changes so far
    sup, at, copy, \* the supervisor: its step, its now, what _model_tick copied
    command, switched, \* the last packet it sent; when the mode last changed
    main, applied, chunk,  \* the inference loop: its step, its prompt, what it computes
    typist         \* the thread that reads the terminal

lock == <<mode, plan, fresh, since>>
tasks == <<version, changes>>
supervisor == <<sup, at, copy, command, switched, switches, beat>>
inference == <<main, applied, chunk>>
vars == <<now, lock, halt, pad, tasks, supervisor, inference, typist>>

Times == 0 .. MaxTime
\* seen is the version of the prompts when the sources were read, prefix the
\* observation of the plan whose rows the chunk continues.
Chunks == [obs : Times, prompt : Nat, seen : Nat, prefix : Times \cup {-1}]
NoPlan == [obs |-> -1, prompt |-> 0, seen |-> 0, prefix |-> -1]
\* What a local goes back to once it will not be read again.
NoCopy == [plan |-> NoPlan, fresh |-> FALSE, since |-> 0]

Packet(kind, p) == [kind |-> kind, plan |-> p]
Sends(p) == Packet("plan", p)
Armed == Packet("arm", NoPlan)
Hold == Packet("hold", NoPlan)
Sticks == Packet("sticks", NoPlan)
Disarm == Packet("disarm", NoPlan)
Closed == Packet("closed", NoPlan)

TypeOK ==
    /\ now \in Times /\ beat \in BOOLEAN
    /\ mode \in {"model", "manual"} /\ plan \in Chunks \cup {NoPlan} /\ fresh \in BOOLEAN
    /\ since \in Times /\ halt \in BOOLEAN /\ pad \in BOOLEAN
    /\ version \in Nat /\ switches \in Nat /\ changes \in Nat
    /\ sup \in {"poll", "buttons", "stepping", "act", "send", "status", "shutdown", "ended"}
    /\ at \in Times /\ copy \in [plan : Chunks \cup {NoPlan}, fresh : BOOLEAN, since : Times]
    /\ command \in [kind : {"plan"}, plan : Chunks] \cup {Armed, Hold, Sticks, Disarm, Closed} /\ switched \in Times
    /\ main \in {"top", "observe", "prefix", "infer", "offer", "ended"}
    /\ applied \in Nat /\ chunk \in Chunks \cup {NoPlan}
    /\ typist \in {"read", "add"}

\* Armed, with the mode that the options give.
Init ==
    /\ now = 0 /\ beat = FALSE
    /\ pad \in BOOLEAN /\ mode \in IF pad THEN {"model", "manual"} ELSE {"model"}
    /\ plan = NoPlan /\ fresh = FALSE /\ since = 0 /\ halt = FALSE
    /\ version = 0 /\ switches = 0 /\ changes = 0
    /\ sup = "poll" /\ at = 0 /\ copy = NoCopy
    /\ command = Armed /\ switched = 0
    /\ main = "top" /\ applied = 0 /\ chunk = NoPlan /\ typist = "read"

\* The supervisor, whose period is at most 50 ms, passes at least once a unit.
Tick ==
    /\ now < MaxTime /\ now' = now + 1
    /\ beat \/ sup = "ended"
    /\ beat' = FALSE
    /\ UNCHANGED <<lock, halt, pad, tasks, sup, at, copy, command, switched, switches, inference, typist>>

-----------------------------------------------------------------------------
(* What the threads do under the lock.                                     *)

\* Mutant of Forget: the time of the change is not taken.
Forget_KeepsSince == plan' = NoPlan /\ UNCHANGED since
Forget == plan' = NoPlan /\ since' = now

\* set_mode
SetMode(m) == mode' = m /\ Forget /\ switched' = now /\ UNCHANGED fresh

\* offer: a chunk is refused in manual mode, when it was observed before the
\* last change and when it is not newer than the running plan.
Refused == mode # "model" \/ chunk.obs <= since \/ (plan # NoPlan /\ chunk.obs <= plan.obs)

-----------------------------------------------------------------------------
(* The supervisor thread: run.                                             *)

Goto(from, to) == sup = from /\ sup' = to
Stop == halt' = TRUE /\ sup' = "shutdown"

Poll ==
    /\ sup = "poll" /\ at' = now
    /\ \/ halt /\ sup' = "shutdown" /\ UNCHANGED halt
       \/ ~halt /\ sup' = "buttons" /\ UNCHANGED halt
       \/ ~halt /\ pad /\ Stop
    /\ UNCHANGED <<now, lock, pad, tasks, copy, command, switched, switches, beat, inference, typist>>
ButtonA ==
    /\ sup = "buttons" /\ pad /\ switches < MaxChanges /\ switches' = switches + 1
    /\ SetMode(IF mode = "model" THEN "manual" ELSE "model")
    /\ UNCHANGED <<now, halt, pad, tasks, sup, at, copy, command, beat, inference, typist>>
\* drop_plan, then TaskList.step.
DPad ==
    /\ Goto("buttons", "stepping") /\ pad /\ changes < MaxChanges /\ changes' = changes + 1
    /\ Forget /\ UNCHANGED <<mode, fresh>>
    /\ UNCHANGED <<now, halt, pad, version, at, copy, command, switched, switches, beat, inference, typist>>
StepTask ==
    /\ Goto("stepping", "buttons") /\ version' = version + 1
    /\ UNCHANGED <<now, lock, halt, pad, changes, at, copy, command, switched, switches, beat, inference, typist>>
\* The first critical section of _model_tick.
Copy ==
    /\ Goto("buttons", "send") /\ mode = "model"
    /\ copy' = [plan |-> plan, fresh |-> fresh, since |-> since] /\ fresh' = FALSE
    /\ UNCHANGED <<now, mode, plan, since, halt, pad, tasks, at, command, switched, switches, beat, inference, typist>>
Drive ==
    /\ Goto("buttons", "status") /\ mode = "manual" /\ command' = Sticks /\ at' = 0
    /\ UNCHANGED <<now, lock, halt, pad, tasks, copy, switched, switches, beat, inference, typist>>

\* Mutant of Problem: the age of the observation is not looked at.
Problem_NoAge ==
    IF copy.plan = NoPlan THEN at - copy.since > FirstPlan ELSE at >= copy.plan.obs + Length
Problem ==
    IF copy.plan = NoPlan THEN at - copy.since > FirstPlan
    ELSE at - copy.plan.obs > MaxAge \/ at >= copy.plan.obs + Length

\* _hold: a hold and manual mode with a pad, the end of the run without one.
Doubt ==
    /\ sup = "send" /\ Problem
    /\ \/ pad /\ SetMode("manual") /\ command' = Hold /\ sup' = "status" /\ UNCHANGED halt
       \/ ~pad /\ Stop /\ UNCHANGED <<lock, command, switched>>
    /\ copy' = NoCopy /\ at' = 0
    /\ UNCHANGED <<now, pad, tasks, switches, beat, inference, typist>>
\* A plan that is not fresh is sent when its renewal is due.
Send ==
    /\ Goto("send", "status") /\ ~Problem
    /\ \/ command' = IF copy.plan = NoPlan THEN Hold ELSE Sends(copy.plan)
       \/ copy.plan # NoPlan /\ ~copy.fresh /\ UNCHANGED command
    /\ copy' = NoCopy /\ at' = 0
    /\ UNCHANGED <<now, lock, halt, pad, tasks, switched, switches, beat, inference, typist>>

\* The status may show a controller that is no longer armed.
Status ==
    /\ sup = "status"
    /\ \/ ~halt /\ sup' = "poll" /\ beat' = TRUE /\ UNCHANGED halt
       \/ Stop /\ UNCHANGED beat
    /\ UNCHANGED <<now, lock, pad, tasks, at, copy, command, switched, switches, inference, typist>>
\* A send or a status call raises.
ConnectionFails ==
    /\ sup \in {"buttons", "send", "status"} /\ Stop
    /\ copy' = NoCopy /\ at' = 0
    /\ UNCHANGED <<now, lock, pad, tasks, command, switched, switches, beat, inference, typist>>
\* The disarm may fail too; the controller then sees the connection close.
Shutdown ==
    /\ Goto("shutdown", "ended") /\ command' \in {Disarm, Closed}
    /\ UNCHANGED <<now, lock, halt, pad, tasks, at, copy, switched, switches, beat, inference, typist>>

-----------------------------------------------------------------------------
(* The main thread: the inference loop of run_live.                        *)

Step(from, to) == main = from /\ main' = to

\* Nothing is inferred in manual mode; the prompt is taken before the observation.
Top ==
    /\ Step("top", "observe") /\ ~halt /\ mode = "model"
    /\ applied' = version
    /\ UNCHANGED <<now, lock, halt, pad, tasks, supervisor, chunk, typist>>
\* The observation is as old as the oldest of its sources.
Observe ==
    /\ Step("observe", "prefix")
    /\ \E obs \in {now - 1, now} \cap Times :
          chunk' = [obs |-> obs, prompt |-> applied, seen |-> version, prefix |-> -1]
    /\ UNCHANGED <<now, lock, halt, pad, tasks, supervisor, applied, typist>>
\* A snapshot that is refused, and a history that is filling, end the iteration.
Incoherent ==
    /\ main \in {"observe", "infer"} /\ main' = "top" /\ chunk' = NoPlan
    /\ UNCHANGED <<now, lock, halt, pad, tasks, supervisor, applied, typist>>
\* running_plan and committed_rows.
Prefix ==
    /\ Step("prefix", "infer") /\ chunk' = [chunk EXCEPT !.prefix = plan.obs]
    /\ UNCHANGED <<now, lock, halt, pad, tasks, supervisor, applied, typist>>

\* Mutant of Current: the prompt is not compared again after the inference.
Current_Unchecked == TRUE
Current == version = applied
Check ==
    /\ Step("infer", IF Current THEN "offer" ELSE "top")
    /\ chunk' = IF Current THEN chunk ELSE NoPlan
    /\ UNCHANGED <<now, lock, halt, pad, tasks, supervisor, applied, typist>>
Offer ==
    /\ Step("offer", "top")
    /\ IF Refused THEN UNCHANGED <<plan, fresh>> ELSE plan' = chunk /\ fresh' = TRUE
    /\ chunk' = NoPlan
    /\ UNCHANGED <<now, mode, since, halt, pad, tasks, supervisor, applied, typist>>
\* The run is over, interrupted, or the inference raised: the supervisor is stopped.
End ==
    /\ main # "ended" /\ main' = "ended" /\ halt' = TRUE /\ chunk' = NoPlan
    /\ UNCHANGED <<now, lock, pad, tasks, supervisor, applied, typist>>

-----------------------------------------------------------------------------
(* The thread that reads prompts: drop_plan, then TaskList.add.            *)

Type ==
    /\ typist = "read" /\ typist' = "add" /\ changes < MaxChanges /\ changes' = changes + 1
    /\ Forget /\ UNCHANGED <<mode, fresh>>
    /\ UNCHANGED <<now, halt, pad, version, supervisor, inference>>
Add ==
    /\ typist = "add" /\ typist' = "read" /\ version' = version + 1
    /\ UNCHANGED <<now, lock, halt, pad, changes, supervisor, inference>>

-----------------------------------------------------------------------------
Pass == Poll \/ ButtonA \/ DPad \/ StepTask \/ Copy \/ Drive \/ Doubt \/ Send \/ Status
        \/ ConnectionFails \/ Shutdown
Infers == Top \/ Observe \/ Incoherent \/ Prefix \/ Check \/ Offer \/ End
Next == Tick \/ Pass \/ Infers \/ Type \/ Add

\* An inference may hang for ever; a run may stop at any step.
Spec == Init /\ [][Next]_vars

-----------------------------------------------------------------------------
(* Properties.                                                             *)

\* Never resume a plan from before the switch: every plan that is sent was
\* observed after the mode last changed (set_mode, offer, _model_tick).
NeverResumes == [][command'.kind = "plan" /\ command' # command => command'.plan.obs > switched]_vars

\* A chunk that becomes the plan was inferred under the prompt that was current
\* when its sources were read (the loop's second look at TaskList.current).
PlanHasItsPrompt == plan # NoPlan => plan.prompt = plan.seen

\* A chunk that becomes the plan continues the plan it replaces: the rows it was
\* committed to are those of the plan running at that moment, and none when the
\* machine holds (running_plan, committed_rows, offer).
ContinuesRunning == [][plan' # plan /\ plan' # NoPlan => plan'.prefix = plan.obs]_vars

\* The machine follows one line of plans: none comes back and each continues the last.
OneLineOfPlans == NeverResumes /\ ContinuesRunning

\* The supervisor stops on doubt: it never lets a plan run longer than the age
\* limit, a chunk beyond its rows, nor a hold without a plan beyond its limit, by
\* more than two of its passes, whatever the inference does (_model_tick, _hold).
DoubtEnds ==
    sup # "ended" =>
        /\ command.kind = "plan" =>
              now <= command.plan.obs + MaxAge + 2 /\ now <= command.plan.obs + Length + 1
        /\ mode = "model" /\ command = Hold => now <= since + FirstPlan + 2

-----------------------------------------------------------------------------
(* What vla_live.py says and the code does not do.                         *)

\* A change of the prompt drops the plan, and the machine holds until the first
\* chunk observed under the new prompt: between changes the plan has the prompt.
HoldsForNewPrompt ==
    plan # NoPlan /\ typist = "read" /\ sup # "stepping" => plan.prompt = version
=============================================================================
