-------------------------- MODULE LiveRunner_proofs --------------------------
(***************************************************************************)
(* What holds of the live policy runner for every limit, every chunk       *)
(* length, every clock and any number of switches and prompt changes.      *)
(***************************************************************************)
EXTENDS LiveRunner, TLAPS

Packets == [kind : {"plan"}, plan : Chunks] \cup {Armed, Hold, Sticks, Disarm, Closed}

LEMMA NoPlanIsNone == NoPlan \notin Chunks /\ NoPlan.obs = -1 /\ NoPlan.prefix = -1
BY DEF NoPlan, Chunks, Times

LEMMA SendsAPlan == \A p \in Chunks : Sends(p) \in Packets
BY DEF Sends, Packet, Packets, Chunks

LEMMA OnlyPlansArePlans ==
    /\ Armed.kind # "plan" /\ Hold.kind # "plan" /\ Sticks.kind # "plan"
    /\ Disarm.kind # "plan" /\ Closed.kind # "plan"
    /\ \A p : Sends(p).kind = "plan" /\ Sends(p).plan = p
BY DEF Armed, Hold, Sticks, Disarm, Closed, Sends, Packet

Copies == [plan : Chunks \cup {NoPlan}, fresh : BOOLEAN, since : Times]

\* The parts of TypeOK that move together.
LockTypes ==
    /\ mode \in {"model", "manual"} /\ plan \in Chunks \cup {NoPlan} /\ fresh \in BOOLEAN
    /\ since \in Times
ClockTypes == now \in Times /\ beat \in BOOLEAN /\ at \in Times /\ switched \in Times
CountTypes == version \in Nat /\ switches \in Nat /\ changes \in Nat /\ applied \in Nat
StepTypes ==
    /\ sup \in {"poll", "buttons", "stepping", "act", "send", "status", "shutdown", "ended"}
    /\ main \in {"top", "observe", "prefix", "infer", "offer", "ended"}
    /\ typist \in {"read", "add"} /\ halt \in BOOLEAN /\ pad \in BOOLEAN
DataTypes ==
    /\ copy \in Copies /\ command \in Packets /\ chunk \in Chunks \cup {NoPlan}

LEMMA TypeParts == TypeOK <=> LockTypes /\ ClockTypes /\ CountTypes /\ StepTypes /\ DataTypes
BY DEF TypeOK, LockTypes, ClockTypes, CountTypes, StepTypes, DataTypes, Copies, Packets

LEMMA InitialTypes == Init => TypeOK
<1> SUFFICES ASSUME Init PROVE LockTypes /\ ClockTypes /\ CountTypes /\ StepTypes /\ DataTypes
  BY TypeParts
<1>1. 0 \in Times
  BY BoundAssumption DEF Times
<1> QED
  BY <1>1 DEF Init, LockTypes, ClockTypes, CountTypes, StepTypes, DataTypes, Copies, Packets, NoCopy


\* What the inference loop has in hand once it observed: a chunk of the prompt it
\* applied, from sources no newer than the clock, read when the prompts had at
\* least that version.
Inferring ==
    /\ applied <= version
    /\ main \in {"prefix", "infer", "offer"} =>
          /\ chunk \in Chunks /\ chunk.obs <= now
          /\ chunk.prompt = applied /\ applied <= chunk.seen /\ chunk.seen <= version

LEMMA LockTyped == LockTypes /\ ClockTypes /\ DataTypes /\ [Next]_vars => LockTypes'
<1> SUFFICES ASSUME LockTypes, ClockTypes, DataTypes, [Next]_vars PROVE LockTypes'
  OBVIOUS
<1> USE DEF LockTypes, ClockTypes, DataTypes
<1>1. CASE Pass
  BY <1>1 DEF Pass, Poll, ButtonA, DPad, StepTask, Copy, Drive, Doubt, Send, Status, ConnectionFails,
     Shutdown, SetMode, Forget, lock
<1>2. CASE Infers
  BY <1>2 DEF Infers, Top, Observe, Incoherent, Prefix, Check, Offer, End, lock
<1>3. CASE Tick \/ Type \/ Add \/ UNCHANGED vars
  BY <1>3 DEF Tick, Type, Add, Forget, lock, vars
<1> QED
  BY <1>1, <1>2, <1>3 DEF Next

LEMMA ClockTyped == LockTypes /\ ClockTypes /\ [Next]_vars => ClockTypes'
<1> SUFFICES ASSUME LockTypes, ClockTypes, [Next]_vars PROVE ClockTypes'
  OBVIOUS
<1> USE DEF LockTypes, ClockTypes
<1>0. 0 \in Times /\ (now < MaxTime => now + 1 \in Times)
  BY BoundAssumption DEF Times
<1>1. CASE Pass
  BY <1>0, <1>1 DEF Pass, Poll, ButtonA, DPad, StepTask, Copy, Drive, Doubt, Send, Status,
     ConnectionFails, Shutdown, SetMode, lock
<1>2. CASE Infers
  BY <1>2 DEF Infers, Top, Observe, Incoherent, Prefix, Check, Offer, End, supervisor
<1>3. CASE Tick \/ Type \/ Add \/ UNCHANGED vars
  BY <1>0, <1>3 DEF Tick, Type, Add, supervisor, vars
<1> QED
  BY <1>1, <1>2, <1>3 DEF Next

LEMMA CountTyped == CountTypes /\ [Next]_vars => CountTypes'
<1> SUFFICES ASSUME CountTypes, [Next]_vars PROVE CountTypes'
  OBVIOUS
<1> USE DEF CountTypes
<1>1. CASE Pass
  BY <1>1 DEF Pass, Poll, ButtonA, DPad, StepTask, Copy, Drive, Doubt, Send, Status, ConnectionFails,
     Shutdown, SetMode, inference, tasks
<1>2. CASE Infers
  BY <1>2 DEF Infers, Top, Observe, Incoherent, Prefix, Check, Offer, End, supervisor, tasks
<1>3. CASE Tick \/ Type \/ Add \/ UNCHANGED vars
  BY <1>3 DEF Tick, Type, Add, supervisor, inference, tasks, vars
<1> QED
  BY <1>1, <1>2, <1>3 DEF Next

LEMMA StepTyped == StepTypes /\ [Next]_vars => StepTypes'
<1> SUFFICES ASSUME StepTypes, [Next]_vars PROVE StepTypes'
  OBVIOUS
<1> USE DEF StepTypes
<1>1. CASE Pass
  BY <1>1 DEF Pass, Poll, ButtonA, DPad, StepTask, Copy, Drive, Doubt, Send, Status, ConnectionFails,
     Shutdown, SetMode, inference, Goto, Stop
<1>2. CASE Infers
  BY <1>2 DEF Infers, Top, Observe, Incoherent, Prefix, Check, Offer, End, supervisor, Step
<1>3. CASE Tick \/ Type \/ Add \/ UNCHANGED vars
  BY <1>3 DEF Tick, Type, Add, supervisor, inference, vars
<1> QED
  BY <1>1, <1>2, <1>3 DEF Next

LEMMA DataTyped ==
    LockTypes /\ ClockTypes /\ CountTypes /\ DataTypes /\ Inferring /\ [Next]_vars => DataTypes'
<1> SUFFICES ASSUME LockTypes, ClockTypes, CountTypes, DataTypes, Inferring, [Next]_vars
             PROVE  DataTypes'
  OBVIOUS
<1> USE DEF DataTypes
<1>0. NoCopy \in Copies /\ \A p \in Chunks \cup {NoPlan}, f \in BOOLEAN, s \in Times :
                             [plan |-> p, fresh |-> f, since |-> s] \in Copies
  BY BoundAssumption DEF NoCopy, Copies, Times
<1>1. CASE Pass
  <2>1. {Armed, Hold, Sticks, Disarm, Closed} \subseteq Packets
    BY DEF Packets
  <2>2. Send => command' \in Packets
    <3> SUFFICES ASSUME Send, copy.plan # NoPlan PROVE Sends(copy.plan) \in Packets
      BY <2>1 DEF Send
    <3>1. copy.plan \in Chunks
      BY DEF Copies
    <3> QED
      BY <3>1, SendsAPlan
  <2>3. chunk' = chunk
    BY <1>1 DEF Pass, Poll, ButtonA, DPad, StepTask, Copy, Drive, Doubt, Send, Status,
       ConnectionFails, Shutdown, inference
  <2>4. copy' \in Copies
    BY <1>0, <1>1 DEF Pass, Poll, ButtonA, DPad, StepTask, Copy, Drive, Doubt, Send, Status,
       ConnectionFails, Shutdown, LockTypes
  <2>5. command' \in Packets
    BY <1>1, <2>1, <2>2 DEF Pass, Poll, ButtonA, DPad, StepTask, Copy, Drive, Doubt, Status,
       ConnectionFails, Shutdown
  <2> QED
    BY <2>3, <2>4, <2>5
<1>2. CASE Infers
  <2>1. UNCHANGED <<copy, command>>
    BY <1>2 DEF Infers, Top, Observe, Incoherent, Prefix, Check, Offer, End, supervisor
  <2>2. Observe => chunk' \in Chunks
    BY DEF Observe, Chunks, CountTypes
  <2>3. Prefix => chunk' \in Chunks
    <3> SUFFICES ASSUME Prefix PROVE [chunk EXCEPT !.prefix = plan.obs] \in Chunks
      BY DEF Prefix
    <3>1. chunk \in Chunks
      BY DEF Inferring, Prefix, Step
    <3>2. plan.obs \in Times \cup {-1}
      BY NoPlanIsNone DEF LockTypes, Chunks
    <3> QED
      BY <3>1, <3>2 DEF Chunks
  <2>4. chunk' \in Chunks \cup {NoPlan}
    BY <1>2, <2>2, <2>3 DEF Infers, Top, Incoherent, Check, Offer, End
  <2> QED
    BY <2>1, <2>4
<1>3. CASE Tick \/ Type \/ Add \/ UNCHANGED vars
  BY <1>3 DEF Tick, Type, Add, supervisor, inference, vars
<1> QED
  BY <1>1, <1>2, <1>3 DEF Next

LEMMA InferringKept == TypeOK /\ Inferring /\ [Next]_vars => Inferring'
<1> SUFFICES ASSUME TypeOK, Inferring, [Next]_vars PROVE Inferring'
  OBVIOUS
<1>0. now \in Nat /\ version \in Nat /\ applied \in Nat
  BY DEF TypeOK, Times
<1>1. CASE Pass \/ Tick \/ Type \/ Add \/ UNCHANGED vars
  <2>1. UNCHANGED <<main, applied, chunk>>
    BY <1>1 DEF Pass, Poll, ButtonA, DPad, StepTask, Copy, Drive, Doubt, Send, Status,
       ConnectionFails, Shutdown, Tick, Type, Add, inference, vars
  <2>2. now <= now' /\ version <= version' /\ now' \in Nat /\ version' \in Nat
    BY <1>0, <1>1 DEF Pass, Poll, ButtonA, DPad, StepTask, Copy, Drive, Doubt, Send, Status,
       ConnectionFails, Shutdown, Tick, Type, Add, tasks, vars
  <2>3. chunk \in Chunks => chunk.obs \in Int /\ chunk.seen \in Int
    BY DEF Chunks, Times
  <2> QED
    BY <1>0, <2>1, <2>2, <2>3 DEF Inferring
<1>2. CASE Infers
  <2>1. UNCHANGED <<now, version>>
    BY <1>2 DEF Infers, Top, Observe, Incoherent, Prefix, Check, Offer, End, tasks
  <2>2. CASE Prefix
    <3>1. chunk \in Chunks /\ main = "prefix" /\ main' = "infer" /\ applied' = applied
      BY <2>2 DEF Prefix, Step, Inferring
    <3>2. plan.obs \in Times \cup {-1}
      BY NoPlanIsNone DEF TypeOK, Chunks
    <3>3. /\ chunk' \in Chunks /\ chunk'.obs = chunk.obs /\ chunk'.prompt = chunk.prompt
          /\ chunk'.seen = chunk.seen
      BY <2>2, <3>1, <3>2 DEF Prefix, Chunks
    <3> QED
      BY <2>1, <3>1, <3>3 DEF Inferring
  <2>3. CASE Observe
    <3>1. PICK obs \in {now - 1, now} \cap Times :
             chunk' = [obs |-> obs, prompt |-> applied, seen |-> version, prefix |-> -1]
      BY <2>3 DEF Observe
    <3>2. obs <= now /\ chunk' \in Chunks /\ applied' = applied
      BY <1>0, <2>3, <3>1 DEF Observe, Chunks, Times
    <3> QED
      BY <1>0, <2>1, <3>1, <3>2 DEF Inferring
  <2>4. CASE Top \/ Incoherent \/ Offer \/ End
    <3>1. main' \notin {"prefix", "infer", "offer"} /\ applied' <= version
      BY <1>0, <2>4 DEF Top, Incoherent, Offer, End, Step, Inferring
    <3> QED
      BY <2>1, <3>1 DEF Inferring
  <2>5. CASE Check
    BY <2>1, <2>5 DEF Check, Step, Inferring
  <2> QED
    BY <1>2, <2>2, <2>3, <2>4, <2>5 DEF Infers
<1> QED
  BY <1>1, <1>2 DEF Next

IInv == TypeOK /\ Inferring

LEMMA RunnerInvariant == Spec => []IInv
<1>1. Init => IInv
  BY InitialTypes DEF IInv, Inferring, Init
<1>2. IInv /\ [Next]_vars => IInv'
  <2>1. IInv /\ [Next]_vars => (LockTypes /\ ClockTypes /\ CountTypes /\ StepTypes /\ DataTypes)'
    BY LockTyped, ClockTyped, CountTyped, StepTyped, DataTyped, TypeParts DEF IInv
  <2>2. (LockTypes /\ ClockTypes /\ CountTypes /\ StepTypes /\ DataTypes)' => TypeOK'
    BY DEF TypeOK, LockTypes, ClockTypes, CountTypes, StepTypes, DataTypes, Copies, Packets
  <2> QED
    BY <2>1, <2>2, InferringKept DEF IInv
<1> QED
  BY <1>1, <1>2, PTL DEF Spec

\* Whatever the three threads do, every variable keeps its type: the loop never
\* offers anything but a chunk, and the supervisor never sends anything else.
THEOREM RunnerTypes == Spec => []TypeOK
<1>1. IInv => TypeOK
  BY DEF IInv
<1> QED
  BY <1>1, RunnerInvariant, PTL

-----------------------------------------------------------------------------
(* The prompt and the switches.                                            *)

\* What is offered was inferred under the prompt that was current when its
\* sources were read, and so was the plan.
PromptInv ==
    /\ main = "offer" => chunk.prompt = chunk.seen
    /\ PlanHasItsPrompt

\* A plan is newer than the last change, and so is the copy that is being sent.
SwitchInv ==
    /\ switched <= since /\ since <= now
    /\ plan # NoPlan => plan.obs > since
    /\ sup = "send" /\ copy.plan # NoPlan => copy.plan.obs > switched

\* A chunk that can still be accepted continues the plan of this moment.
ChainInv == main \in {"infer", "offer"} /\ chunk.obs > since => chunk.prefix = plan.obs

LEMMA Numbers ==
    TypeOK => /\ now \in Nat /\ since \in Nat /\ switched \in Nat /\ version \in Nat /\ applied \in Nat
              /\ plan.obs \in Int /\ chunk.obs \in Int /\ copy.plan.obs \in Int
BY NoPlanIsNone DEF TypeOK, Times, Chunks

LEMMA PromptKept == IInv /\ PromptInv /\ [Next]_vars => PromptInv'
<1> SUFFICES ASSUME IInv, PromptInv, [Next]_vars PROVE PromptInv'
  OBVIOUS
<1> USE DEF PromptInv, PlanHasItsPrompt
<1>1. CASE Pass \/ Tick \/ Type \/ Add \/ UNCHANGED vars
  <2>1. UNCHANGED <<main, chunk>>
    BY <1>1 DEF Pass, Poll, ButtonA, DPad, StepTask, Copy, Drive, Doubt, Send, Status,
       ConnectionFails, Shutdown, Tick, Type, Add, inference, vars
  <2>2. plan' \in {plan, NoPlan}
    BY <1>1 DEF Pass, Poll, ButtonA, DPad, StepTask, Copy, Drive, Doubt, Send, Status,
       ConnectionFails, Shutdown, Tick, Type, Add, SetMode, Forget, lock, vars
  <2> QED
    BY <2>1, <2>2
<1>2. CASE Offer
  BY <1>2 DEF Offer, Step
<1>3. CASE Check
  <2>1. Current => chunk.prompt = chunk.seen
    <3> SUFFICES ASSUME Current PROVE chunk.prompt = chunk.seen
      OBVIOUS
    <3>1. chunk \in Chunks /\ chunk.prompt = version /\ version <= chunk.seen /\ chunk.seen <= version
      BY <1>3 DEF IInv, Inferring, Check, Step, Current
    <3> QED
      BY <3>1, Numbers DEF IInv, Chunks
  <2> QED
    BY <1>3, <2>1 DEF Check, Step, lock
<1>4. CASE Top \/ Observe \/ Incoherent \/ Prefix \/ End
  BY <1>4 DEF Top, Observe, Incoherent, Prefix, End, Step, lock
<1> QED
  BY <1>1, <1>2, <1>3, <1>4 DEF Next, Infers

\* A chunk that becomes the plan was inferred under the prompt that was current
\* when its sources were read: the second look at the task list catches every change
\* made from before the observation until after the inference.
THEOREM PlansHaveTheirPrompt == Spec => []PlanHasItsPrompt
<1>1. Init => PromptInv
  BY DEF Init, PromptInv, PlanHasItsPrompt
<1>2. PromptInv => PlanHasItsPrompt
  BY DEF PromptInv
<1> QED
  BY <1>1, <1>2, PromptKept, RunnerInvariant, PTL DEF Spec

\* A change forgets the plan and moves since to the clock; nothing else touches
\* either but an accepted offer.
LEMMA LockEffects ==
    [Next]_vars =>
        \/ UNCHANGED <<plan, since>>
        \/ Forget /\ UNCHANGED <<now, main, chunk>> /\ (switched' = switched \/ switched' = now)
        \/ Offer /\ ~Refused /\ plan' = chunk
<1> SUFFICES ASSUME [Next]_vars
             PROVE \/ UNCHANGED <<plan, since>>
                   \/ Forget /\ UNCHANGED <<now, main, chunk>> /\ (switched' = switched \/ switched' = now)
                   \/ Offer /\ ~Refused /\ plan' = chunk
  OBVIOUS
<1>1. CASE ButtonA \/ DPad \/ Doubt \/ Type
  BY <1>1 DEF ButtonA, DPad, Doubt, Type, SetMode, inference, supervisor, lock
<1>2. CASE Offer
  BY <1>2 DEF Offer
<1>3. CASE Tick \/ Poll \/ StepTask \/ Copy \/ Drive \/ Send \/ Status \/ ConnectionFails \/ Shutdown
          \/ Top \/ Observe \/ Incoherent \/ Prefix \/ Check \/ End \/ Add \/ UNCHANGED vars
  BY <1>3 DEF Tick, Poll, StepTask, Copy, Drive, Send, Status, ConnectionFails, Shutdown, Top, Observe,
     Incoherent, Prefix, Check, End, Add, lock, vars
<1> QED
  BY <1>1, <1>2, <1>3 DEF Next, Pass, Infers

LEMMA SwitchKept == IInv /\ SwitchInv /\ [Next]_vars => SwitchInv'
<1> SUFFICES ASSUME IInv, SwitchInv, [Next]_vars PROVE SwitchInv'
  OBVIOUS
<1> USE DEF SwitchInv
<1>0. /\ now \in Nat /\ since \in Nat /\ switched \in Nat /\ now <= now' /\ now' \in Nat
      /\ plan.obs \in Int /\ copy.plan.obs \in Int /\ NoPlan.obs \in Int
  <2>1. now \in Nat => now <= now' /\ now' \in Nat
    BY DEF Next, Pass, Infers, Poll, ButtonA, DPad, StepTask, Copy, Drive, Doubt, Send, Status,
       ConnectionFails, Shutdown, Tick, Type, Add, Top, Observe, Incoherent, Prefix, Check, Offer, End, vars
  <2> QED
    BY <2>1, Numbers, NoPlanIsNone DEF IInv
<1>1. since' <= now' /\ (plan' # NoPlan => plan'.obs > since')
  <2>1. CASE UNCHANGED <<plan, since>>
    BY <1>0, <2>1
  <2>2. CASE Forget /\ UNCHANGED now
    BY <1>0, <2>2 DEF Forget
  <2>3. CASE Offer /\ ~Refused /\ plan' = chunk
    BY <1>0, <2>3, Numbers DEF Offer, Refused, IInv
  <2> QED
    BY <2>1, <2>2, <2>3, LockEffects
<1>2. CASE ButtonA \/ Doubt
  <2>1. switched' <= since' /\ sup' # "send"
    <3>1. CASE ButtonA
      BY <1>0, <3>1 DEF ButtonA, SetMode, Forget
    <3>2. CASE Doubt
      BY <1>0, <3>2 DEF Doubt, SetMode, Forget, Stop, lock
    <3> QED
      BY <1>2, <3>1, <3>2
  <2> QED
    BY <1>1, <2>1
<1>3. CASE Copy
  BY <1>0, <1>1, <1>3 DEF Copy, lock
<1>4. CASE ~ButtonA /\ ~Doubt /\ ~Copy
  <2>1. switched' = switched
    BY <1>4 DEF Next, Pass, Infers, Poll, DPad, StepTask, Drive, Send, Status, ConnectionFails,
       Shutdown, Tick, Type, Add, Top, Observe, Incoherent, Prefix, Check, Offer, End, supervisor, vars
  <2>2. sup' = "send" => sup = "send" /\ copy' = copy
    BY <1>4 DEF Next, Pass, Infers, Poll, DPad, StepTask, Drive, Send, Status, ConnectionFails, Goto,
       Stop, Shutdown, Tick, Type, Add, Top, Observe, Incoherent, Prefix, Check, Offer, End, supervisor,
       vars
  <2>3. since' = since \/ (since' = now /\ now' = now)
    BY LockEffects DEF Forget, Offer
  <2> QED
    BY <1>0, <1>1, <2>1, <2>2, <2>3
<1> QED
  BY <1>2, <1>3, <1>4

LEMMA Switches == Spec => []SwitchInv
<1>1. Init => SwitchInv
  BY DEF Init, SwitchInv
<1> QED
  BY <1>1, SwitchKept, RunnerInvariant, PTL DEF Spec

\* Whatever the interleaving of a switch, a copy, a send and an offer, a plan that
\* is sent was observed after the mode last changed.
THEOREM OldPlansStayDropped == Spec => NeverResumes
<1>1. SwitchInv /\ [Next]_vars =>
        [command'.kind = "plan" /\ command' # command => command'.plan.obs > switched]_vars
  <2> SUFFICES ASSUME SwitchInv, Next, command'.kind = "plan", command' # command
               PROVE  command'.plan.obs > switched
    BY DEF vars, supervisor
  <2>1. Send
    BY OnlyPlansArePlans DEF Next, Pass, Infers, Poll, ButtonA, DPad, StepTask, Copy, Drive, Doubt, Status,
       ConnectionFails, Shutdown, Tick, Type, Add, Top, Observe, Incoherent, Prefix, Check, Offer, End,
       supervisor
  <2>2. copy.plan # NoPlan /\ command' = Sends(copy.plan)
    BY <2>1, OnlyPlansArePlans DEF Send
  <2> QED
    BY <2>1, <2>2, OnlyPlansArePlans DEF SwitchInv, Send, Goto
<1> QED
  BY <1>1, Switches, PTL DEF Spec, NeverResumes

LEMMA ChainKept == IInv /\ SwitchInv /\ ChainInv /\ [Next]_vars => ChainInv'
<1> SUFFICES ASSUME IInv, SwitchInv, ChainInv, [Next]_vars PROVE ChainInv'
  OBVIOUS
<1> USE DEF ChainInv
<1>1. CASE UNCHANGED <<plan, since>>
  <2>1. CASE Prefix
    <3>1. chunk \in Chunks /\ chunk' = [chunk EXCEPT !.prefix = plan.obs]
      BY <2>1 DEF Prefix, Step, IInv, Inferring
    <3>2. chunk'.prefix = plan.obs
      BY <3>1 DEF Chunks
    <3> QED
      BY <1>1, <3>2
  <2>2. CASE ~Prefix
    <3>1. main' \in {"infer", "offer"} => main \in {"infer", "offer"} /\ chunk' = chunk
      BY <2>2 DEF Next, Pass, Infers, Poll, ButtonA, DPad, StepTask, Copy, Drive, Doubt, Send, Status,
         ConnectionFails, Shutdown, Tick, Type, Add, Top, Observe, Incoherent, Check, Offer, End, Step,
         inference, vars
    <3> QED
      BY <1>1, <3>1
  <2> QED
    BY <2>1, <2>2
<1>2. CASE Forget /\ UNCHANGED <<now, main, chunk>>
  <2>1. main \in {"infer", "offer"} => chunk.obs <= now /\ chunk.obs \in Int /\ now \in Int
    BY Numbers DEF IInv, Inferring
  <2> QED
    BY <1>2, <2>1 DEF Forget
<1>3. CASE Offer
  BY <1>3 DEF Offer, Step
<1> QED
  BY <1>1, <1>2, <1>3, LockEffects

\* Whoever forgets a plan while a chunk is inferred, the chunk that becomes the
\* plan continues exactly the plan that it replaces.
THEOREM ChunksContinue == Spec => ContinuesRunning
<1>1. Init => ChainInv
  BY DEF Init, ChainInv
<1>2. IInv /\ SwitchInv /\ ChainInv /\ [Next]_vars =>
        [plan' # plan /\ plan' # NoPlan => plan'.prefix = plan.obs]_vars
  <2> SUFFICES ASSUME IInv, ChainInv, Next, plan' # plan, plan' # NoPlan PROVE plan'.prefix = plan.obs
    OBVIOUS
  <2>1. Offer /\ ~Refused /\ plan' = chunk
    BY LockEffects DEF Forget
  <2> QED
    BY <2>1, Numbers DEF Offer, Step, Refused, ChainInv, IInv
<1> QED
  BY <1>1, <1>2, ChainKept, RunnerInvariant, Switches, PTL DEF Spec, ContinuesRunning

\* No plan comes back and each continues the plan it replaces.
THEOREM PlansAreOneLine == Spec => OneLineOfPlans
BY OldPlansStayDropped, ChunksContinue DEF OneLineOfPlans

-----------------------------------------------------------------------------
(* The supervisor's doubt.                                                 *)

\* Which plan is in whose hands: a plan that is no longer fresh was sent or is
\* being sent, and a copy that is no longer fresh was sent.
HandsInv ==
    /\ mode # "model" => plan = NoPlan
    /\ plan # NoPlan /\ ~fresh /\ sup \notin {"shutdown", "ended"} =>
          command = Sends(plan) \/ (sup = "send" /\ copy.fresh /\ copy.plan = plan)
    /\ sup = "send" /\ plan # NoPlan /\ ~fresh => copy.plan = plan
    /\ sup = "send" /\ copy.plan # NoPlan /\ ~copy.fresh => command = Sends(copy.plan)
    /\ sup = "send" => copy.since <= since

\* The clock moves at most once within a pass of the supervisor.
PassInv ==
    sup \in {"buttons", "stepping", "send"} => at <= now /\ now <= at + 1 /\ (beat => now = at)

\* What was right at time n has been so for at most two passes.
Within(n) ==
    /\ now <= n + 2 /\ (beat => now <= n + 1)
    /\ sup = "status" => now <= n + 1 /\ (beat => now <= n)
DoubtInv ==
    sup # "ended" =>
        /\ command.kind = "plan" =>
              Within(command.plan.obs + MaxAge) /\ Within(command.plan.obs + Length - 1)
        /\ mode = "model" /\ command = Hold => Within(since + FirstPlan)

LEMMA HandsKept == IInv /\ SwitchInv /\ HandsInv /\ [Next]_vars => HandsInv'
<1> SUFFICES ASSUME IInv, SwitchInv, HandsInv, [Next]_vars PROVE HandsInv'
  OBVIOUS
<1> USE DEF HandsInv
<1>0. /\ since \in Nat /\ now \in Nat /\ copy.since \in Int /\ since <= now
      /\ copy \in Copies
  BY Numbers DEF IInv, TypeOK, SwitchInv, Times, Copies
<1>1. CASE ButtonA \/ DPad \/ Type
  BY <1>0, <1>1 DEF ButtonA, DPad, Type, SetMode, Forget, Goto, supervisor
<1>2. CASE Copy
  <2>1. /\ copy'.plan = plan /\ copy'.fresh = fresh /\ copy'.since = since
        /\ sup = "buttons" /\ sup' = "send" /\ fresh' = FALSE /\ UNCHANGED <<mode, plan, since, command>>
    BY <1>2 DEF Copy, Goto
  <2>2. fresh \in BOOLEAN
    BY DEF IInv, TypeOK
  <2> QED
    BY <1>0, <2>1, <2>2 DEF Sends
<1>3. CASE Doubt
  <2>1. CASE pad /\ SetMode("manual") /\ sup' = "status"
    BY <2>1 DEF SetMode, Forget
  <2>2. CASE Stop /\ UNCHANGED <<lock, command, switched>>
    BY <2>2 DEF Stop, lock
  <2> QED
    BY <1>3, <2>1, <2>2 DEF Doubt
<1>4. CASE Send
  BY <1>0, <1>4 DEF Send, Goto, lock
<1>5. CASE Drive
  BY <1>5 DEF Drive, Goto, lock
<1>6. CASE Offer
  BY <1>6 DEF Offer, Refused, supervisor
<1>7. CASE Poll \/ StepTask \/ Status \/ ConnectionFails \/ Shutdown
  BY <1>7 DEF Poll, StepTask, Status, ConnectionFails, Shutdown, Goto, Stop, lock
<1>8. CASE Tick \/ Top \/ Observe \/ Incoherent \/ Prefix \/ Check \/ End \/ Add \/ UNCHANGED vars
  BY <1>8 DEF Tick, Top, Observe, Incoherent, Prefix, Check, End, Add, lock, supervisor, vars
<1> QED
  BY <1>1, <1>2, <1>3, <1>4, <1>5, <1>6, <1>7, <1>8 DEF Next, Pass, Infers

\* How the clock and the supervisor's pass move together: the clock only after a
\* completed pass, which only a status ends.
LEMMA PassEffects ==
    ASSUME [Next]_vars, sup' # "ended"
    PROVE  /\ sup # "ended"
           /\ \/ now' = now
              \/ now' = now + 1 /\ beat /\ ~beat' /\ UNCHANGED <<sup, at, command, mode, since>>
           /\ beat' => beat \/ (sup = "status" /\ sup' = "poll")
           /\ sup' = "status" => sup = "status" \/ Drive \/ Doubt \/ Send
<1>1. CASE Tick
  BY <1>1 DEF Tick, lock
<1>2. CASE Pass
  <2>1. CASE Drive \/ Doubt \/ Send
    <3>1. now' = now /\ beat' = beat /\ sup # "ended"
      BY <2>1 DEF Drive, Doubt, Send, Goto
    <3> QED
      BY <2>1, <3>1
  <2>2. CASE Status
    BY <2>2 DEF Status, Stop
  <2>3. CASE Poll \/ ButtonA \/ DPad \/ StepTask \/ Copy
    <3>1. now' = now /\ beat' = beat /\ sup # "ended" /\ sup' # "status"
      BY <2>3 DEF Poll, ButtonA, DPad, StepTask, Copy, Goto, Stop
    <3> QED
      BY <3>1
  <2>4. CASE ConnectionFails \/ Shutdown
    <3>1. now' = now /\ beat' = beat /\ sup # "ended" /\ sup' # "status"
      BY <2>4 DEF ConnectionFails, Shutdown, Goto, Stop
    <3> QED
      BY <3>1
  <2> QED
    BY <1>2, <2>1, <2>2, <2>3, <2>4 DEF Pass
<1>3. CASE Infers \/ Type \/ Add \/ UNCHANGED vars
  BY <1>3 DEF Infers, Top, Observe, Incoherent, Prefix, Check, Offer, End, Type, Add, supervisor, vars
<1> QED
  BY <1>1, <1>2, <1>3 DEF Next

LEMMA PassKept == IInv /\ PassInv /\ [Next]_vars => PassInv'
<1> SUFFICES ASSUME IInv, PassInv, [Next]_vars, sup' \in {"buttons", "stepping", "send"}
             PROVE  at' <= now' /\ now' <= at' + 1 /\ (beat' => now' = at')
  BY DEF PassInv
<1>0. now \in Nat /\ at \in Nat
  BY DEF IInv, TypeOK, Times
<1>1. CASE Poll
  BY <1>0, <1>1 DEF Poll
<1>2. CASE Tick
  BY <1>0, <1>2 DEF Tick, PassInv
<1>3. CASE ~Poll /\ ~Tick
  <2>1. /\ UNCHANGED <<now, at, beat>> /\ sup \in {"buttons", "stepping", "send"}
    BY <1>3 DEF Next, Pass, Infers, ButtonA, DPad, StepTask, Copy, Drive, Doubt, Send, Status,
       ConnectionFails, Shutdown, Goto, Stop, Top, Observe, Incoherent, Prefix, Check, Offer, End,
       Type, Add, supervisor, vars
  <2> QED
    BY <2>1 DEF PassInv
<1> QED
  BY <1>1, <1>2, <1>3

\* A send leaves the plan or the hold that the look at the clock just allowed.
LEMMA SendEffects ==
    ASSUME IInv, HandsInv, PassInv, Send
    PROVE  /\ command'.kind = "plan" => /\ now <= command'.plan.obs + MaxAge + 1
                                        /\ now <= command'.plan.obs + Length
                                        /\ beat => /\ now <= command'.plan.obs + MaxAge
                                                   /\ now <= command'.plan.obs + Length - 1
           /\ command' = Hold => now <= since + FirstPlan + 1 /\ (beat => now <= since + FirstPlan)
<1>0. /\ now \in Nat /\ at \in Nat /\ since \in Nat /\ copy.plan.obs \in Int /\ copy.since \in Nat
      /\ MaxAge \in Nat /\ FirstPlan \in Nat /\ Length \in Nat
  BY LimitAssumption, Numbers DEF IInv, TypeOK, Times
<1>1. at <= now /\ now <= at + 1 /\ (beat => now = at) /\ sup = "send"
  BY DEF Send, Goto, PassInv
<1>2. CASE copy.plan = NoPlan
  <2>1. command' = Hold /\ at - copy.since <= FirstPlan /\ copy.since <= since
    BY <1>0, <1>1, <1>2 DEF Send, Problem, HandsInv
  <2> QED
    BY <1>0, <1>1, <2>1, OnlyPlansArePlans
<1>3. CASE copy.plan # NoPlan
  <2>1. command' = Sends(copy.plan)
    BY <1>1, <1>3 DEF Send, HandsInv
  <2>2. at - copy.plan.obs <= MaxAge /\ at < copy.plan.obs + Length
    BY <1>0, <1>3 DEF Send, Problem
  <2>3. command'.plan = copy.plan /\ command' # Hold
    BY <2>1, OnlyPlansArePlans
  <2> QED
    BY <1>0, <1>1, <2>2, <2>3
<1> QED
  BY <1>2, <1>3

LEMMA DoubtKept == IInv /\ SwitchInv /\ HandsInv /\ PassInv /\ DoubtInv /\ [Next]_vars => DoubtInv'
<1> SUFFICES ASSUME IInv, SwitchInv, HandsInv, PassInv, DoubtInv, [Next]_vars, sup' # "ended"
             PROVE  /\ command'.kind = "plan" => Within(command.plan.obs + MaxAge)'
                                                 /\ Within(command.plan.obs + Length - 1)'
                    /\ mode' = "model" /\ command' = Hold => Within(since + FirstPlan)'
  BY DEF DoubtInv
<1>0. /\ now \in Nat /\ since \in Nat /\ since <= now
      /\ MaxAge \in Nat /\ FirstPlan \in Nat /\ Length \in Nat
  BY LimitAssumption, Numbers DEF IInv, SwitchInv
<1>1. command.kind = "plan" => command.plan.obs \in Int
  BY OnlyPlansArePlans DEF IInv, TypeOK, Chunks, Times
<1>2. /\ sup # "ended"
      /\ \/ now' = now
         \/ now' = now + 1 /\ beat /\ ~beat' /\ UNCHANGED <<sup, at, command, mode, since>>
      /\ beat' => beat \/ (sup = "status" /\ sup' = "poll")
      /\ sup' = "status" => sup = "status" \/ Drive \/ Doubt \/ Send
  BY PassEffects
<1>3. CASE Send
  <2>1. UNCHANGED <<now, mode, since, beat>> /\ sup' = "status"
    BY <1>3 DEF Send, Goto, lock
  <2>2. command'.kind = "plan" => command'.plan.obs \in Int
    <3>1. command' \in Packets
      BY <1>3, SendsAPlan DEF Send, IInv, TypeOK, Packets
    <3> QED
      BY <3>1, OnlyPlansArePlans DEF Packets, Chunks, Times
  <2> QED
    BY <1>0, <1>3, <2>1, <2>2, SendEffects DEF Within
<1>4. CASE Drive
  BY <1>4, OnlyPlansArePlans DEF Drive, Sticks, Hold, Packet
<1>5. ASSUME UNCHANGED command, sup' = "status" => sup = "status"
      PROVE  command'.kind = "plan" => Within(command.plan.obs + MaxAge)'
                                       /\ Within(command.plan.obs + Length - 1)'
  BY <1>0, <1>1, <1>2, <1>5 DEF Within, DoubtInv
<1>6. ASSUME UNCHANGED <<command, mode, since>>, sup' = "status" => sup = "status"
      PROVE  mode' = "model" /\ command' = Hold => Within(since + FirstPlan)'
  BY <1>0, <1>2, <1>6 DEF Within, DoubtInv
<1>7. CASE Doubt
  <2>1. CASE mode' = "manual" /\ command' = Hold
    BY <2>1, OnlyPlansArePlans
  <2>2. CASE Stop /\ UNCHANGED <<lock, command>>
    BY <1>5, <1>6, <2>2 DEF Stop, lock
  <2> QED
    BY <1>7, <2>1, <2>2 DEF Doubt, SetMode
<1>8. CASE ButtonA \/ DPad \/ Type
  <2>1. UNCHANGED <<command, now, beat>> /\ since' = now /\ (sup' = "status" => sup = "status")
        /\ sup' \in {sup, "stepping"} /\ (sup' = "status" => Type)
    BY <1>8 DEF ButtonA, DPad, Type, SetMode, Forget, Goto, supervisor
  <2>2. Within(since + FirstPlan)'
    BY <1>0, <2>1 DEF Within
  <2> QED
    BY <1>5, <2>1, <2>2
<1>9. CASE ~Send /\ ~Drive /\ ~Doubt /\ ~ButtonA /\ ~DPad /\ ~Type
  <2>1. UNCHANGED <<command, mode, since>>
    BY <1>2, <1>9 DEF Next, Pass, Infers, Poll, StepTask, Copy, Status, ConnectionFails,
       Shutdown, Goto, Tick, Top, Observe, Incoherent, Prefix, Check, Offer, End,
       Add, lock, supervisor, vars
  <2> QED
    BY <1>2, <1>5, <1>6, <1>9, <2>1
<1> QED
  BY <1>3, <1>4, <1>7, <1>8, <1>9

\* The supervisor stops on doubt, whatever the inference, the pad and the typist
\* do: a plan, its rows and a wait for the first plan each end within two passes of
\* their limit.
THEOREM DoubtAlwaysEnds == Spec => []DoubtEnds
<1>1. Init => HandsInv /\ PassInv /\ DoubtInv
  <2> SUFFICES ASSUME Init PROVE HandsInv /\ PassInv /\ DoubtInv
    OBVIOUS
  <2>1. command.kind # "plan" /\ command # Hold
    BY OnlyPlansArePlans DEF Init, Armed, Hold, Packet
  <2> QED
    BY <2>1 DEF Init, HandsInv, PassInv, DoubtInv
<1>2. IInv /\ DoubtInv => DoubtEnds
  <2> SUFFICES ASSUME IInv, DoubtInv PROVE DoubtEnds
    OBVIOUS
  <2>1. command.kind = "plan" => command.plan.obs \in Int
    BY OnlyPlansArePlans DEF IInv, TypeOK, Chunks, Times
  <2>2. now \in Nat /\ since \in Nat /\ MaxAge \in Nat /\ FirstPlan \in Nat /\ Length \in Nat
    BY LimitAssumption, Numbers DEF IInv
  <2> QED
    BY <2>1, <2>2 DEF DoubtInv, DoubtEnds, Within
<1> QED
  BY <1>1, <1>2, HandsKept, PassKept, DoubtKept, Switches, RunnerInvariant, PTL DEF Spec
=============================================================================
