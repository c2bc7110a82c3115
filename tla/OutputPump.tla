----------------------------- MODULE OutputPump -----------------------------
(***************************************************************************)
(* How work gets done in the driver: the output actor (c_output_actor.ml,  *)
(* process_outputs), which runs one pass at a time and folds the requests  *)
(* that arrive meanwhile into one more pass, and the proposal slot         *)
(* (c_work_slot.ml), which runs one proposal check or build at a time      *)
(* behind a gate (c_proposal_work_gate.ml) and hands its reply to a pass.  *)
(*                                                                         *)
(* Lwt threads interleave where they wait: a handler changes the engine    *)
(* and asks for a pass only later, a pass waits on the network and the     *)
(* disk between its steps, a check ends at any time, even after the driver *)
(* was stopped and started again.                                          *)
(***************************************************************************)
EXTENDS Integers, FiniteSets

CONSTANTS
    MaxOutputs,   \* bound on engine outputs
    MaxPending,   \* bound on proposals that wait for a check
    MaxJobs,      \* bound on submitted jobs
    MaxOwed,      \* bound on handlers that have yet to ask for a pass
    MaxStops,     \* bound on stop / start
    MaxFails      \* bound on passes that raise

ASSUME PumpAssumption ==
    /\ MaxOutputs \in Nat
    /\ MaxPending \in Nat
    /\ MaxJobs \in Nat
    /\ MaxOwed \in Nat \ {0}
    /\ MaxStops \in Nat
    /\ MaxFails \in Nat

Job == 0 .. MaxJobs
NoJob == -1

VARIABLES
    running,    \* t.running
    actor,      \* t.output_actor
    pass,       \* where the pass stands
    batch,      \* outputs the pass has drained and not handled yet
    outputs,    \* outputs of the engine not drained yet
    pending,    \* proposals that wait for a check
    owed,       \* handlers that will call process_outputs
    slot,       \* t.proposal_slot.phase, with its job and the job of its reply
    next,       \* t.proposal_slot.next
    workers,    \* job -> where its computation stands, for unfinished jobs
    delivered,  \* <<job, reply's job>> -> number of deliveries (history)
    failed,     \* the last pass raised, and none has been asked for since
    stops, fails

driver == <<running, stops>>
actorVars == <<actor, pass, batch, failed, fails>>
slotVars == <<slot, next, workers, delivered>>
engineVars == <<outputs, pending, owed>>
pumpVars == <<driver, actorVars, slotVars, engineVars>>

EmptySlot == [phase |-> "idle", job |-> NoJob, reply |-> NoJob]

PumpInit ==
    /\ running = TRUE
    /\ actor = "idle"
    /\ pass = "none"
    /\ batch = 0
    /\ outputs = 0
    /\ pending = 0
    /\ owed = 1         \* start ends with process_outputs
    /\ slot = EmptySlot
    /\ next = 0
    /\ workers = [j \in Job |-> "none"]
    /\ delivered = [d \in Job \X Job |-> 0]
    /\ failed = FALSE
    /\ stops = 0
    /\ fails = 0

-----------------------------------------------------------------------------
(* c_output_actor *)

\* Mutant: a request during a pass is taken for served.
ActorRequestForgotten ==
    /\ actor' = IF actor = "idle" THEN "running" ELSE actor
    /\ pass' = IF actor = "idle" THEN "take" ELSE pass
    /\ failed' = IF actor = "idle" THEN FALSE ELSE failed

\* request: Start begins a pass, Join asks for one more.
ActorRequest ==
    /\ actor' = IF actor = "idle" THEN "running" ELSE "requested"
    /\ pass' = IF actor = "idle" THEN "take" ELSE pass
    /\ failed' = IF actor = "idle" THEN FALSE ELSE failed

\* complete: Continue with another pass, or Stop.
ActorComplete ==
    /\ actor' = IF actor = "requested" THEN "running" ELSE "idle"
    /\ pass' = IF actor = "requested" THEN "take" ELSE "none"

(* c_work_slot *)

\* Mutant: any finished job fills the slot.
SlotFinishAny(j) ==
    IF slot.phase = "running"
    THEN [slot EXCEPT !.phase = "ready", !.reply = j]
    ELSE slot

\* Mutant: a job that ends during a pass is not noticed.
SlotFinishIdleOnly(j) ==
    IF slot.phase = "running" /\ slot.job = j /\ actor = "idle"
    THEN [slot EXCEPT !.phase = "ready", !.reply = j]
    ELSE slot

\* Finish: only the job in the slot completes it.
SlotFinish(j) ==
    IF slot.phase = "running" /\ slot.job = j
    THEN [slot EXCEPT !.phase = "ready", !.reply = j]
    ELSE slot

-----------------------------------------------------------------------------
(* Handlers *)

\* A frame or a timer changes the engine; process_outputs comes later.
Emit ==
    /\ outputs < MaxOutputs
    /\ owed < MaxOwed
    /\ outputs' = outputs + 1
    /\ owed' = owed + 1
    /\ UNCHANGED <<pending, driver, actorVars, slotVars>>

\* A proposal frame is kept for its check (frame_allowed: only while running).
ProposalArrives ==
    /\ running
    /\ pending < MaxPending
    /\ owed < MaxOwed
    /\ pending' = pending + 1
    /\ owed' = owed + 1
    /\ UNCHANGED <<outputs, driver, actorVars, slotVars>>

\* The handler reaches process_outputs.
Request ==
    /\ owed > 0
    /\ owed' = owed - 1
    /\ ActorRequest
    /\ UNCHANGED <<outputs, pending, batch, fails, driver, slotVars>>

(* A pass: process_outputs_once *)

\* Take: a ready reply goes to finish_proposal_work.
PassTake ==
    /\ pass = "take"
    /\ pass' = "drain"
    /\ IF slot.phase = "ready"
       THEN /\ slot' = EmptySlot
            /\ delivered' = [delivered EXCEPT ![<<slot.job, slot.reply>>] = @ + 1]
       ELSE UNCHANGED <<slot, delivered>>
    /\ UNCHANGED <<actor, batch, failed, fails, next, workers, driver, engineVars>>

PassDrain ==
    /\ pass = "drain"
    /\ pass' = "outputs"
    /\ batch' = outputs
    /\ outputs' = 0
    /\ UNCHANGED <<actor, failed, fails, pending, owed, driver, slotVars>>

PassOutput ==
    /\ pass = "outputs"
    /\ batch > 0
    /\ batch' = batch - 1
    /\ UNCHANGED <<actor, pass, failed, fails, driver, slotVars, engineVars>>

\* Mutant: the id counter runs over its limit.
PassEndNoLimit ==
    /\ pass = "outputs"
    /\ batch = 0
    /\ ActorComplete
    /\ IF running /\ slot.phase = "idle" /\ pending > 0
       THEN /\ pending' = pending - 1
            /\ slot' = [phase |-> "running", job |-> next, reply |-> NoJob]
            /\ next' = next + 1
            /\ workers' = [workers EXCEPT ![next] = "queued"]
       ELSE UNCHANGED <<pending, slot, next, workers>>
    /\ UNCHANGED <<batch, failed, fails, outputs, owed, delivered, driver>>

\* next_proposal_work and Submit (refused at max_int, here MaxJobs), then complete.
PassEnd ==
    /\ pass = "outputs"
    /\ batch = 0
    /\ ActorComplete
    /\ IF running /\ slot.phase = "idle" /\ pending > 0 /\ next < MaxJobs
       THEN /\ pending' = pending - 1
            /\ slot' = [phase |-> "running", job |-> next, reply |-> NoJob]
            /\ next' = next + 1
            /\ workers' = [workers EXCEPT ![next] = "queued"]
       ELSE UNCHANGED <<pending, slot, next, workers>>
    /\ UNCHANGED <<batch, failed, fails, outputs, owed, delivered, driver>>

\* The pass raises: what it had drained is gone, a joined request too.
PassFail ==
    /\ pass # "none"
    /\ fails < MaxFails
    /\ fails' = fails + 1
    /\ actor' = "idle"
    /\ pass' = "none"
    /\ batch' = 0
    /\ failed' = TRUE
    /\ UNCHANGED <<driver, slotVars, engineVars>>

(* Proposal work *)

Working == {j \in Job : workers[j] = "working"}
Queued == {j \in Job : workers[j] = "queued"}

\* The gate admits the jobs one at a time, in order.
EnterGate(j) ==
    /\ j \in Queued
    /\ Working = {}
    /\ \A k \in Queued : j <= k
    /\ workers' = [workers EXCEPT ![j] = "working"]
    /\ UNCHANGED <<slot, next, delivered, driver, actorVars, engineVars>>

\* The computation ends, or is not relevant any more when the gate admits it.
Finish(j) ==
    /\ j \in Working
    /\ workers' = [workers EXCEPT ![j] = "none"]
    /\ slot' = SlotFinish(j)
    /\ IF running /\ slot'.phase = "ready" THEN ActorRequest
       ELSE UNCHANGED <<actor, pass, failed>>
    /\ UNCHANGED <<next, delivered, batch, fails, driver, engineVars>>

(* stop and start *)

Stop ==
    /\ running
    /\ stops < MaxStops
    /\ stops' = stops + 1
    /\ running' = FALSE
    /\ slot' = [EmptySlot EXCEPT !.phase = "closed"]
    /\ UNCHANGED <<next, workers, delivered, actorVars, engineVars>>

Start ==
    /\ ~running
    /\ owed < MaxOwed
    /\ running' = TRUE
    /\ slot' = EmptySlot
    /\ owed' = owed + 1
    /\ UNCHANGED <<stops, next, workers, delivered, outputs, pending, actorVars>>

-----------------------------------------------------------------------------
Pass == PassTake \/ PassDrain \/ PassOutput \/ PassEnd

PumpNext ==
    \/ Emit
    \/ ProposalArrives
    \/ Request
    \/ PassTake
    \/ PassDrain
    \/ PassOutput
    \/ PassEnd
    \/ PassFail
    \/ \E j \in Job : EnterGate(j)
    \/ \E j \in Job : Finish(j)
    \/ Stop
    \/ Start

PumpSpec == PumpInit /\ [][PumpNext]_pumpVars

\* Lwt runs every ready thread, the handlers reach their last line, and a
\* proposal check returns.
FairPumpSpec ==
    /\ PumpSpec
    /\ WF_pumpVars(Request)
    /\ WF_pumpVars(Pass)
    /\ \A j \in Job : WF_pumpVars(EnterGate(j)) /\ WF_pumpVars(Finish(j))

-----------------------------------------------------------------------------
(* Properties *)

\* Shapes of the driver's scheduling state.
PumpTypeOK ==
    /\ running \in BOOLEAN
    /\ actor \in {"idle", "running", "requested"}
    /\ pass \in {"none", "take", "drain", "outputs"}
    /\ batch \in 0 .. MaxOutputs
    /\ outputs \in 0 .. MaxOutputs
    /\ pending \in 0 .. MaxPending
    /\ owed \in 0 .. MaxOwed
    /\ slot \in [phase : {"idle", "running", "ready", "closed"},
                 job : Job \cup {NoJob}, reply : Job \cup {NoJob}]
    /\ next \in Job
    /\ workers \in [Job -> {"none", "queued", "working"}]
    /\ delivered \in [Job \X Job -> Nat]
    /\ failed \in BOOLEAN
    /\ stops \in 0 .. MaxStops
    /\ fails \in 0 .. MaxFails

\* No wakeup is lost: when the actor rests, nobody is about to wake it and the
\* last pass did not raise, then no output waits, no finished check waits for its
\* delivery, and no proposal waits beside a free slot (request, complete and the
\* pass itself race with every handler).
NoLostWakeup ==
    (actor = "idle" /\ owed = 0 /\ ~failed) =>
        /\ outputs = 0
        /\ slot.phase # "ready"
        /\ (running /\ slot.phase = "idle" /\ next < MaxJobs) => pending = 0

\* A job is answered at most once and with its own result, even when checks of a
\* stopped driver end after it has started again (the ids of c_work_slot).
OwnReplyOnce ==
    \A j, k \in Job :
        /\ delivered[<<j, k>>] <= 1
        /\ j # k => delivered[<<j, k>>] = 0

\* What the engine wants done is done, unless a pass raises
\* (process_outputs after every handler).
OutputsServed == outputs > 0 ~> (outputs = 0 \/ failed)

\* A proposal that waits for the slot is checked in the end, unless the driver
\* stops or a pass raises (next_proposal_work at the end of every pass).
ProposalsServed ==
    (pending > 0 /\ running) ~> (pending = 0 \/ ~running \/ failed \/ next = MaxJobs)

\* Outputs and proposals alike are served, stops, restarts and answers of
\* stopped drivers notwithstanding.
WorkIsServed == OutputsServed /\ ProposalsServed

=============================================================================
