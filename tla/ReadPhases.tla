------------------------------ MODULE ReadPhases ------------------------------
(***************************************************************************)
(* A batch of reads of both protocols in the process that owns the serial     *)
(* port: plan_phase_windows (phase_planner.py) puts it into an order and      *)
(* refuses it when it breaks a limit, execute_read_phases (phase_executor.py) *)
(* follows the plan, and InProcessDispatchBridge (dispatcher_bridge.py) keeps *)
(* batches and the requests of the original splitter apart.                   *)
(*                                                                          *)
(* A request of the splitter is opaque: it may change the controller's session, and  *)
(* what a coordinator proved before need not hold after it.                         *)
(*                                                                          *)
(* The planner goes through the jobs one by one.  A batch is a sequence of steps, each *)
(* of which may fail; the handovers themselves are those of Coordinator.      *)
(***************************************************************************)
EXTENDS Integers, Sequences, FiniteSets, SequencesExt

CONSTANTS
    EnterTime, ReturnTime,      \* Budget: enter_p300_ms, return_vs1_ms
    MaxAbsence, MaxAge, MaxWait, \* max_vs1_unavailable_ms, max_p06_age_ms, max_queue_wait_ms
    JobLists,                    \* lists of jobs a caller may hand over
    Ages,                        \* ages of P06 at the start
    MaxManagers,                 \* bound: coordinators
    MaxLegacy                    \* bound: requests of the splitter

P300Kinds == {"ID", "RAM"}
ModeOf(job) == IF job.kind \in P300Kinds THEN "p300" ELSE "vs1"

\* ReadKind, its VS1 members; the two blocks of RAM are one.
Vs1Kinds == {"P80", "P06", "P09", "P87"}

\* ReadJob; deadline and queued are seen from the start of the plan.
ReadJobs == [kind : P300Kinds \cup Vs1Kinds, independent : BOOLEAN, duration : Nat \ {0}, queued : Int, deadline : Int]

ASSUME PhasesAssumption ==
    /\ {EnterTime, ReturnTime, MaxAbsence, MaxAge, MaxWait} \subseteq Nat \ {0}
    /\ JobLists \subseteq Seq(ReadJobs)
    /\ \A list \in JobLists : \A i \in DOMAIN list : list[i].deadline >= list[i].queued /\ list[i].queued <= 0
    /\ Ages \subseteq Nat /\ MaxManagers \in Nat /\ MaxLegacy \in Nat

VARIABLES
    ctl,       \* the controller's protocol
    mode,      \* coordinator.mode of the newest coordinator
    managers,  \* coordinators entered so far
    bound,     \* self.coordinator: the number of the coordinator, 0 without one
    spent,     \* _legacy_since_bind
    failedClosed,    \* _failed_closed
    depth,     \* _legacy_group_depth
    active,    \* who holds _active_call
    legacy,    \* legacy calls so far
    jobs,      \* the batch
    plan,      \* its plan
    step,      \* the step to execute next
    ledger,    \* kinds with a sample
    \* Observations the code does not make:
    opaque,    \* requests since VS1 or P300 was last proved: "bound" to a coordinator, "bare"
    outdated,  \* those whose sample is of before a handover or a legacy call
    clock, left, p06 \* the time of the batch, and when VS1 was left and P06 read

bridge     == <<bound, spent, failedClosed, depth, legacy>>
batch      == <<jobs, plan, step>>
samples    == <<ledger, outdated>>
times      == <<clock, left, p06>>
phasesVars == <<ctl, mode, managers, opaque, bridge, active, batch, samples, times>>

-----------------------------------------------------------------------------
\* A mutant of the order: a barrier does not wait for the reads of the other protocol.
PlaceEarly(acc, i, job) ==
    IF ~job.independent THEN [acc EXCEPT !.done = @ \o acc.same \o <<i>>, !.same = <<>>, !.mode = ModeOf(job)]
    ELSE IF ModeOf(job) = acc.mode THEN [acc EXCEPT !.same = Append(@, i)]
    ELSE [acc EXCEPT !.other = Append(@, i)]

\* A barrier ends the region of independent jobs before it; within a region those of the
\* protocol it starts in come first.
Place(acc, i, job) ==
    IF ~job.independent
    THEN [done |-> acc.done \o acc.same \o acc.other \o <<i>>, same |-> <<>>, other |-> <<>>, mode |-> ModeOf(job)]
    ELSE IF ModeOf(job) = acc.mode THEN [acc EXCEPT !.same = Append(@, i)]
    ELSE [acc EXCEPT !.other = Append(@, i)]

\* _dependency_safe_order: the positions of the jobs in the order of their execution.
SafeOrder(list) ==
    LET placed[n \in 0 .. Len(list)] ==
            IF n = 0 THEN [done |-> <<>>, same |-> <<>>, other |-> <<>>, mode |-> "vs1"]
            ELSE Place(placed[n - 1], n, list[n])
        last == placed[Len(list)]
    IN  last.done \o last.same \o last.other

\* A step: a handover, or the read of job i.
Handover(kind) == [kind |-> kind, job |-> 0]
ReadOf(i)      == [kind |-> "read", job |-> i]

\* A mutant of return_vs1: the time of the return itself is not counted.
ReturnPlannedEarly(p) ==
    IF p.mode = "vs1" THEN p
    ELSE [t |-> p.t + ReturnTime, p06 |-> p.t + ReturnTime, left |-> p.left, mode |-> "vs1",
          steps |-> Append(p.steps, Handover("return")),
          ok |-> p.ok /\ p.t - p.left <= MaxAbsence /\ p.t - p.p06 <= MaxAge]

\* return_vs1
ReturnPlanned(p) ==
    IF p.mode = "vs1" THEN p
    ELSE LET t == p.t + ReturnTime
         IN  [t |-> t, p06 |-> t, left |-> p.left, mode |-> "vs1",
              steps |-> Append(p.steps, Handover("return")),
              ok |-> p.ok /\ t - p.left <= MaxAbsence /\ t - p.p06 <= MaxAge]

EntryPlanned(p) ==
    IF p.mode = "p300" THEN p
    ELSE [t |-> p.t + EnterTime, p06 |-> p.p06, left |-> p.t, mode |-> "p300",
          steps |-> Append(p.steps, Handover("entry")), ok |-> p.ok]

\* A read, after the handover it needs.
ReadPlanned(p, i, job) ==
    LET t == p.t + job.duration
    IN  [t |-> t, p06 |-> IF job.kind = "P06" THEN t ELSE p.p06, left |-> p.left, mode |-> p.mode,
         steps |-> Append(p.steps, ReadOf(i)),
         ok |-> p.ok /\ p.t - job.queued <= MaxWait /\ t <= job.deadline
                /\ (ModeOf(job) = "vs1" => (job.kind = "P06" \/ t - p.p06 <= MaxAge))]

\* The next job, in the protocol it needs.
JobPlanned(p, i, job) ==
    ReadPlanned(IF ModeOf(job) = "vs1" THEN ReturnPlanned(p) ELSE EntryPlanned(p), i, job)

\* plan_phase_windows; ok is FALSE where it raises PlanRejected.
Plan(list, age) ==
    LET order == SafeOrder(list)
        planned[n \in 0 .. Len(order)] ==
            IF n = 0 THEN [t |-> 0, p06 |-> -age, left |-> 0, mode |-> "vs1", steps |-> <<>>, ok |-> age <= MaxAge]
            ELSE JobPlanned(planned[n - 1], order[n], list[order[n]])
    IN  ReturnPlanned(planned[Len(order)])

-----------------------------------------------------------------------------
NoPlan == [t |-> 0, p06 |-> 0, left |-> 0, mode |-> "vs1", steps |-> <<>>, ok |-> FALSE]

PhasesTypeOK ==
    /\ ctl \in {"vs1", "p300"} /\ mode \in {"vs1", "p300", "failed", "detached"}
    /\ managers \in 0 .. MaxManagers /\ bound \in 0 .. managers /\ legacy \in 0 .. MaxLegacy
    /\ {spent, failedClosed} \subseteq BOOLEAN /\ depth \in 0 .. 1
    /\ active \in {"none", "legacy", "batch"}
    /\ opaque \subseteq {"bound", "bare"}
    /\ jobs \in JobLists \cup {<<>>} /\ step \in 1 .. Len(plan.steps) + 1
    /\ ledger \subseteq Vs1Kinds /\ outdated \subseteq ledger

PhasesInit ==
    /\ ctl = "vs1" /\ mode = "detached" /\ managers = 0 /\ opaque = {}
    /\ bound = 0 /\ spent = FALSE /\ failedClosed = FALSE /\ depth = 0 /\ active = "none" /\ legacy = 0
    /\ jobs = <<>> /\ plan = NoPlan /\ step = 1
    /\ ledger = {} /\ outdated = {}
    /\ clock = 0 /\ left = 0 /\ p06 = 0

\* The samples a verified VS1 session starts with (record_current_handshake_p80_p06).
Handshake == {"P80", "P06"}

\* The bound coordinator; one that was replaced has been left.
BoundMode == IF bound = managers THEN mode ELSE "detached"

\* A coordinator is entered: it attests VS1 on the open port, or raises.
EnterManager ==
    /\ mode = "detached" /\ managers < MaxManagers /\ active = "none"
    /\ managers' = managers + 1
    /\ \/ ctl = "vs1" /\ mode' = "vs1" /\ opaque' = {}
       \/ mode' = "detached" /\ UNCHANGED opaque
    /\ UNCHANGED <<ctl, bridge, active, batch, samples, times>>

\* It is left: believing in VS1, it sends nothing; else it recovers, which may fail.
LeaveManager ==
    /\ mode # "detached" /\ active = "none"
    /\ mode' = "detached"
    /\ \/ mode = "vs1" /\ UNCHANGED <<ctl, opaque>>
       \/ mode \in {"p300", "failed"} /\ ctl' = "vs1" /\ opaque' = {}
       \/ mode \in {"p300", "failed"} /\ ctl' \in {"vs1", "p300"} /\ UNCHANGED opaque
    /\ UNCHANGED <<managers, bridge, active, batch, samples, times>>

\* Mutant: the coordinator of before a request may be bound again.
MayBindAgain == ~failedClosed /\ active = "none" /\ depth = 0 /\ managers > 0 /\ mode = "vs1"

\* bind_verified_coordinator, its guards
MayBind ==
    /\ ~failedClosed /\ active = "none" /\ depth = 0 /\ managers > 0 /\ mode = "vs1"
    /\ ~(bound = managers /\ spent)

Bind ==
    /\ MayBind
    /\ bound' = managers /\ spent' = FALSE
    /\ ledger' = {} /\ outdated' = ledger'
    /\ UNCHANGED <<ctl, mode, managers, opaque, failedClosed, depth, active, legacy, batch, times>>

\* legacy_transaction
OpenGroup ==
    /\ ~failedClosed /\ active = "none" /\ depth = 0 /\ depth' = 1
    /\ UNCHANGED <<ctl, mode, managers, opaque, bound, spent, failedClosed, active, legacy, batch, samples, times>>

CloseGroup ==
    /\ depth = 1 /\ active = "none" /\ depth' = 0
    /\ UNCHANGED <<ctl, mode, managers, opaque, bound, spent, failedClosed, active, legacy, batch, samples, times>>

\* Mutant: the protocol of the coordinator and the call under way are not looked at.
MayServeUnlessFailed == ~failedClosed

\* response_to_request, its guards
MayServe == ~failedClosed /\ active = "none" /\ (bound > 0 => BoundMode = "vs1")

StartLegacy ==
    /\ MayServe /\ legacy < MaxLegacy
    /\ active' = "legacy" /\ legacy' = legacy + 1
    /\ UNCHANGED <<ctl, mode, managers, opaque, bound, spent, failedClosed, depth, batch, samples, times>>

\* It returns or raises; its finally is the same.  Whatever it did to the session, the
\* coordinator does not see.
EndLegacy ==
    /\ active = "legacy" /\ active' = "none"
    /\ ctl' \in {"vs1", "p300"}
    /\ opaque' = opaque \cup {IF bound > 0 THEN "bound" ELSE "bare"}
    /\ spent' = TRUE /\ ledger' = {} /\ outdated' = ledger'
    /\ UNCHANGED <<mode, managers, bound, failedClosed, depth, legacy, batch, times>>

\* Mutant: a request since the bind is not looked at.
MayExecuteSpent == ~failedClosed /\ active = "none" /\ depth = 0 /\ bound > 0 /\ BoundMode = "vs1"

\* execute_maintenance, its guards
MayExecute ==
    /\ ~failedClosed /\ active = "none" /\ depth = 0 /\ bound > 0 /\ BoundMode = "vs1"
    /\ ~spent

\* Up to the first step; a plan that is refused changes nothing.  The samples of the
\* coordinator's handshake are as old as its proof.
Execute ==
    /\ MayExecute
    /\ \E list \in JobLists, age \in Ages :
         /\ Plan(list, age).ok
         /\ jobs' = list /\ plan' = Plan(list, age) /\ step' = 1
         /\ clock' = 0 /\ left' = 0 /\ p06' = -age
    /\ active' = "batch" /\ ledger' = Handshake /\ outdated' = IF opaque = {} THEN {} ELSE ledger'
    /\ UNCHANGED <<ctl, mode, managers, opaque, bridge>>

StepIs(kind) == active = "batch" /\ step <= Len(plan.steps) /\ plan.steps[step].kind = kind

EnterP300 ==
    /\ StepIs("entry") /\ mode = "vs1"
    /\ ctl' = "p300" /\ mode' = "p300" /\ opaque' = {}
    /\ ledger' = {} /\ outdated' = ledger'
    /\ clock' = clock + EnterTime /\ left' = clock /\ step' = step + 1
    /\ UNCHANGED <<managers, bridge, active, jobs, plan, p06>>

\* The return reads P80 and P06 anew.
LeaveP300 ==
    /\ StepIs("return") /\ mode = "p300"
    /\ ctl' = "vs1" /\ mode' = "vs1" /\ opaque' = {}
    /\ ledger' = Handshake /\ outdated' = ledger' \ Handshake
    /\ clock' = clock + ReturnTime /\ p06' = clock' /\ step' = step + 1
    /\ UNCHANGED <<managers, bridge, active, jobs, plan, left>>

\* Only a controller that is where its coordinator believes it to be answers.
ReadJob ==
    /\ StepIs("read") /\ ctl = mode
    /\ LET job == jobs[plan.steps[step].job]
       IN  /\ mode = ModeOf(job)
           /\ ledger' = IF mode = "vs1" THEN ledger \cup {job.kind} ELSE ledger
           /\ outdated' = outdated \ {job.kind}
           /\ clock' = clock + job.duration
           /\ p06' = IF job.kind = "P06" THEN clock' ELSE p06
    /\ step' = step + 1
    /\ UNCHANGED <<ctl, mode, managers, opaque, bridge, active, jobs, plan, left>>

\* The handlers of execute_read_phases and execute_maintenance
Raises ==
    /\ failedClosed' = TRUE /\ ledger' = {} /\ outdated' = ledger'
    /\ active' = "none" /\ jobs' = <<>> /\ plan' = NoPlan /\ step' = 1
    /\ clock' = 0 /\ left' = 0 /\ p06' = 0

\* A frame of a step fails, a handover anywhere between the protocols, or the samples of
\* a handshake are too old when they are recorded.
StepFails ==
    /\ active = "batch" /\ step <= Len(plan.steps)
    /\ \/ plan.steps[step].kind # "read" /\ mode' = "failed" /\ ctl' \in {"vs1", "p300"} /\ UNCHANGED opaque
       \/ plan.steps[step].kind = "read" /\ mode' \in {"failed", mode} /\ UNCHANGED <<ctl, opaque>>
       \/ step = 1 /\ UNCHANGED <<mode, ctl, opaque>>
       \/ plan.steps[step].kind = "return" /\ mode' = "vs1" /\ ctl' = "vs1" /\ opaque' = {}
    /\ Raises
    /\ UNCHANGED <<managers, bound, spent, depth, legacy>>

\* A read that is not answered: it ends at its deadline.
Unanswered == ctl # mode /\ StepFails

\* The adapter's resume_vs1 raises.
ResumeFails ==
    /\ active = "batch" /\ step > Len(plan.steps)
    /\ Raises
    /\ UNCHANGED <<ctl, mode, managers, opaque, bound, spent, depth, legacy>>

FinishBatch ==
    /\ active = "batch" /\ step > Len(plan.steps) /\ mode = "vs1"
    /\ active' = "none" /\ spent' = TRUE /\ ledger' = {} /\ outdated' = ledger'
    /\ jobs' = <<>> /\ plan' = NoPlan /\ step' = 1 /\ clock' = 0 /\ left' = 0 /\ p06' = 0
    /\ UNCHANGED <<ctl, mode, managers, opaque, bound, failedClosed, depth, legacy>>

BatchSteps == EnterP300 \/ LeaveP300 \/ ReadJob \/ FinishBatch

PhasesNext ==
    \/ EnterManager \/ LeaveManager \/ Bind \/ OpenGroup \/ CloseGroup
    \/ StartLegacy \/ EndLegacy \/ Execute \/ BatchSteps \/ StepFails \/ ResumeFails

PhasesSpec == PhasesInit /\ [][PhasesNext]_phasesVars

-----------------------------------------------------------------------------
\* Job i has to be read before job j: both are of one protocol, or one of those from i to
\* j is not independent.
Precedes(i, j) == i < j /\ (ModeOf(jobs[i]) = ModeOf(jobs[j]) \/ \E k \in i .. j : ~jobs[k].independent)

\* A plan reads every job once.  Nothing passes a job that is not independent, and jobs of
\* one protocol keep their order (_dependency_safe_order).
OrderIsSafe ==
    active = "batch" =>
        LET reads == {k \in DOMAIN plan.steps : plan.steps[k].kind = "read"}
        IN  /\ {plan.steps[k].job : k \in reads} = DOMAIN jobs
            /\ \A k, l \in reads :
                 k < l => /\ plan.steps[k].job # plan.steps[l].job
                          /\ ~Precedes(plan.steps[l].job, plan.steps[k].job)

\* A plan leaves VS1 no more often than the order given would (plan_phase_windows).
NoExtraWindows ==
    active = "batch" =>
        LET entries == {k \in DOMAIN plan.steps : plan.steps[k].kind = "entry"}
            needed  == {i \in DOMAIN jobs : /\ ModeOf(jobs[i]) = "p300"
                                            /\ i = 1 \/ ModeOf(jobs[i - 1]) = "vs1"}
        IN  Cardinality(entries) <= Cardinality(needed)

\* While it runs, VS1 is never away for longer than allowed, its way back included, and is
\* never spoken with an older P06 than allowed (the limits of return_vs1 and of the reads).
LimitsAreKept ==
    active = "batch" =>
        /\ mode = "p300" => clock - left <= MaxAbsence
        /\ (mode = "vs1" /\ step > 1 /\ plan.steps[step - 1].kind = "return") => clock - left <= MaxAbsence
        /\ mode = "vs1" => clock - p06 <= MaxAge

\* No read begins after the longest wait or ends after its deadline (plan_phase_windows).
ReadsAreInTime ==
    StepIs("read") => LET job == jobs[plan.steps[step].job]
                      IN  clock - job.queued <= MaxWait /\ clock + job.duration <= job.deadline

\* A batch that was planned is carried out within its budget (plan_phase_windows,
\* execute_read_phases).
PlanInv == PhasesTypeOK /\ LimitsAreKept /\ ReadsAreInTime

\* The reads come in an order their callers allow, and no order costs more windows
\* (_dependency_safe_order).
OrderInv == OrderIsSafe /\ NoExtraWindows

\* No sample is kept over a handover, an opaque call or a change of coordinator
\* (invalidate_all).  A batch may begin with older ones only after a request that was served
\* without a coordinator bound.
LedgerIsCurrent == outdated = {} \/ "bare" \in opaque

\* No batch rests on a proof that is older than a request served through the bridge while a
\* coordinator was bound: neither the bound one goes on nor can it be bound again
\* (_legacy_since_bind).
ProofIsFresh == active = "batch" => "bound" \notin opaque

\* The splitter's own requests reach a controller that speaks VS1, unless one of them has
\* changed that, and none is served after a batch has failed closed (response_to_request,
\* _failed_closed).
LegacyInVs1 == active = "legacy" => ~failedClosed /\ (ctl = "vs1" \/ opaque # {})

\* What a coordinator says of the controller is so until the next opaque request, and P300
\* is left to batches, to what one that failed has left behind and to those requests
\* (execute_read_phases, __exit__).
ModeIsTrue ==
    /\ mode \in {"vs1", "p300"} /\ opaque = {} => ctl = mode
    /\ mode = "p300" => active = "batch" \/ failedClosed
    /\ ctl = "p300" => active = "batch" \/ failedClosed \/ opaque # {}

\* Batches and the splitter's own requests share one line (response_to_request,
\* execute_maintenance).
BridgeInv == LegacyInVs1 /\ LedgerIsCurrent /\ ModeIsTrue /\ ProofIsFresh

\* "Only a fresh coordinator not used across opaque legacy calls may be bound."
\* (dispatcher_bridge.py, bind_verified_coordinator): one that may be bound has seen no
\* request since it proved VS1.
OnlyFreshIsBound == MayBind => opaque = {}

\* A batch ends: its plan never stands before a step the protocol does not allow.
BatchEnds == active = "batch" ~> active = "none"
=============================================================================
