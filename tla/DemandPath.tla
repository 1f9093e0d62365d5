----------------------------- MODULE DemandPath -----------------------------
(***************************************************************************)
(* The on-demand P300 read, from the local control socket to its answer:    *)
(* LocalDemandControl, BoundedDemandBatcher, OwnerGfaProvenance and          *)
(* OnDemandReadonlyRuntime.tick (continuous_runtime.py, scheduler.py), in    *)
(* the main loop of one process: poll, a few RPCs, tick, legacy requests.    *)
(*                                                                          *)
(* Time passes in ticks, and only where the loop waits: in a legacy request, *)
(* for the ingress freeze, and in the window.  Entering P300 with its reads  *)
(* takes one tick, the return to VS1 another.  What the lease, the readback  *)
(* ledger and the gate decide (ProducerFence, HybridRuntime) is a choice.    *)
(***************************************************************************)
EXTENDS Naturals, Sequences, FiniteSets, SequencesExt, Queues

CONSTANTS
    Ids, Kinds,
    Ttls,       \* the times to live a client asks for
    Capacity,   \* BoundedDemandBatcher.capacity
    MaxDistinct,\* max_distinct_reads
    MaxRecords, \* MAX_RECORDS
    MaxSeen,    \* MAX_SESSION_IDS
    Keep,       \* KEEP_RESULT_S
    Backoff,    \* the pause after a refused tick
    Interval,   \* min_interval_s and min_spacing_s
    MaxAge,     \* Budget.max_p06_age_ms
    MaxWait,    \* Budget.max_queue_wait_ms
    MaxWindow   \* Budget.max_vs1_unavailable_ms

ASSUME DemandAssumption ==
    /\ Kinds # {} /\ Ttls # {} /\ Ttls \subseteq Nat \ {0}
    /\ {Capacity, MaxDistinct, MaxRecords, MaxSeen, Keep, Backoff, Interval,
        MaxAge, MaxWait, MaxWindow} \subseteq Nat \ {0}
    /\ \A t \in Ttls : t < Keep

VARIABLES
    pc,         \* the main loop
    known,      \* LocalDemandControl.records
    seen,       \* seen_ids
    asked,      \* kind and life of a request
    state,      \* the state of its ticket
    age,        \* ticks since its submission
    order,      \* BoundedDemandBatcher._pending
    result,     \* the window whose bytes are in the record, 0 for none
    failed,     \* gate or batcher failed closed
    wait,       \* ticks until next_due
    cool,       \* ticks until batcher and gate admit the next batch
    p80,        \* OwnerGfaProvenance holds a P80 sample that is young enough
    p06,        \* the age of its P06 sample
    spent,      \* ticks in the window
    \* Observations the code does not make:
    windows,    \* number of windows so far
    runs,       \* the windows in which a request was read
    gap,        \* in a window, the ticks since the last real P06
    lost        \* the lease was rejected at the end of a verified window

requests == <<known, seen, asked, state, order, result>>
samples  == <<p80, p06, gap>>
ghost    == <<windows, runs, lost>>
vars     == <<pc, requests, age, failed, wait, cool, samples, spent, ghost>>

Live  == {"queued", "running"}
Ended == {"completed", "failed", "cancelled", "expired"}
Stale == MaxAge + 1

TypeOK ==
    /\ pc \in {"poll", "rpc", "tick", "frozen", "window", "legacy", "dead"}
    /\ known \subseteq seen /\ seen \subseteq Ids
    /\ Cardinality(known) <= MaxRecords
    /\ asked \in [Ids -> Kinds \X Ttls]
    /\ state \in [Ids -> {"none"} \cup Live \cup Ended]
    /\ age \in [Ids -> 0 .. Keep + 1]
    /\ order \in Seq(known) /\ Len(order) <= Capacity
    /\ \A i \in 1 .. Len(order) : state[order[i]] = "queued"
    /\ result \in [Ids -> 0 .. windows]
    /\ failed \in BOOLEAN /\ lost \in BOOLEAN
    /\ wait \in 0 .. Interval + Backoff /\ cool \in 0 .. Interval
    /\ p80 \in BOOLEAN /\ {p06, gap} \subseteq 0 .. Stale
    /\ spent \in 0 .. MaxWindow
    /\ windows \in Nat
    /\ runs \in [Ids -> SUBSET (1 .. windows)]

Init ==
    /\ pc = "poll"
    /\ known = {} /\ seen = {} /\ order = <<>>
    /\ asked = [id \in Ids |-> CHOOSE x \in Kinds \X Ttls : TRUE]
    /\ state = [id \in Ids |-> "none"]
    /\ age = [id \in Ids |-> 0]
    /\ result = [id \in Ids |-> 0]
    /\ failed = FALSE
    /\ wait = 0 /\ cool = 0
    /\ p80 = FALSE /\ p06 = Stale /\ gap = 0
    /\ spent = 0
    /\ windows = 0 /\ runs = [id \in Ids |-> {}] /\ lost = FALSE

Kind(id) == asked[id][1]
TtlOf(id)  == asked[id][2]

-----------------------------------------------------------------------------
\* LocalDemandControl.poll

\* _expire
Expired == {id \in Ids : state[id] = "queued" /\ age[id] >= TtlOf(id)}

\* _prune at the start of poll: expire tickets, then forget old ended records.
Poll ==
    /\ pc = "poll"
    /\ pc' = "rpc"
    /\ state' = [id \in Ids |-> IF id \in Expired THEN "expired" ELSE state[id]]
    /\ order' = Without(order, Expired)
    /\ known' = {id \in known : state'[id] \in Live \/ age[id] <= Keep}
    /\ result' = [id \in Ids |-> IF id \in known' THEN result[id] ELSE 0]
    /\ UNCHANGED <<seen, asked, age, failed, wait, cool, samples, spent, ghost>>

\* Mutant: only the records are asked for the identifier.
SubmitForgetful(id, kind, life) ==
    /\ pc = "rpc"
    /\ id \notin known
    /\ Cardinality(known) < MaxRecords
    /\ ~failed
    /\ Len(order) < Capacity
    /\ known' = known \cup {id}
    /\ seen' = seen \cup {id}
    /\ asked' = [asked EXCEPT ![id] = <<kind, life>>]
    /\ state' = [state EXCEPT ![id] = "queued"]
    /\ age' = [age EXCEPT ![id] = 0]
    /\ order' = Append(order, id)
    /\ UNCHANGED <<pc, result, failed, wait, cool, samples, spent, ghost>>

\* submit, when it is accepted; in every other case only an error or the status of
\* the known request goes back.
Submit(id, kind, life) ==
    /\ pc = "rpc"
    /\ id \notin known /\ id \notin seen
    /\ Cardinality(known) < MaxRecords
    /\ Cardinality(seen) < MaxSeen
    /\ ~failed
    /\ Len(order) < Capacity
    /\ known' = known \cup {id}
    /\ seen' = seen \cup {id}
    /\ asked' = [asked EXCEPT ![id] = <<kind, life>>]
    /\ state' = [state EXCEPT ![id] = "queued"]
    /\ age' = [age EXCEPT ![id] = 0]
    /\ order' = Append(order, id)
    /\ UNCHANGED <<pc, result, failed, wait, cool, samples, spent, ghost>>

\* cancel, while the ticket is pending.
Cancel(id) ==
    /\ pc = "rpc"
    /\ id \in known /\ id \in ToSet(order)
    /\ state' = [state EXCEPT ![id] = "cancelled"]
    /\ order' = Without(order, {id})
    /\ UNCHANGED <<pc, known, seen, asked, age, result, failed, wait, cool, samples, spent, ghost>>

EndOfPoll ==
    /\ pc = "rpc"
    /\ pc' = "tick"
    /\ UNCHANGED <<requests, age, failed, wait, cool, samples, spent, ghost>>

-----------------------------------------------------------------------------
\* BoundedDemandBatcher.select and the planner

\* plan_phase_windows: no ticket has waited too long, each read ends before its
\* deadline, and P06 will not be too old at the return.
Feasible(ids) ==
    /\ \A id \in ids : age[id] + 1 <= MaxWait /\ age[id] + 1 <= TtlOf(id)
    /\ p06 + 2 <= MaxAge

\* The longest prefix of the queue with at most MaxDistinct kinds, if it is feasible.
Selected ==
    LET kinds(n) == {Kind(order[i]) : i \in 1 .. n}
        length   == CHOOSE n \in 0 .. Len(order) :
                        /\ Cardinality(kinds(n)) <= MaxDistinct
                        /\ n = Len(order) \/ Cardinality(kinds(n + 1)) > MaxDistinct
        ids      == {order[i] : i \in 1 .. length}
    IN  IF failed \/ cool > 0 \/ ~Feasible(ids) THEN {} ELSE ids

\* require_age_ms: both samples are present and young enough.
Fresh == p80 /\ p06 <= MaxAge

\* tick up to the freeze.  Attestation and keepalive are choices.
Tick ==
    /\ pc = "tick"
    /\ IF failed \/ order = <<>> \/ wait > 0
       THEN pc' = "legacy" /\ UNCHANGED wait
       ELSE /\ wait' = Backoff
            /\ \/ pc' = "legacy"
               \/ Fresh /\ Selected # {} /\ pc' = "frozen"
    /\ UNCHANGED <<requests, age, failed, cool, samples, spent, ghost>>

Reserve(ids) ==
    /\ state' = [id \in Ids |-> IF id \in ids THEN "running" ELSE state[id]]
    /\ order' = Without(order, ids)
    /\ windows' = windows + 1
    /\ runs' = [id \in Ids |-> IF id \in ids THEN runs[id] \cup {windows + 1} ELSE runs[id]]
    /\ UNCHANGED <<known, seen, asked, result, lost>>

\* Mutant: the tickets are reserved before the fences are asked.
RefusedSpent ==
    /\ pc = "frozen"
    /\ pc' = "legacy"
    /\ IF Selected # {} THEN Reserve(Selected) ELSE UNCHANGED <<requests, ghost>>
    /\ failed' \in {failed, TRUE}
    /\ UNCHANGED <<age, wait, cool, samples, spent>>

\* The lease, the ledger, the gate or the second look refuses; a failed delayed
\* readback also closes the gate.
Refused ==
    /\ pc = "frozen"
    /\ pc' = "legacy"
    /\ failed' \in {failed, TRUE}
    /\ UNCHANGED <<requests, age, wait, cool, samples, spent, ghost>>

\* Everything is asked again inside the freeze; then reserve, before_transfer, begin.
Enter ==
    /\ pc = "frozen"
    /\ Fresh /\ Selected # {}
    /\ Reserve(Selected)
    /\ pc' = "window"
    /\ p80' = FALSE /\ p06' = Stale /\ gap' = p06
    /\ spent' = 0
    /\ UNCHANGED <<age, failed, wait, cool>>

\* Mutant: every record of the same kind gets the bytes.
AnswersByKind(completed) ==
    [id \in Ids |-> IF id \in known /\ \E other \in completed : Kind(other) = Kind(id)
                    THEN windows ELSE result[id]]

\* note_outcome: the records of the replies get the bytes.
Answers(completed) ==
    [id \in Ids |-> IF id \in completed THEN windows ELSE result[id]]

Running == {id \in Ids : state[id] = "running"}

\* complete(success=True): a ticket whose time has run out is not completed.
Completed == {id \in Running : age[id] <= TtlOf(id)}

\* The window is back in verified VS1, with P80 and P06 read.  If the lease is
\* rejected when it is left, the tick reports NOT_ADMITTED and the replies are gone.
WindowVerified ==
    /\ pc = "window"
    /\ pc' = "legacy"
    /\ state' = [id \in Ids |-> IF id \in Completed THEN "completed"
                                ELSE IF id \in Running THEN "expired" ELSE state[id]]
    /\ p80' = TRUE /\ p06' = 0 /\ gap' = 0
    /\ cool' = Interval
    /\ \/ result' = Answers(Completed) /\ wait' = Interval /\ UNCHANGED lost
       \/ lost' = TRUE /\ UNCHANGED <<result, wait>>
    /\ UNCHANGED <<known, seen, asked, order, age, failed, spent, windows, runs>>

\* An error: the batch fails, gate and batcher close, and the error goes up through
\* the main loop, unless it was the lease that rejected its marker.
WindowFails ==
    /\ pc \in {"frozen", "window"}
    /\ pc' = "dead" \/ (pc = "window" /\ pc' = "legacy")
    /\ failed' = TRUE
    /\ state' = [id \in Ids |-> IF id \in Running THEN "failed" ELSE state[id]]
    /\ p80' = FALSE /\ p06' = Stale
    /\ UNCHANGED <<known, seen, asked, order, result, age, wait, cool, gap, spent, ghost>>

-----------------------------------------------------------------------------
\* A legacy request and what observe_original makes of its answer: a valid byte is a
\* sample, an invalid answer discards all samples.  A closed gate takes no result.
Legacy ==
    /\ pc = "legacy"
    /\ IF failed
       THEN pc' = "dead" /\ UNCHANGED samples
       ELSE /\ pc' = "poll"
            /\ \/ UNCHANGED samples
               \/ p80' = TRUE /\ UNCHANGED <<p06, gap>>
               \/ p06' = 0 /\ UNCHANGED <<p80, gap>>
               \/ p80' = FALSE /\ p06' = Stale /\ UNCHANGED gap
    /\ UNCHANGED <<requests, age, failed, wait, cool, spent, ghost>>

Older(n, limit) == IF n < limit THEN n + 1 ELSE n
Sooner(n) == IF n > 0 THEN n - 1 ELSE n

Time ==
    /\ \/ pc \in {"legacy", "frozen"} /\ UNCHANGED spent
       \/ pc = "window" /\ spent < MaxWindow /\ spent' = spent + 1
    /\ age' = [id \in Ids |-> IF id \in known THEN Older(age[id], Keep + 1) ELSE age[id]]
    /\ wait' = Sooner(wait) /\ cool' = Sooner(cool)
    /\ p80' \in {p80, FALSE} /\ p06' = Older(p06, Stale)
    /\ gap' = IF pc = "window" THEN Older(gap, Stale) ELSE gap
    /\ UNCHANGED <<pc, requests, failed, ghost>>

Rpc == \E id \in Ids : Cancel(id) \/ \E kind \in Kinds, life \in Ttls : Submit(id, kind, life)

Loop ==
    \/ Poll \/ EndOfPoll \/ Tick \/ Refused \/ Enter
    \/ WindowVerified \/ WindowFails \/ Legacy

Next == Rpc \/ Loop \/ Time

Spec == Init /\ [][Next]_vars

\* The main loop turns, and time passes in its legacy requests.
FairSpec == Spec /\ WF_vars(Loop) /\ SF_vars(pc = "legacy" /\ Time)

-----------------------------------------------------------------------------
\* A request identifier is read at most once in a process life, however often the
\* client repeats it and whatever was pruned in between.
AtMostOneRead == \A id \in Ids : Cardinality(runs[id]) <= 1

\* Bytes are shown only for a ticket completed in time, and they come from the very
\* window in which this ticket was read; a completed ticket has its bytes, unless
\* the lease was rejected at the end of a window.
ResultIsItsOwn ==
    \A id \in known :
        /\ result[id] # 0 => state[id] = "completed" /\ result[id] \in runs[id]
        /\ state[id] = "completed" /\ ~lost => result[id] # 0

\* No ticket stays reserved when the window is over, in whatever way it ended.
NothingStranded == Running # {} => pc = "window"

\* A refused admission neither reserves nor discards a waiting ticket.
RefusalSpendsNothing ==
    [][(pc = "frozen" /\ pc' = "legacy") => UNCHANGED <<state, order>>]_vars

\* As long as a window keeps to its plan, two real P06 values are never further
\* apart than the budget allows.
P06GapBounded == pc = "window" /\ spent <= 2 => gap <= MaxAge

\* The life of a request: read once, with its own bytes, within the limits, never stranded
\* (submit, plan_phase_windows, complete).
DemandInv == TypeOK /\ AtMostOneRead /\ ResultIsItsOwn /\ NothingStranded /\ P06GapBounded

\* What a client may rely on whatever happens inside: DemandContract, step for step
\* (submit, cancel, _prune, reserve, complete, note_outcome).
Contract == INSTANCE DemandContract WITH life <- state, from <- result, count <- windows
ImplementsContract == Contract!Spec

\* Every request comes to an end: read, cancelled or expired.
RequestEnds == \A id \in Ids : state[id] = "queued" ~> state[id] # "queued" \/ pc = "dead"

\* Refusals, however many, cost a request nothing and do not keep it for ever (tick).
RequestsMakeProgress == RefusalSpendsNothing /\ RequestEnds
=============================================================================
