---------------------------- MODULE HybridRuntime ----------------------------
(***************************************************************************)
(* The main loop of the serial owner with the fenced read-only runtime in   *)
(* it: legacy requests from MQTT and TCP, the delayed readbacks of a /set,   *)
(* the admission gate, and ContinuousReadonlyRuntime.tick between frames     *)
(* (continuous_runtime.py, runtime_admission.py, pending_refresh.py,         *)
(* ingress_epoch.py, and the text dispatcher_patch.py puts into the loop).   *)
(*                                                                          *)
(* Threads: the main loop, the MQTT callback, the TCP listener, and one      *)
(* worker for each delayed readback.  One process life: it ends when the     *)
(* main loop raises.  The producer lease (ProducerFence) is a choice here:   *)
(* it admits the window or refuses it.                                       *)
(***************************************************************************)
EXTENDS Naturals, Sequences, FiniteSets, SequencesExt

CONSTANTS
    Values,     \* the values a datapoint can take; a value also stands for its write
    Readbacks,  \* delayed readbacks of one /set
    MaxTcp,     \* IngressEpoch.max_tcp_queue
    MaxSets,    \* bound: /set messages of a behaviour
    MaxCommands \* bound: other MQTT and TCP requests of a behaviour

\* A plain read, an opaque raw request, and the naked index of a legacy force poll.
Read  == "read"
Raw   == "raw"
Naked == 0

ASSUME RuntimeAssumption ==
    /\ Readbacks \in Nat \ {0} /\ MaxTcp \in Nat \ {0}
    /\ MaxSets \in Nat /\ MaxCommands \in Nat
    /\ Read \notin Values /\ Raw \notin Values

VARIABLES
    pc,           \* the main loop
    call,         \* the legacy request it has in the bridge
    mutex,        \* IngressEpoch.mutex
    mqttQ,        \* cmnd_queue
    tcpQ,         \* _hybrid_tcp_queue
    overflow,     \* tcp_overflow
    delaysLeft,   \* force_delayed calls the MQTT callback still has to make
    timers,       \* tickets whose worker sleeps
    forcedQ,      \* lst_force_refresh
    ledger,       \* PendingReadbackLedger._pending
    inflight,     \* _inflight
    ledgerFailed, \* PendingReadbackLedger._failed_closed
    unread,       \* _readback_pending: how often each written value awaits its read
    opaque,       \* _opaque_write_pending
    settled,      \* min_write_settle_s have passed since the last write
    failedClosed, \* RuntimeAdmissionGate.failed_closed
    due,          \* next_due is reached
    keepalive,    \* last_keepalive_at is at most two seconds old
    ctl,          \* the controller's value
    sets, commands, \* counters of the bounds; sets also numbers the tickets
    \* Observations the code does not make:
    unproved,     \* the last write no later read has shown, or "none"
    missed        \* a delayed readback has failed

queues  == <<mqttQ, tcpQ, overflow>>
refresh == <<delaysLeft, timers, forcedQ, ledger, inflight, ledgerFailed, missed>>
gate    == <<unread, opaque, settled, failedClosed, unproved>>
tick    == <<due, keepalive>>
bounds  == <<sets, commands>>
vars    == <<pc, call, mutex, queues, refresh, gate, tick, ctl, bounds>>

Requests == Values \cup {Read, Raw}
Tickets  == 1 .. MaxSets * Readbacks
Idle     == [req |-> "none", forced |-> FALSE]

TypeOK ==
    /\ pc \in {"loop", "call", "freeze", "fence", "decide", "window", "refused", "raised"}
    /\ call \in [req : Requests, forced : BOOLEAN] \cup {Idle}
    /\ mutex \in {"free", "main", "mqtt"}
    /\ mqttQ \in Seq(Requests)
    /\ tcpQ \in Seq(Requests) /\ Len(tcpQ) <= MaxTcp
    /\ delaysLeft \in 0 .. Readbacks
    /\ timers \subseteq Tickets /\ ledger \subseteq Tickets
    /\ forcedQ \in Seq(Tickets \cup {Naked})
    /\ inflight \in Tickets \cup {0}
    /\ unread \in [Values -> Nat]
    /\ \A flag \in {overflow, ledgerFailed, opaque, settled, failedClosed, due, keepalive, missed} :
            flag \in BOOLEAN
    /\ ctl \in Values
    /\ unproved \in Values \cup {Raw, "none"}
    /\ sets \in 0 .. MaxSets /\ commands \in 0 .. MaxCommands

Init ==
    /\ pc = "loop" /\ call = Idle
    /\ mutex = "free"
    /\ mqttQ = <<>> /\ tcpQ = <<>> /\ overflow = FALSE
    /\ delaysLeft = 0 /\ timers = {} /\ forcedQ = <<>>
    /\ ledger = {} /\ inflight = 0 /\ ledgerFailed = FALSE
    /\ unread = [v \in Values |-> 0] /\ opaque = FALSE
    /\ settled = TRUE /\ failedClosed = FALSE
    /\ due = FALSE /\ keepalive = FALSE
    /\ ctl \in Values
    /\ sets = 0 /\ commands = 0
    /\ unproved = "none" /\ missed = FALSE

\* The main loop has raised, or the gate has refused its legacy result.
Dead == pc \in {"refused", "raised"}

-----------------------------------------------------------------------------
\* The other threads

\* A command on the splitter's request topic: on_message appends it.
MqttCommand(r) ==
    /\ ~Dead /\ commands < MaxCommands
    /\ mutex = "free"
    /\ mqttQ' = Append(mqttQ, r)
    /\ commands' = commands + 1
    /\ UNCHANGED <<pc, call, mutex, tcpQ, overflow, refresh, gate, tick, ctl, sets>>

\* Mutant: on_message is not wrapped.
MqttSetUnwrapped(v) ==
    /\ ~Dead /\ sets < MaxSets
    /\ delaysLeft = 0
    /\ mqttQ' = Append(mqttQ, v)
    /\ sets' = sets + 1
    /\ UNCHANGED <<pc, call, mutex, tcpQ, overflow, refresh, gate, tick, ctl, commands>>

\* A /set: on_message appends the write and then asks for its delayed readbacks,
\* all inside the wrapper's mutex; the main loop can take the write meanwhile.
MqttSet(v) ==
    /\ ~Dead /\ sets < MaxSets
    /\ mutex = "free"
    /\ mutex' = "mqtt"
    /\ mqttQ' = Append(mqttQ, v)
    /\ delaysLeft' = Readbacks
    /\ sets' = sets + 1
    /\ UNCHANGED <<pc, call, tcpQ, overflow, timers, forcedQ, ledger, inflight, ledgerFailed,
                   missed, gate, tick, ctl, commands>>

Ticket == sets * Readbacks - delaysLeft + 1

\* Mutant: a worker that could not be started keeps its ticket.
ForceDelayedKeepsTicket ==
    /\ ~Dead /\ mutex = "mqtt"
    /\ ledger' = ledger \cup {Ticket}
    /\ \/ timers' = timers \cup {Ticket} /\ delaysLeft' = delaysLeft - 1
       \/ timers' = timers /\ delaysLeft' = 0
    /\ mutex' = IF delaysLeft' = 0 THEN "free" ELSE "mqtt"
    /\ UNCHANGED <<pc, call, queues, forcedQ, inflight, ledgerFailed, missed, gate, tick, ctl, bounds>>

\* tracked_force_delayed: register, start the worker; if it does not start, the
\* ticket is cancelled and the callback ends with the exception.
ForceDelayed ==
    /\ ~Dead /\ mutex = "mqtt"
    /\ \/ /\ ledger' = ledger \cup {Ticket}
          /\ timers' = timers \cup {Ticket}
          /\ delaysLeft' = delaysLeft - 1
       \/ /\ UNCHANGED <<ledger, timers>>
          /\ delaysLeft' = 0
    /\ mutex' = IF delaysLeft' = 0 THEN "free" ELSE "mqtt"
    /\ UNCHANGED <<pc, call, queues, forcedQ, inflight, ledgerFailed, missed, gate, tick, ctl, bounds>>

\* The delay is over: the worker appends its ticket, without the mutex.
WorkerWakes(t) ==
    /\ ~Dead /\ t \in timers
    /\ timers' = timers \ {t}
    /\ forcedQ' = Append(forcedQ, t)
    /\ UNCHANGED <<pc, call, mutex, queues, delaysLeft, ledger, inflight, ledgerFailed, missed,
                   gate, tick, ctl, bounds>>

\* received_data is assigned: queued, or the overflow is latched and the client's
\* read loop ends.  Only a request that is queued counts against the bound.
TcpReceive(r) ==
    /\ ~Dead /\ mutex = "free"
    /\ IF Len(tcpQ) >= MaxTcp
       THEN overflow' = TRUE /\ UNCHANGED <<tcpQ, commands>>
       ELSE /\ commands < MaxCommands /\ commands' = commands + 1
            /\ tcpQ' = Append(tcpQ, r) /\ UNCHANGED overflow
    /\ UNCHANGED <<pc, call, mutex, mqttQ, refresh, gate, tick, ctl, sets>>

-----------------------------------------------------------------------------
\* Legacy requests of the main loop

\* observe_legacy: a write arms the fence before the request is sent.
ObserveLegacy(r) ==
    /\ unread' = IF r \in Values THEN [unread EXCEPT ![r] = @ + 1] ELSE unread
    /\ opaque' = (opaque \/ r = Raw)
    /\ settled' = (settled /\ r = Read)
    /\ unproved' = IF r = Read \/ unproved = Raw THEN unproved ELSE r
    /\ UNCHANGED failedClosed

Take(r, forced) ==
    /\ pc = "loop"
    /\ pc' = "call"
    /\ call' = [req |-> r, forced |-> forced]
    /\ ObserveLegacy(r)
    /\ UNCHANGED <<tick, ctl, bounds, delaysLeft, timers, ledgerFailed, missed>>

TakeMqtt ==
    /\ mqttQ # <<>>
    /\ mqttQ' = Tail(mqttQ)
    /\ Take(Head(mqttQ), FALSE)
    /\ UNCHANGED <<mutex, tcpQ, overflow, forcedQ, ledger, inflight>>

\* get_request takes the mutex.
TakeTcp ==
    /\ tcpQ # <<>> /\ mutex = "free"
    /\ tcpQ' = Tail(tcpQ)
    /\ Take(Head(tcpQ), FALSE)
    /\ UNCHANGED <<mutex, mqttQ, overflow, forcedQ, ledger, inflight>>

\* Mutant: taking the ticket out of the queue counts as its readback.
TakeForcedRetires ==
    /\ forcedQ # <<>> /\ inflight = 0
    /\ forcedQ' = Tail(forcedQ)
    /\ inflight' = Head(forcedQ)
    /\ ledger' = ledger \ {Head(forcedQ)}
    /\ Take(Read, TRUE)
    /\ UNCHANGED <<mutex, queues>>

\* is_forced: consume marks the ticket in flight; a naked index is no ticket.
TakeForced ==
    /\ forcedQ # <<>> /\ inflight = 0
    /\ forcedQ' = Tail(forcedQ)
    /\ inflight' = Head(forcedQ)
    /\ Take(Read, TRUE)
    /\ UNCHANGED <<mutex, queues, ledger>>

\* The next datapoint of the poll list, or the order to force a poll of it.
Poll ==
    /\ Take(Read, FALSE)
    /\ UNCHANGED <<mutex, queues, forcedQ, ledger, inflight>>

ForcePoll ==
    /\ pc = "loop"
    /\ forcedQ = <<>>
    /\ forcedQ' = <<Naked>>
    /\ UNCHANGED <<pc, call, mutex, queues, delaysLeft, timers, ledger, inflight, ledgerFailed,
                   missed, gate, tick, ctl, bounds>>

\* Mutant: any successful read of the datapoint retires the oldest write.
ObserveResultAnyRead(r, ok) ==
    /\ unread' = IF r = Read /\ ok /\ \E v \in Values : unread[v] > 0
                 THEN [unread EXCEPT ![CHOOSE v \in Values : unread[v] > 0] = @ - 1]
                 ELSE unread
    /\ unproved' = IF r = Read /\ ok /\ ctl = unproved THEN "none" ELSE unproved
    /\ UNCHANGED <<opaque, settled, failedClosed>>

\* observe_legacy_result: only a read of a written value retires that write.
ObserveResult(r, ok) ==
    /\ unread' = IF r = Read /\ ok /\ unread[ctl] > 0
                 THEN [unread EXCEPT ![ctl] = @ - 1]
                 ELSE unread
    /\ unproved' = IF r = Read /\ ok /\ ctl = unproved THEN "none" ELSE unproved
    /\ UNCHANGED <<opaque, settled, failedClosed>>

\* complete_forced: only a successful read retires the ticket.
CompleteForced(ok) ==
    /\ inflight' = 0
    /\ IF ok
       THEN ledger' = ledger \ {inflight} /\ UNCHANGED <<ledgerFailed, missed>>
       ELSE /\ ledgerFailed' = (ledgerFailed \/ inflight # 0)
            /\ missed' = (missed \/ inflight # 0)
            /\ UNCHANGED ledger

\* What a request does to the controller: a write that fails may have arrived.
Effect(r, ok) ==
    \/ r \in Values /\ ctl' = r
    \/ (r \notin Values \/ ~ok) /\ UNCHANGED ctl
    \/ r = Raw /\ ctl' \in Values

\* The bridge returns.  A gate that has failed closed takes no result any more.
Return(ok) ==
    /\ pc = "call"
    /\ Effect(call.req, ok)
    /\ call' = Idle
    /\ IF failedClosed
       THEN pc' = "refused" /\ UNCHANGED <<gate, ledger, inflight, ledgerFailed, missed>>
       ELSE /\ pc' = "loop"
            /\ ObserveResult(call.req, ok)
            /\ IF call.forced
               THEN CompleteForced(ok)
               ELSE UNCHANGED <<ledger, inflight, ledgerFailed, missed>>
    /\ UNCHANGED <<mutex, queues, delaysLeft, timers, forcedQ, tick, bounds>>

\* The serial port raises in the bridge: no result is observed, the loop ends.
PortRaises ==
    /\ pc = "call"
    /\ pc' = "raised"
    /\ UNCHANGED <<call, mutex, queues, refresh, gate, tick, ctl, bounds>>

-----------------------------------------------------------------------------
\* The tick between two frames

\* The loop reads the VS1 identity when a window is due, then tick() advances
\* next_due and asks attestation and keepalive.  next_due may also be reached
\* between the loop's look at the clock and tick's: then no identity is read.
Tick ==
    /\ pc = "loop" /\ due /\ ~failedClosed
    /\ due' = FALSE
    /\ keepalive' \in {TRUE, FALSE, keepalive}
    /\ \E attested \in BOOLEAN :
            pc' = IF attested /\ keepalive' THEN "freeze" ELSE "loop"
    /\ UNCHANGED <<call, mutex, queues, refresh, gate, ctl, bounds>>

\* ingress.freeze
Freeze ==
    /\ pc = "freeze" /\ mutex = "free"
    /\ mutex' = "main"
    /\ pc' = "fence"
    /\ UNCHANGED <<call, queues, refresh, gate, tick, ctl, bounds>>

\* The window is refused: freeze and lease are left, the loop goes on.
Thaw ==
    /\ pc' = "loop"
    /\ mutex' = "free"

\* An error inside the freeze latches the gate and goes up through the main loop.
RaiseFailedClosed ==
    /\ failedClosed' = TRUE
    /\ pc' = "raised"
    /\ mutex' = "free"
    /\ UNCHANGED <<unread, opaque, settled, unproved>>

\* p300_window: refused, or the producer lease is held and its marker empty.
Fence ==
    /\ pc = "fence"
    /\ \/ Thaw
       \/ pc' = "decide" /\ UNCHANGED mutex
    /\ UNCHANGED <<call, queues, refresh, gate, tick, ctl, bounds>>

Unacknowledged == opaque \/ \E v \in Values : unread[v] > 0

\* decide, on the snapshot of the same moment.
Admitted ==
    /\ ~Unacknowledged
    /\ settled
    /\ keepalive
    /\ mqttQ = <<>> /\ tcpQ = <<>> /\ forcedQ = <<>>

\* The ledger, the snapshot and decide; then begin() marks the lease.  begin()
\* may fail: refused if the lease rejects, otherwise an error.
Decide ==
    /\ pc = "decide"
    /\ \/ ledgerFailed /\ failedClosed' = TRUE /\ Thaw
            /\ UNCHANGED <<unread, opaque, settled, unproved>>
       \/ ~ledgerFailed /\ (ledger # {} \/ (~overflow /\ ~Admitted)) /\ Thaw /\ UNCHANGED gate
       \/ ~ledgerFailed /\ ledger = {} /\ overflow /\ RaiseFailedClosed
       \/ /\ ~ledgerFailed /\ ledger = {} /\ ~overflow /\ Admitted
          /\ \/ pc' = "window" /\ UNCHANGED <<mutex, gate>>
             \/ Thaw /\ UNCHANGED gate
             \/ RaiseFailedClosed
    /\ UNCHANGED <<call, queues, refresh, tick, ctl, bounds>>

\* The batch is back in verified VS1: the next window waits for its interval.
\* Leaving the lease may still be refused.
WindowVerified ==
    /\ pc = "window"
    /\ due' = FALSE
    /\ keepalive' \in {TRUE, keepalive}
    /\ Thaw
    /\ UNCHANGED <<call, queues, refresh, gate, ctl, bounds>>

\* Any error of the batch.
WindowFails ==
    /\ pc = "window"
    /\ RaiseFailedClosed
    /\ UNCHANGED <<call, queues, refresh, tick, ctl, bounds>>

-----------------------------------------------------------------------------
\* Deadlines pass, and somebody turns the knob at the boiler.
Time ==
    /\ ~Dead
    /\ \/ due' = TRUE /\ UNCHANGED <<settled, keepalive>>
       \/ settled' = TRUE /\ UNCHANGED <<due, keepalive>>
       \/ keepalive' = FALSE /\ UNCHANGED <<due, settled>>
    /\ UNCHANGED <<pc, call, mutex, queues, refresh, unread, opaque, failedClosed, unproved, ctl, bounds>>

Panel ==
    /\ ~Dead
    /\ ctl' \in Values
    /\ UNCHANGED <<pc, call, mutex, queues, refresh, gate, tick, bounds>>

Others ==
    \/ \E r \in Requests : MqttCommand(r) \/ TcpReceive(r)
    \/ \E v \in Values : MqttSet(v)
    \/ ForceDelayed
    \/ \E t \in Tickets : WorkerWakes(t)

Main ==
    \/ TakeMqtt \/ TakeTcp \/ TakeForced \/ Poll \/ ForcePoll
    \/ \E ok \in BOOLEAN : Return(ok)
    \/ PortRaises
    \/ Tick \/ Freeze \/ Fence \/ Decide \/ WindowVerified \/ WindowFails

Next == Others \/ Main \/ Time \/ Panel

Spec == Init /\ [][Next]_vars

\* Calls return within their timeouts, callbacks end, sleeping workers wake, and
\* the loop looks at its forced reads again and again.
Fairness ==
    /\ WF_vars(\E ok \in BOOLEAN : Return(ok))
    /\ WF_vars(ForceDelayed)
    /\ \A t \in Tickets : WF_vars(WorkerWakes(t))
    /\ WF_vars(Freeze) /\ WF_vars(Fence) /\ WF_vars(Decide)
    /\ WF_vars(WindowVerified)
    /\ SF_vars(TakeForced)

FairSpec == Spec /\ Fairness

-----------------------------------------------------------------------------
\* While the controller may speak P300 no request waits or can arrive: no queued
\* command, no sleeping or queued readback, and the producers are locked out
\* (tick: freeze, then ledger, then snapshot).
WindowQuiet ==
    pc = "window" =>
        /\ mqttQ = <<>> /\ tcpQ = <<>> /\ forcedQ = <<>>
        /\ timers = {} /\ inflight = 0 /\ delaysLeft = 0
        /\ mutex = "main"

\* A window opens only when the last value written has been read back after its
\* write; a request the gate cannot interpret shuts the window for good.
WindowNeedsReadback == pc = "window" => unproved = "none"

\* The ledger knows exactly the readbacks that still have to happen, wherever they
\* are: asleep, queued or on the wire.  None is lost and none is a phantom.
LedgerIsExact ==
    ~ledgerFailed =>
        ledger = timers \cup (ToSet(forcedQ) \ {Naked}) \cup ({inflight} \ {0})

\* Once a delayed readback has failed there is no P300 window any more.
MissedReadbackIsFinal == missed => pc # "window"

\* Together: readbacks are counted exactly, and a failed one is not forgotten
\* (PendingReadbackLedger).
LedgerInv == TypeOK /\ LedgerIsExact /\ MissedReadbackIsFinal

\* The ingress mutex comes free again: a freeze ends, and so does a callback.
MutexComesFree == mutex # "free" ~> (mutex = "free" \/ Dead)

\* Every delayed readback happens or fails: the ledger does not fence for ever.
ReadbacksHappen == ledger # {} ~> (ledger = {} \/ ledgerFailed \/ Dead)

\* So neither the mutex nor the ledger stops the program for ever.
FencesLift == MutexComesFree /\ ReadbacksHappen

-----------------------------------------------------------------------------
\* "a timeout/invalid return permanently disables switching": and nothing else,
\* so the gate never refuses a legacy result before any window has failed.
FailedReadbackDisablesOnlySwitching == pc # "refused"
=============================================================================
