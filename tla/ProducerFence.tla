---------------------------- MODULE ProducerFence ----------------------------
(***************************************************************************)
(* The cooperative lease between the writer services and the P300 window   *)
(* (tools/handover_acceleration/producer_fence.py): one kernel flock plus   *)
(* one marker file that outlives the processes.  The services are wrapped   *)
(* by producer_boundary_patch.py; the marker of an interrupted P300 window  *)
(* is cleared by the recovery of shadow_canary.py.                          *)
(*                                                                          *)
(* `_marker' is ftruncate, write and fsync: a process can die between the    *)
(* first two, with the file empty, and each of them can raise an OSError,   *)
(* with the old marker, none or the new one in the file.  A write of these  *)
(* few bytes is taken for all or nothing.  The marker's text is abstracted  *)
(* to the four prefixes the code distinguishes; the producer's name is      *)
(* never read back.                                                         *)
(***************************************************************************)
EXTENDS Naturals

CONSTANTS Writers,      \* threads of the writer services (COOPERATIVE_SERVICES)
          Dispatcher,   \* the serial owner, the only user of p300_window
          NoOne,        \* nobody holds the flock
          MaxFaults     \* bound: kills and I/O errors in a behaviour

ASSUME FenceAssumption ==
    /\ Dispatcher \notin Writers
    /\ NoOne \notin Writers \cup {Dispatcher}
    /\ MaxFaults \in Nat

Actors == Writers \cup {Dispatcher}

P300Markers   == {"P300_ACTIVE", "P300_FAILED"}
WriterMarkers == {"ACTIVE", "FAILED"}
Markers       == {"EMPTY"} \cup WriterMarkers \cup P300Markers

VARIABLES
    holder,     \* owner of the exclusive flock
    marker,     \* content of producer-epoch.lock
    pc,         \* where each actor is
    pending,    \* what the actor's _marker call has still to write
    prior,      \* active['prior'] of each writer
    failed,     \* active['failed'] of each writer
    verified,   \* P300WindowProof.verified
    services,   \* "running", or how far a recovery has come
    faults,     \* kills and I/O errors so far
    \* What the file stands for, never read by the code:
    wire,       \* the protocol the controller really speaks
    debt,       \* writers that ever left a transaction without verification
    aborted,    \* writers that left their marker with nothing to verify: fsync or ftruncate raised
    torn        \* a fault hit a truncated marker while there was debt or P300

code == <<holder, marker, pc, pending, prior, failed, verified, services, faults>>
real == <<wire, debt, aborted, torn>>
vars == <<code, real>>

\* Between ftruncate and write of a _marker call.
InGap(a) == pc[a] \in {"marking", "latch_stay", "latch_raise", "restoring",
                       "beginning", "closing"}

\* A writer is between the read of the prior marker and the release.
InTransaction(w) == pc[w] \in {"marking", "body", "latch_stay", "latch_raise", "restoring"}

InWindow == pc[Dispatcher] \in {"window", "beginning", "started", "closing"}

TypeOK ==
    /\ holder \in Actors \cup {NoOne}
    /\ marker \in Markers
    /\ pc \in [Actors -> {"idle", "waiting", "marking", "body", "latch_stay", "latch_raise",
                          "restoring", "window", "beginning", "started", "closing"}]
    /\ \A w \in Writers : pc[w] = "idle" \/ pc[w] = "waiting" \/ InTransaction(w)
    /\ pc[Dispatcher] = "idle" \/ InWindow
    /\ pending \in [Actors -> Markers]
    /\ prior \in [Writers -> Markers]
    /\ failed \in [Writers -> BOOLEAN]
    /\ verified \in BOOLEAN
    /\ services \in {"running", "stopped", "restored"}
    /\ faults \in Nat
    /\ wire \in {"VS1", "P300"}
    /\ debt \in SUBSET Writers
    /\ aborted \in SUBSET Writers
    /\ torn \in BOOLEAN

Init ==
    /\ holder = NoOne
    /\ marker = "EMPTY"
    /\ pc = [a \in Actors |-> "idle"]
    /\ pending = [a \in Actors |-> "EMPTY"]
    /\ prior = [w \in Writers |-> "EMPTY"]
    /\ failed = [w \in Writers |-> FALSE]
    /\ verified = FALSE
    /\ services = "running"
    /\ faults = 0
    /\ wire = "VS1"
    /\ debt = {}
    /\ aborted = {}
    /\ torn = FALSE

-----------------------------------------------------------------------------
\* _marker(fd, data): the ftruncate, and the write that completes it.

Truncate(a, data, next) ==
    /\ marker' = "EMPTY"
    /\ pending' = [pending EXCEPT ![a] = data]
    /\ pc' = [pc EXCEPT ![a] = next]

Write(a, next) ==
    /\ marker' = pending[a]
    /\ pc' = [pc EXCEPT ![a] = next]
    /\ UNCHANGED pending

-----------------------------------------------------------------------------
\* writer_transaction

\* A wrapped method is called and opens the lease file.
Enter(w) ==
    /\ services = "running"
    /\ pc[w] = "idle"
    /\ pc' = [pc EXCEPT ![w] = "waiting"]
    /\ UNCHANGED <<holder, marker, pending, prior, failed, verified, services, faults, real>>

\* max_wait_s is over and the flock is still taken.
TimeOut(w) ==
    /\ pc[w] = "waiting"
    /\ holder # NoOne
    /\ pc' = [pc EXCEPT ![w] = "idle"]
    /\ UNCHANGED <<holder, marker, pending, prior, failed, verified, services, faults, real>>

\* The flock is taken, but the prior marker says that a P300 window was interrupted.
Reject(w) ==
    /\ pc[w] = "waiting"
    /\ holder = NoOne
    /\ marker \in P300Markers
    /\ pc' = [pc EXCEPT ![w] = "idle"]
    /\ UNCHANGED <<holder, marker, pending, prior, failed, verified, services, faults, real>>

\* Mutants of a definition stand before it and carry its name and their change.
\* Mutant: the prefix P300_ of the prior marker is not looked at.
AcquireAnyMarker(w) ==
    /\ pc[w] = "waiting"
    /\ holder = NoOne
    /\ holder' = w
    /\ prior' = [prior EXCEPT ![w] = marker]
    /\ failed' = [failed EXCEPT ![w] = FALSE]
    /\ Truncate(w, "ACTIVE", "marking")
    /\ UNCHANGED <<verified, services, faults, real>>

\* Mutant: the prior marker is read after the own one has been written.
AcquireReadsLate(w) ==
    /\ pc[w] = "waiting"
    /\ holder = NoOne
    /\ marker \notin P300Markers
    /\ holder' = w
    /\ prior' = [prior EXCEPT ![w] = "ACTIVE"]
    /\ failed' = [failed EXCEPT ![w] = FALSE]
    /\ Truncate(w, "ACTIVE", "marking")
    /\ UNCHANGED <<verified, services, faults, real>>

\* The flock is taken and the marker becomes ACTIVE:<producer>.
Acquire(w) ==
    /\ pc[w] = "waiting"
    /\ holder = NoOne
    /\ marker \notin P300Markers
    /\ holder' = w
    /\ prior' = [prior EXCEPT ![w] = marker]
    /\ failed' = [failed EXCEPT ![w] = FALSE]
    /\ Truncate(w, "ACTIVE", "marking")
    /\ UNCHANGED <<verified, services, faults, real>>

Activate(w) ==
    /\ pc[w] = "marking"
    /\ Write(w, "body")
    /\ UNCHANGED <<holder, prior, failed, verified, services, faults, real>>

\* _latch_failed: a nested transaction raised and its caller may swallow that,
\* or the wrapped method returned False (mark_unverified_write): the body goes on.
LatchAndStay(w) ==
    /\ pc[w] = "body"
    /\ failed' = [failed EXCEPT ![w] = TRUE]
    /\ debt' = debt \cup {w}
    /\ Truncate(w, "FAILED", "latch_stay")
    /\ UNCHANGED <<holder, prior, verified, services, faults, wire, aborted, torn>>

\* Mutant: the nested transaction ends like an outer one and unlocks.
LatchedUnlocks(w) ==
    /\ pc[w] = "latch_stay"
    /\ Write(w, "body")
    /\ holder' = NoOne
    /\ UNCHANGED <<prior, failed, verified, services, faults, real>>

LatchedStays(w) ==
    /\ pc[w] = "latch_stay"
    /\ Write(w, "body")
    /\ UNCHANGED <<holder, prior, failed, verified, services, faults, real>>

\* The body raises: latch, then release in the finally clause.
Raise(w) ==
    /\ pc[w] = "body"
    /\ failed' = [failed EXCEPT ![w] = TRUE]
    /\ debt' = debt \cup {w}
    /\ Truncate(w, "FAILED", "latch_raise")
    /\ UNCHANGED <<holder, prior, verified, services, faults, wire, aborted, torn>>

\* Mutant: a clean transaction empties the marker instead of restoring it.
RestoreEmpty(w) ==
    /\ pc[w] = "body"
    /\ ~failed[w]
    /\ Truncate(w, "EMPTY", "restoring")
    /\ UNCHANGED <<holder, prior, failed, verified, services, faults, real>>

\* The body ends and nothing was latched: the prior marker is put back.
Restore(w) ==
    /\ pc[w] = "body"
    /\ ~failed[w]
    /\ Truncate(w, prior[w], "restoring")
    /\ UNCHANGED <<holder, prior, failed, verified, services, faults, real>>

\* The body ends after a latch: the marker stays FAILED.
LeaveLatched(w) ==
    /\ pc[w] = "body"
    /\ failed[w]
    /\ holder' = NoOne
    /\ pc' = [pc EXCEPT ![w] = "idle"]
    /\ UNCHANGED <<marker, pending, prior, failed, verified, services, faults, real>>

\* The last _marker of a transaction, and the unlock after it.
Release(w) ==
    /\ pc[w] \in {"latch_raise", "restoring"}
    /\ Write(w, "idle")
    /\ holder' = NoOne
    /\ UNCHANGED <<prior, failed, verified, services, faults, real>>

-----------------------------------------------------------------------------
\* p300_window and P300WindowProof.  A busy flock or a nonempty marker refuse
\* the window without a trace.

\* Mutant: only the flock is taken, the size of the marker is not looked at.
OpenWindowAnyMarker ==
    /\ services = "running"
    /\ pc[Dispatcher] = "idle"
    /\ holder = NoOne
    /\ holder' = Dispatcher
    /\ pc' = [pc EXCEPT ![Dispatcher] = "window"]
    /\ verified' = FALSE
    /\ UNCHANGED <<marker, pending, prior, failed, services, faults, real>>

OpenWindow ==
    /\ services = "running"
    /\ pc[Dispatcher] = "idle"
    /\ holder = NoOne
    /\ marker = "EMPTY"
    /\ holder' = Dispatcher
    /\ pc' = [pc EXCEPT ![Dispatcher] = "window"]
    /\ verified' = FALSE
    /\ UNCHANGED <<marker, pending, prior, failed, services, faults, real>>

\* The tick refuses P300, or fails, before begin().
LeaveWindow ==
    /\ pc[Dispatcher] = "window"
    /\ holder' = NoOne
    /\ pc' = [pc EXCEPT ![Dispatcher] = "idle"]
    /\ UNCHANGED <<marker, pending, prior, failed, verified, services, faults, real>>

Begin ==
    /\ pc[Dispatcher] = "window"
    /\ Truncate(Dispatcher, "P300_ACTIVE", "beginning")
    /\ UNCHANGED <<holder, prior, failed, verified, services, faults, real>>

Begun ==
    /\ pc[Dispatcher] = "beginning"
    /\ Write(Dispatcher, "started")
    /\ UNCHANGED <<holder, prior, failed, verified, services, faults, real>>

\* The batch between begin() and confirm_verified_vs1(), as its user runs it.
SwitchToP300 ==
    /\ pc[Dispatcher] = "started" /\ ~verified
    /\ wire = "VS1"
    /\ wire' = "P300"
    /\ UNCHANGED <<code, debt, aborted, torn>>

ReturnToVs1 ==
    /\ pc[Dispatcher] = "started" /\ ~verified
    /\ wire = "P300"
    /\ wire' = "VS1"
    /\ UNCHANGED <<code, debt, aborted, torn>>

\* confirm_verified_vs1(): called when the batch came back with a verified VS1.
Confirm ==
    /\ pc[Dispatcher] = "started" /\ ~verified
    /\ wire = "VS1"
    /\ verified' = TRUE
    /\ UNCHANGED <<holder, marker, pc, pending, prior, failed, services, faults, real>>

\* Mutant: the marker is emptied after a failure too.
CloseEmpty ==
    /\ pc[Dispatcher] = "started"
    /\ Truncate(Dispatcher, "EMPTY", "closing")
    /\ UNCHANGED <<holder, prior, failed, verified, services, faults, real>>

\* The finally clause of p300_window, after success or any exception.
Close ==
    /\ pc[Dispatcher] = "started"
    /\ Truncate(Dispatcher, IF verified THEN "EMPTY" ELSE "P300_FAILED", "closing")
    /\ UNCHANGED <<holder, prior, failed, verified, services, faults, real>>

Closed ==
    /\ pc[Dispatcher] = "closing"
    /\ Write(Dispatcher, "idle")
    /\ holder' = NoOne
    /\ UNCHANGED <<prior, failed, verified, services, faults, real>>

-----------------------------------------------------------------------------
\* Faults.  What the marker stood for is lost when a fault hits the gap.

Forgets(a) == InGap(a) /\ (debt' # {} \/ wire # "VS1")

\* The process dies: the kernel drops its flock, the file stays as it is.
Kill(a) ==
    /\ faults < MaxFaults
    /\ pc[a] # "idle"
    /\ faults' = faults + 1
    /\ pc' = [pc EXCEPT ![a] = "idle"]
    /\ holder' = IF holder = a THEN NoOne ELSE holder
    /\ debt' = IF pc[a] = "body" THEN debt \cup {a} ELSE debt
    /\ torn' = (torn \/ Forgets(a))
    /\ UNCHANGED <<marker, pending, prior, failed, verified, services, wire, aborted>>

\* A system call of _marker raises.  The exception ends in the unlock, everywhere but in
\* a latch where the body may still swallow it.
Unwinds(a) ==
    /\ faults < MaxFaults
    /\ faults' = faults + 1
    /\ pc' = [pc EXCEPT ![a] = "idle"]
    /\ holder' = NoOne
    /\ UNCHANGED <<pending, prior, verified, services, wire>>

Swallowed(w) ==
    /\ faults < MaxFaults
    /\ faults' = faults + 1
    /\ pc' = [pc EXCEPT ![w] = "body"]
    /\ UNCHANGED <<holder, pending, prior, verified, services, wire>>

\* The write, with the file empty.
WriteFails(a) ==
    /\ InGap(a)
    /\ IF pc[a] = "latch_stay" THEN Swallowed(a) ELSE Unwinds(a)
    /\ UNCHANGED debt
    /\ torn' = (torn \/ Forgets(a))
    /\ UNCHANGED <<marker, failed, aborted>>

\* The fsync, after the marker was written.
SyncFails(a) ==
    /\ InGap(a)
    /\ IF pc[a] = "latch_stay" THEN Swallowed(a) ELSE Unwinds(a)
    /\ marker' = pending[a]
    /\ aborted' = IF pc[a] = "marking" THEN aborted \cup {a} ELSE aborted
    /\ UNCHANGED <<failed, debt, torn>>

\* The ftruncate, with the old marker still there: of the first marker (or the lease file
\* cannot be opened), of a latch, of the marker that is put back, and of a window's last.
AcquireFails(w) ==
    /\ pc[w] = "waiting" /\ holder = NoOne
    /\ Unwinds(w)
    /\ UNCHANGED <<marker, failed, debt, aborted, torn>>

LatchFails(w) ==
    /\ pc[w] = "body"
    /\ Swallowed(w) \/ Unwinds(w)
    /\ failed' = [failed EXCEPT ![w] = TRUE]
    /\ debt' = debt \cup {w}
    /\ UNCHANGED <<marker, aborted, torn>>

RestoreFails(w) ==
    /\ pc[w] = "body" /\ ~failed[w]
    /\ Unwinds(w)
    /\ aborted' = aborted \cup {w}
    /\ UNCHANGED <<marker, failed, debt, torn>>

CloseFails ==
    /\ pc[Dispatcher] = "started"
    /\ Unwinds(Dispatcher)
    /\ UNCHANGED <<marker, failed, debt, aborted, torn>>

-----------------------------------------------------------------------------
\* recover() of shadow_canary.py: every unit is stopped, the original splitter
\* starts and proves VS1 by P80 and P06, the marker of a P300 window is emptied.

StopServices ==
    /\ services = "running"
    /\ services' = "stopped"
    /\ pc' = [a \in Actors |-> "idle"]
    /\ holder' = NoOne
    /\ debt' = debt \cup {w \in Writers : pc[w] = "body"}
    /\ torn' = (torn \/ \E a \in Actors : Forgets(a))
    /\ UNCHANGED <<marker, pending, prior, failed, verified, faults, wire, aborted>>

\* gfa(35) got P80 = 20 and a valid P06 from the original VS1 splitter.
OriginalGfa ==
    /\ services = "stopped"
    /\ services' = "restored"
    /\ wire' = "VS1"
    /\ UNCHANGED <<holder, marker, pc, pending, prior, failed, verified, faults, debt, aborted, torn>>

\* Mutant: the recovery knows the marker of a killed window only.
ClearActiveOnly ==
    /\ services = "restored"
    /\ holder = NoOne
    /\ marker' = IF marker = "P300_ACTIVE" THEN "EMPTY" ELSE marker
    /\ services' = "running"
    /\ UNCHANGED <<holder, pc, pending, prior, failed, verified, faults, real>>

\* clear_p300_after_gfa, and the units are started again.
ClearAndRestart ==
    /\ services = "restored"
    /\ holder = NoOne
    /\ marker' = IF marker \in P300Markers THEN "EMPTY" ELSE marker
    /\ services' = "running"
    /\ UNCHANGED <<holder, pc, pending, prior, failed, verified, faults, real>>

-----------------------------------------------------------------------------
WriterStep(w) ==
    \/ Enter(w) \/ TimeOut(w) \/ Reject(w) \/ Acquire(w) \/ Activate(w)
    \/ LatchAndStay(w) \/ LatchedStays(w) \/ Raise(w)
    \/ Restore(w) \/ LeaveLatched(w) \/ Release(w)

WindowStep ==
    \/ OpenWindow \/ LeaveWindow \/ Begin \/ Begun
    \/ SwitchToP300 \/ ReturnToVs1 \/ Confirm \/ Close \/ Closed

FaultStep ==
    \/ \E a \in Actors : Kill(a) \/ WriteFails(a) \/ SyncFails(a)
    \/ \E w \in Writers : AcquireFails(w) \/ LatchFails(w) \/ RestoreFails(w)
    \/ CloseFails

RecoveryStep == StopServices \/ OriginalGfa \/ ClearAndRestart

Next ==
    \/ \E w \in Writers : WriterStep(w)
    \/ WindowStep
    \/ FaultStep
    \/ RecoveryStep

Spec == Init /\ [][Next]_vars

\* A waiting writer's loop runs on; ExecStopPost of the session's unit runs a
\* recovery to its end and, by its watchdog, whenever a P300 marker is left over.
Fairness ==
    /\ \A w \in Writers : WF_vars(TimeOut(w) \/ Reject(w) \/ Acquire(w))
    /\ WF_vars(marker \in P300Markers /\ holder = NoOne /\ StopServices)
    /\ WF_vars(OriginalGfa)
    /\ WF_vars(ClearAndRestart)

FairSpec == Spec /\ Fairness

-----------------------------------------------------------------------------
\* A writer's transaction and a P300 window never overlap, whatever dies: each
\* of them runs under the one exclusive flock (writer_transaction, p300_window).
Exclusion ==
    /\ \A w \in Writers : InTransaction(w) => holder = w
    /\ InWindow => holder = Dispatcher

\* The flock is all of the lease: with it the states stay those of the types, and the two
\* critical sections apart.
LeaseInv == TypeOK /\ Exclusion

\* No writer sends VS1 requests to a controller that still speaks P300: the
\* P300_ marker turns it away until the original GFA reads confirm VS1.  Only a
\* fault inside a _marker call can break this.
WriterNeedsVs1 ==
    \A w \in Writers : InTransaction(w) => wire = "VS1" \/ torn

\* No P300 window opens after a write whose result nobody verified, however many
\* clean transactions followed it: each restores the marker it found.
WindowNeedsVerifiedWrites == InWindow => debt = {} \/ torn

\* What accounts for a writer's marker: FAILED for an unverified write, ACTIVE for one or
\* for a transaction that had nothing unverified and could not take its marker back.
HasCause(m) ==
    /\ m = "FAILED" => debt # {}
    /\ m = "ACTIVE" => debt # {} \/ aborted # {}

\* A writer marker that outlives its transaction always has a cause: clean
\* transactions, timeouts and rejected writers leave no latch behind, unless a
\* system call of _marker raises, and then never FAILED.
LatchHasCause == holder = NoOne => HasCause(marker)

\* Only an interrupted or unverified window leaves a P300 marker, and never on
\* top of a writer's latch, so the recovery that empties it forgets no writer.
P300MarkerHidesNoLatch ==
    marker \in P300Markers => debt = {} \/ torn

\* A writer's wait is bounded, although the flock gives it no turn.
WaitEnds == \A w \in Writers : pc[w] = "waiting" ~> pc[w] # "waiting"

\* The block an interrupted window leaves behind is lifted again by a recovery.
P300BlockIsLifted ==
    marker \in P300Markers /\ holder = NoOne ~> marker \notin P300Markers

\* So nothing is blocked for ever: neither a writer behind the flock nor every writer
\* behind the marker.
BlocksEnd == WaitEnds /\ P300BlockIsLifted

\* The lease implements FenceContract: flock, marker and their order of changes
\* give every writer and every window what the contract promises, and forget a
\* debt only through a fault in the gap of _marker.
Contract == INSTANCE FenceContract WITH
    user <- IF holder = NoOne THEN "nobody"
            ELSE IF holder = Dispatcher THEN "window" ELSE "writer",
    unsettled <- debt # {},
    amnesia <- torn

ImplementsContract == Contract!Spec

-----------------------------------------------------------------------------
\* "Persist intent while still holding flock; a crash leaves P300 blocked."
\* (producer_fence.py, _marker): an unverified write always leaves a marker.
CrashLeavesP300Blocked ==
    debt # {} /\ holder = NoOne => marker # "EMPTY"
=============================================================================
