---------------------------- MODULE CanarySession ----------------------------
(***************************************************************************)
(* A supervised session on the live system: shadow_canary.py and             *)
(* continuous_canary.py with the attestation of runtime_enrollment.py and    *)
(* the overrides of release_rollout.py.                                     *)
(*                                                                          *)
(* The worker is a transient systemd unit.  It stops the services, puts a    *)
(* drop-in file beside each of their units so that they start as the copies  *)
(* of a release ("shadow"), and starts them again; a continuous session then *)
(* writes the enrollment manifest and one drop-in more, which lets the       *)
(* splitter switch to P300 by itself ("auto").  However the worker ends,     *)
(* systemd runs the recovery after it, which is to take everything back.     *)
(*                                                                          *)
(* Worker and recovery are scripts of commands, one step each; a step of the *)
(* worker that fails ends it.  A file is created in one step and filled in   *)
(* the next.  Hashes, owners and paths of the release are left out, as are   *)
(* the contents of the reports beyond their verdict.                         *)
(***************************************************************************)
EXTENDS Naturals, Sequences, SequencesExt, FiniteSets

CONSTANTS
    Writers,     \* the writer services, in order
    MaxSessions, \* bound: sessions
    MaxMishaps    \* bound: failures, crashes and power cuts

Main  == "splitter"
Timer == "clock-sync"     \* the timer; its service has a drop-in of its own
Producers == ToSet(Writers) \cup {Timer}
Units == Producers \cup {Main}

ASSUME CanaryAssumption ==
    /\ Writers \in Seq(STRING) /\ Main \notin ToSet(Writers) /\ Timer \notin ToSet(Writers)
    /\ MaxSessions \in Nat /\ MaxMishaps \in Nat

VARIABLES
    runs,      \* runs[u]: what the process of u executes, "off" without one
    stopping,  \* units whose stop goes on after the call has timed out
    dropin,    \* dropin[u]: the override file beside the unit
    extra,     \* the override file that activates the automatic mode
    manifest,  \* enrollment.json
    loaded,    \* loaded[u]: what systemd starts, since the last daemon-reload
    marker,    \* the producer lease's content
    window,    \* the splitter is in a P300 window
    phase,     \* the transient unit: its worker, its recovery, or none
    kind,      \* "shadow" or "auto": the module that runs
    todo,      \* commands left
    pinned,    \* the splitter's process is the one whose PID the worker noted
    errors,    \* the recovery has met an error
    report,    \* recovery.json
    sessions, mishaps, \* counters of the bounds
    \* Observations the code does not make:
    killed,    \* a recovery was cut short by its time limit, or the power was lost
    upset      \* a step of this session's recovery went wrong

files   == <<dropin, extra, manifest>>
wire    == <<marker, window>>
script  == <<phase, kind, todo>>
records == <<pinned, errors, report>>
bounds   == <<sessions, mishaps>>
observed    == <<killed, upset>>
sessionVars    == <<runs, stopping, files, loaded, wire, script, records, bounds, observed>>

Files == {"none", "torn", "full"}
Images == {"off", "original", "shadow", "auto"}
Ops   == {"stop", "provision", "create", "fill", "reload", "start", "gfa", "check",
          "enroll", "attest", "create extra", "fill extra", "fill manifest", "restart", "watch", "measure",
          "drop extra", "drop manifest", "remove", "go on", "clear", "report"}

SessionTypeOK ==
    /\ runs \in [Units -> Images] /\ \A p \in Producers : runs[p] # "auto"
    /\ stopping \subseteq {u \in Units : runs[u] # "off"}
    /\ dropin \in [Units -> Files] /\ extra \in Files /\ manifest \in Files
    /\ loaded \in [Units -> Images \ {"off"}]
    /\ marker \in {"empty", "P300", "writer"}
    /\ window \in BOOLEAN /\ (window => marker = "P300" /\ runs[Main] = "auto")
    /\ phase \in {"none", "worker", "recovery"} /\ kind \in {"shadow", "auto"}
    /\ \A i \in DOMAIN todo : todo[i][1] \in Ops /\ todo[i][2] \in Units \cup {"-"}
    /\ pinned \in BOOLEAN /\ errors \in BOOLEAN
    /\ report \in {"none", "PASS", "FAIL"}
    /\ sessions \in 0 .. MaxSessions /\ mishaps \in 0 .. MaxMishaps
    /\ killed \in BOOLEAN /\ upset \in BOOLEAN

SessionInit ==
    /\ runs = [u \in Units |-> "original"] /\ stopping = {}
    /\ dropin = [u \in Units |-> "none"] /\ extra = "none" /\ manifest = "none"
    /\ loaded = [u \in Units |-> "original"]
    /\ marker \in {"empty", "writer"} /\ window = FALSE
    /\ phase = "none" /\ kind = "shadow" /\ todo = <<>>
    /\ pinned = FALSE /\ errors = FALSE /\ report = "none"
    /\ sessions = 0 /\ mishaps = 0
    /\ killed = FALSE /\ upset = FALSE

Mishap == mishaps < MaxMishaps /\ mishaps' = mishaps + 1

-----------------------------------------------------------------------------
\* The scripts.
Each(op, units) == [i \in DOMAIN units |-> <<op, units[i]>>]
Just(op) == << <<op, "-">> >>

\* unit_dropins, in its order: the splitter and the five producers.
Overridden == <<Main>> \o Writers \o <<Timer>>
Install == [i \in 1 .. 2 * Len(Overridden) |->
                IF i % 2 = 1 THEN <<"create", Overridden[(i + 1) \div 2]>> ELSE <<"fill", Overridden[i \div 2]>>]

ShadowScript ==
    Each("stop", <<Timer>> \o Writers \o <<Main>>) \o Just("provision") \o Install \o Just("reload")
    \o Each("start", <<Main>>) \o Just("gfa") \o Each("start", Writers \o <<Timer>>) \o Just("check") \o Just("gfa")

AutoScript ==
    Just("enroll") \o Just("fill manifest") \o Just("attest") \o Just("create extra") \o Just("fill extra")
    \o Just("reload") \o Just("restart") \o Just("gfa") \o Just("watch") \o Just("gfa")

WorkerScript(k) == ShadowScript \o (IF k = "auto" THEN AutoScript ELSE <<>>) \o Just("measure")

\* Mutant: the producers are back before the splitter is stopped.
RecoveryScriptProducersFirst(k) ==
    (IF k = "auto" THEN Just("drop extra") \o Just("drop manifest") ELSE <<>>)
    \o Each("stop", <<Timer>> \o Writers) \o Each("remove", Overridden) \o Just("reload") \o Just("go on")
    \o Each("start", Writers \o <<Timer>>) \o Each("stop", <<Main>>) \o Each("start", <<Main>>)
    \o Just("gfa") \o Just("clear") \o Just("check") \o Just("gfa") \o Just("report")

RecoveryScript(k) ==
    (IF k = "auto" THEN Just("drop extra") \o Just("drop manifest") ELSE <<>>)
    \o Each("stop", <<Timer>> \o Writers \o <<Main>>) \o Each("remove", Overridden) \o Just("reload") \o Just("go on")
    \o Each("start", <<Main>>) \o Just("gfa") \o Just("clear") \o Each("start", Writers \o <<Timer>>)
    \o Just("check") \o Just("gfa") \o Just("report")

-----------------------------------------------------------------------------
\* systemd.
\* What the files of u make of it: an override without content changes nothing.
FromFiles(u) ==
    IF dropin[u] # "full" THEN "original" ELSE IF u = Main /\ extra = "full" THEN "auto" ELSE "shadow"

\* The process of u ends: the splitter's window stays open on the wire, and in the
\* marker.
ProcessEnds(u) ==
    /\ stopping' = stopping \ {u}
    /\ window' = (window /\ u # Main)
    /\ pinned' = (pinned /\ u # Main)

Stopped(u) == runs' = [runs EXCEPT ![u] = "off"] /\ ProcessEnds(u)
Started(u) == runs' = [runs EXCEPT ![u] = loaded[u]] /\ ProcessEnds(u)

\* verify_enrollment
Attested ==
    manifest = "full" /\ marker = "empty" /\ \A p \in Producers : runs[p] = "shadow" /\ p \notin stopping

\* ActiveState is "active": a unit whose stop goes on is "deactivating".
Active(u) == runs[u] # "off" /\ u \notin stopping
AllActive == \A u \in Units : Active(u)

-----------------------------------------------------------------------------
\* The session.
Begins(k) ==
    /\ phase' = "worker" /\ kind' = k /\ todo' = WorkerScript(k)
    /\ sessions' = sessions + 1
    /\ pinned' = FALSE /\ errors' = FALSE /\ report' = "none"
    /\ upset' = FALSE
    /\ UNCHANGED <<runs, stopping, files, loaded, marker, window, mishaps, killed>>

\* launch with preflight.  The activating override is not looked for.
Launch(k) ==
    /\ phase = "none" /\ sessions < MaxSessions
    /\ \A u \in Units : dropin[u] = "none"
    /\ manifest = "none" /\ AllActive /\ ~window
    /\ Begins(k)

\* ExecStopPost: the recovery follows, however the worker has ended.
WorkerEnds ==
    /\ phase' = "recovery" /\ todo' = RecoveryScript(kind)
    /\ UNCHANGED kind

Op == Head(todo)[1]
Unit == Head(todo)[2]
Doing(ph, op) == phase = ph /\ todo # <<>> /\ Op = op
NextCommand == todo' = Tail(todo) /\ UNCHANGED <<phase, kind>>

\* The worker fails at a command, is killed there, or has reached RuntimeMaxSec.
WorkerDies ==
    /\ phase = "worker"
    /\ WorkerEnds
    /\ UNCHANGED <<runs, stopping, files, loaded, wire, records, bounds, observed>>

Stop ==
    /\ Doing("worker", "stop") \/ Doing("recovery", "stop")
    /\ Stopped(Unit) /\ NextCommand
    /\ UNCHANGED <<files, loaded, marker, errors, report, bounds, observed>>

\* provision_lock refuses a marker that was left.
Provision ==
    /\ Doing("worker", "provision")
    /\ marker = "empty"
    /\ NextCommand
    /\ UNCHANGED <<runs, stopping, files, loaded, wire, records, bounds, observed>>

Create ==
    /\ Doing("worker", "create") /\ dropin[Unit] = "none"
    /\ dropin' = [dropin EXCEPT ![Unit] = "torn"]
    /\ NextCommand
    /\ UNCHANGED <<runs, stopping, extra, manifest, loaded, wire, records, bounds, observed>>

Fill ==
    /\ Doing("worker", "fill")
    /\ dropin' = [dropin EXCEPT ![Unit] = "full"]
    /\ NextCommand
    /\ UNCHANGED <<runs, stopping, extra, manifest, loaded, wire, records, bounds, observed>>

\* _write_enrollment, and the override of the automatic mode.
WriteExtra ==
    /\ \/ Doing("worker", "enroll") /\ manifest = "none" /\ manifest' = "torn" /\ UNCHANGED extra
       \/ Doing("worker", "fill manifest") /\ manifest' = "full" /\ UNCHANGED extra
       \/ Doing("worker", "create extra") /\ extra = "none" /\ extra' = "torn" /\ UNCHANGED manifest
       \/ Doing("worker", "fill extra") /\ extra' = "full" /\ UNCHANGED manifest
    /\ NextCommand
    /\ UNCHANGED <<runs, stopping, dropin, loaded, wire, records, bounds, observed>>

Reload ==
    /\ Doing("worker", "reload") \/ Doing("recovery", "reload")
    /\ loaded' = [u \in Units |-> FromFiles(u)]
    /\ NextCommand
    /\ UNCHANGED <<runs, stopping, files, wire, records, bounds, observed>>

Start ==
    /\ Doing("worker", "start") \/ Doing("recovery", "start")
    /\ IF runs[Unit] = "off" THEN Started(Unit) ELSE UNCHANGED <<runs, stopping, window, pinned>>
    /\ NextCommand
    /\ UNCHANGED <<files, loaded, marker, errors, report, bounds, observed>>

\* systemctl restart, and the PID is pinned.
RestartMain ==
    /\ Doing("worker", "restart")
    /\ runs' = [runs EXCEPT ![Main] = loaded[Main]]
    /\ stopping' = stopping \ {Main} /\ window' = FALSE
    /\ pinned' = TRUE
    /\ NextCommand
    /\ UNCHANGED <<files, loaded, marker, errors, report, bounds, observed>>

\* A GFA read is answered: the splitter runs and is not in a window.  Then the units
\* are asked whether they are active; the enrollment is verified.
Look ==
    /\ \/ /\ Doing("worker", "gfa") \/ Doing("recovery", "gfa")
          /\ Active(Main) /\ ~window
       \/ (Doing("worker", "check") \/ Doing("recovery", "check")) /\ AllActive
       \/ Doing("worker", "attest") /\ Attested
    /\ NextCommand
    /\ UNCHANGED <<runs, stopping, files, loaded, wire, records, bounds, observed>>

\* The watch loop, which every round checks the units, the PID and the attestation or
\* a marker that only a window explains, ends with enough windows or at its deadline.
Watch ==
    /\ Doing("worker", "watch")
    /\ AllActive /\ pinned /\ (Attested \/ window)
    /\ NextCommand
    /\ UNCHANGED <<runs, stopping, files, loaded, wire, records, bounds, observed>>

\* The measurement is written, and the worker returns.
Measure ==
    /\ Doing("worker", "measure")
    /\ WorkerEnds
    /\ UNCHANGED <<runs, stopping, files, loaded, wire, records, bounds, observed>>

-----------------------------------------------------------------------------
\* The recovery.  Errors are collected; only an activating override that it does not
\* know makes it give up at once, with nothing else done.
\* Mutant: a missing override is an error.
DropExtraStrict ==
    /\ Doing("recovery", "drop extra")
    /\ IF extra = "full"
       THEN extra' = "none" /\ NextCommand /\ UNCHANGED errors
       ELSE phase' = "none" /\ todo' = <<>> /\ errors' = TRUE /\ UNCHANGED <<kind, extra>>
    /\ UNCHANGED <<runs, stopping, dropin, manifest, loaded, wire, pinned, report, bounds, observed>>

DropExtra ==
    /\ Doing("recovery", "drop extra")
    /\ IF extra = "torn"
       THEN phase' = "none" /\ todo' = <<>> /\ errors' = TRUE /\ UNCHANGED <<kind, extra>>
       ELSE extra' = "none" /\ NextCommand /\ UNCHANGED errors
    /\ UNCHANGED <<runs, stopping, dropin, manifest, loaded, wire, pinned, report, bounds, observed>>

\* A manifest it does not know stays; the error is not one of recovery.json.
DropManifest ==
    /\ Doing("recovery", "drop manifest")
    /\ manifest' = (IF manifest = "torn" THEN manifest ELSE "none")
    /\ NextCommand
    /\ UNCHANGED <<runs, stopping, dropin, extra, loaded, wire, records, bounds, observed>>

\* Mutant: an override with another content is looked at again and again.
RemoveOverrideAgain ==
    /\ Doing("recovery", "remove")
    /\ dropin' = [dropin EXCEPT ![Unit] = IF @ = "torn" THEN @ ELSE "none"]
    /\ errors' = (errors \/ dropin[Unit] = "torn")
    /\ IF dropin[Unit] = "torn" THEN UNCHANGED script ELSE NextCommand
    /\ UNCHANGED <<runs, stopping, extra, manifest, loaded, wire, pinned, report, bounds, observed>>

\* Every override is looked for, and removed if its content is the expected one.
RemoveOverride ==
    /\ Doing("recovery", "remove")
    /\ dropin' = [dropin EXCEPT ![Unit] = IF @ = "torn" THEN @ ELSE "none"]
    /\ errors' = (errors \/ dropin[Unit] = "torn")
    /\ NextCommand
    /\ UNCHANGED <<runs, stopping, extra, manifest, loaded, wire, pinned, report, bounds, observed>>

\* Nothing is started after an error.
GoOn ==
    /\ Doing("recovery", "go on")
    /\ IF errors THEN todo' = Just("report") /\ UNCHANGED <<phase, kind>> ELSE NextCommand
    /\ UNCHANGED <<runs, stopping, files, loaded, wire, records, bounds, observed>>

\* clear_p300_after_gfa
Clear ==
    /\ Doing("recovery", "clear")
    /\ marker' = (IF marker = "P300" THEN "empty" ELSE marker)
    /\ NextCommand
    /\ UNCHANGED <<runs, stopping, files, loaded, window, records, bounds, observed>>

Report ==
    /\ Doing("recovery", "report")
    /\ report' = (IF errors THEN "FAIL" ELSE "PASS")
    /\ phase' = "none" /\ todo' = <<>>
    /\ UNCHANGED <<runs, stopping, files, loaded, wire, kind, pinned, errors, bounds, observed>>

\* A call of the recovery fails: a stop times out and goes on, anything after it ends
\* in the report, a unit just crashed or a read not answered in time included.
RecoveryFails ==
    /\ phase = "recovery" /\ todo # <<>> /\ Mishap
    /\ errors' = TRUE /\ upset' = TRUE
    /\ \/ /\ Op = "stop" /\ NextCommand
          /\ stopping' = stopping \cup {u \in {Unit} : runs[u] # "off"}
       \/ /\ Op \in {"reload", "start", "gfa", "check"}
          /\ todo' = Just("report")
          /\ UNCHANGED <<phase, kind, stopping>>
    /\ UNCHANGED <<runs, files, loaded, wire, pinned, report, sessions, killed>>

\* TimeoutStopSec ends the recovery.
RecoveryKilled ==
    /\ phase = "recovery" /\ Mishap
    /\ phase' = "none" /\ todo' = <<>>
    /\ killed' = TRUE
    /\ UNCHANGED <<runs, stopping, files, loaded, wire, kind, records, sessions, upset>>

-----------------------------------------------------------------------------
\* The services.
StopEnds(u) ==
    /\ u \in stopping
    /\ Stopped(u)
    /\ UNCHANGED <<files, loaded, marker, script, errors, report, bounds, observed>>

\* A process dies and systemd starts the unit again.
Crash(u) ==
    /\ runs[u] # "off" /\ u \notin stopping /\ Mishap
    /\ runs' = [runs EXCEPT ![u] = loaded[u]] /\ ProcessEnds(u)
    /\ UNCHANGED <<files, loaded, marker, script, errors, report, sessions, observed>>

\* The splitter's automatic mode: a window only with every producer attested.
OpenWindow ==
    /\ runs[Main] = "auto" /\ ~window /\ Attested
    /\ window' = TRUE /\ marker' = "P300"
    /\ UNCHANGED <<runs, stopping, files, loaded, script, records, bounds, observed>>

CloseWindow ==
    /\ window
    /\ window' = FALSE /\ marker' = "empty"
    /\ UNCHANGED <<runs, stopping, files, loaded, script, records, bounds, observed>>

\* The window fails, or a writer latches its own marker over an unverified write.
Latch ==
    /\ \/ window /\ window' = FALSE /\ UNCHANGED marker
       \/ ~window /\ marker = "empty" /\ (\E p \in Producers : runs[p] = "shadow") /\ marker' = "writer" /\ UNCHANGED window
    /\ Mishap
    /\ UNCHANGED <<runs, stopping, files, loaded, script, records, sessions, observed>>

\* The power is lost: the files stay, everything enabled starts from them, and the
\* transient unit is gone.
PowerLoss ==
    /\ Mishap
    /\ loaded' = [u \in Units |-> FromFiles(u)]
    /\ runs' = loaded'
    /\ stopping' = {} /\ window' = FALSE
    /\ phase' = "none" /\ todo' = <<>> /\ pinned' = FALSE
    /\ killed' = TRUE
    /\ UNCHANGED <<files, marker, kind, errors, report, sessions, upset>>

Worker   == Stop \/ Provision \/ Create \/ Fill \/ WriteExtra \/ Reload \/ Start \/ RestartMain \/ Look \/ Watch \/ Measure
Recovery == DropExtra \/ DropManifest \/ RemoveOverride \/ GoOn \/ Clear \/ Report
Services == \/ \E u \in Units : StopEnds(u) \/ Crash(u)
            \/ OpenWindow \/ CloseWindow \/ Latch \/ PowerLoss

SessionNext ==
    \/ \E k \in {"shadow", "auto"} : Launch(k)
    \/ Worker \/ WorkerDies \/ Recovery \/ RecoveryFails \/ RecoveryKilled \/ Services

SessionSpec == SessionInit /\ [][SessionNext]_sessionVars

\* A worker that does not go on is ended by RuntimeMaxSec; the recovery's calls end, by
\* their own limits at the latest; a window ends within its budget.
SessionFairSpec ==
    /\ SessionSpec
    /\ WF_sessionVars(WorkerDies)
    /\ WF_sessionVars((phase = "recovery") /\ (Worker \/ Recovery))
    /\ WF_sessionVars(CloseWindow)

-----------------------------------------------------------------------------
\* PASS_ORIGINAL_SERVICES_RESTORED is true, then and later: the original services run,
\* none of the overrides is there any more, and no P300 marker is left (recover).
PassIsTrue ==
    phase = "none" /\ report = "PASS" =>
        /\ \A u \in Units : runs[u] = "original" /\ dropin[u] = "none"
        /\ extra = "none" /\ marker # "P300"

\* However the worker ended, a recovery whose own calls succeed restores the original
\* services, unless the worker was ended between creating a file and filling it
\* (worker, recover).
EndsRestored ==
    phase = "none" /\ sessions > 0 /\ ~killed /\ ~upset
    /\ extra # "torn" /\ manifest # "torn" /\ (\A u \in Units : dropin[u] # "torn")
    => report = "PASS" /\ manifest = "none"

\* So the report is right both ways (recover).
RecoveryIsRight == PassIsTrue /\ EndsRestored

\* The recovery brings up no service but an original one (recover: the overrides are
\* removed, and reloaded, before anything is started).
RecoveryStartsOriginals ==
    [][phase = "recovery" /\ mishaps' = mishaps =>
        \A u \in Units : runs'[u] \in {runs[u], "off", "original"}]_sessionVars

\* While the controller speaks P300, every writer that runs takes the lease: the
\* window's attestation stays true to its end (verify_enrollment, recover).
WindowOnlyWrapped == window => \A p \in Producers : runs[p] # "original"

\* The splitter switches by itself only under its supervision: the transient unit
\* lives, or was cut off by the power or the recovery's limit, or the splitter is being
\* stopped (launch, recover).
AutoIsSupervised == runs[Main] = "auto" => phase # "none" \/ killed \/ Main \in stopping

\* What runs while a session is on: the splitter switches only among wrapped producers
\* and only with somebody to stop it (verify_enrollment, launch, recover).
CanaryInv == SessionTypeOK /\ WindowOnlyWrapped /\ AutoIsSupervised

\* A session starts on a clean system, without looking for the activating override
\* (preflight).
LaunchFindsClean ==
    [][sessions' # sessions => extra = "none" /\ (\A u \in Units : runs[u] = "original")]_sessionVars

\* The sessions of a canary: each starts clean, is recovered without starting anything
\* but originals, and ends (launch, recover).
SessionsAreWhole == LaunchFindsClean /\ RecoveryStartsOriginals /\ []<>(phase = "none")
=============================================================================
