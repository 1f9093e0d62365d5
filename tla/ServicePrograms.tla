--------------------------- MODULE ServicePrograms ---------------------------
(***************************************************************************)
(* ServiceProgramManager (tools/optolink-service-programs.py): two switches  *)
(* of Home Assistant, venting and filling, over the one mode byte 0x572F of  *)
(* the controller.  A command reads the byte, writes it, and believes only a *)
(* readback; without one it writes the old mode back.  Between commands the  *)
(* byte is polled, because the controller ends a program by itself.          *)
(*                                                                          *)
(* The splitter in between is SplitterLink.  The log, the texts of the       *)
(* status topic and the address filter (one datapoint) are left out.         *)
(***************************************************************************)
EXTENDS SplitterLink

CONSTANTS
    QueueSize,   \* ACTION_QUEUE_SIZE
    MaxCommands, \* bound: switch commands of a behaviour
    MaxMoves     \* bound: changes of the mode by the controller or at its panel

Off == 0
Kinds == {"venting", "filling"}
ModeOf(kind) == IF kind = "venting" THEN 1 ELSE 2
Unknown == 3

\* len(READBACK_DELAYS)
Readbacks == 3

Register == "0x572F"

ASSUME ServiceAssumption ==
    /\ Register \in Datapoints
    /\ {Off, ModeOf("venting"), ModeOf("filling")} \subseteq Values /\ Unknown \notin Values
    /\ QueueSize \in Nat /\ MaxCommands \in Nat /\ MaxMoves \in Nat

VARIABLES
    pc,       \* the service's thread
    actions,  \* the queue of commands
    job,      \* the command in hand; NoJob while polling
    mode,     \* what publish_state is publishing
    target, old, \* write_mode's arguments
    tries,    \* readbacks of the current write
    lastMode, \* last_mode, Unknown for None
    switches, \* the retained state topics: the switches shown as ON
    commands, moves, \* counters of the bounds
    \* Observations the code does not make:
    moved,    \* somebody else changed the mode during this command
    late,     \* this command has taken an older request's answer for its own
    restored, \* the restore of this command was read back
    cut       \* a publication has failed half-way

work  == <<job, mode, target, old, tries>>
seen  == <<moved, late, restored, cut>>
count == <<commands, moves>>
vars  == <<linkVars, pc, actions, work, lastMode, switches, count, seen>>

Commands == [kind : Kinds, on : BOOLEAN]
NoJob    == [kind |-> "none", on |-> FALSE]
Mode     == ctl[Register]

\* Where the thread waits for an answer on mqtt_respond.
Waiting == {"current", "write", "readback", "restore", "verify", "poll"}

TypeOK ==
    /\ LinkTypeOK
    /\ pc \in Waiting \cup {"loop", "transition", "settle", "rollback", "resettle", "venting", "filling",
                          "status", "error", "after", "down"}
    /\ actions \in Seq(Commands) /\ Len(actions) <= QueueSize
    /\ job \in Commands \cup {NoJob}
    /\ {mode, target, old} \subseteq Values
    /\ tries \in 0 .. Readbacks - 1
    /\ lastMode \in Values \cup {Unknown}
    /\ switches \subseteq Kinds
    /\ commands \in 0 .. MaxCommands /\ moves \in 0 .. MaxMoves
    /\ {moved, late, restored, cut} \subseteq BOOLEAN

Init ==
    /\ LinkInit
    /\ pc = "loop" /\ actions = <<>> /\ job = NoJob
    /\ mode = Off /\ target = Off /\ old = Off /\ tries = 0
    /\ lastMode = Unknown
    /\ switches \in {{}, {"venting"}, {"filling"}}
    /\ commands = 0 /\ moves = 0
    /\ moved = FALSE /\ late = FALSE /\ restored = FALSE /\ cut = FALSE

-----------------------------------------------------------------------------
\* on_message: put_nowait, dropped when the queue is full.
Command(c) ==
    /\ pc # "down" /\ commands < MaxCommands
    /\ commands' = commands + 1
    /\ actions' = IF Len(actions) < QueueSize THEN Append(actions, c) ELSE actions
    /\ UNCHANGED <<linkVars, pc, work, lastMode, switches, moves, seen>>

\* The program ends after its 20 minutes, or somebody codes 2F at the panel.
Move(m) ==
    /\ moves < MaxMoves /\ m # Mode
    /\ moves' = moves + 1
    /\ ctl' = [ctl EXCEPT ![Register] = m]
    /\ moved' = TRUE
    /\ UNCHANGED <<link, faults, pc, actions, work, lastMode, switches, commands, late, restored, cut>>

-----------------------------------------------------------------------------
\* Requests.  start_seq is taken when a request is sent: answers that come in
\* while the thread waits for nothing are never looked at again.
Send(from, to, r) ==
    /\ pc = from /\ pc' = to
    /\ link' = Append(link, r)
    /\ UNCHANGED <<ctl, faults, lastMode, switches, count, cut>>

\* The loop takes a command and reads the register.
Take ==
    /\ actions # <<>>
    /\ Send("loop", "current", ReadOf(Register))
    /\ job' = Head(actions) /\ actions' = Tail(actions)
    /\ moved' = FALSE /\ late' = FALSE /\ restored' = FALSE
    /\ UNCHANGED <<mode, target, old, tries>>

\* No command within the queue's timeout and the poll due, or a command finished.
Poll ==
    /\ \/ actions = <<>> /\ Send("loop", "poll", ReadOf(Register))
       \/ Send("after", "poll", ReadOf(Register))
    /\ job' = NoJob
    /\ UNCHANGED <<actions, mode, target, old, tries, moved, late, restored>>

SendMore ==
    /\ \/ Send("transition", "write", WriteOf(Register, target))
       \/ Send("settle", "readback", ReadOf(Register))
       \/ Send("rollback", "restore", WriteOf(Register, old))
       \/ Send("resettle", "verify", ReadOf(Register))
    /\ UNCHANGED <<actions, work, moved, late, restored>>

ToPublish(m) == pc' = "venting" /\ mode' = m

\* Mutant: an OFF is carried out whatever program runs.
CurrentReadOffAlways(reply) ==
    LET goal == IF job.on THEN ModeOf(job.kind) ELSE Off IN
    /\ IF ~reply.ok THEN pc' = "error" /\ UNCHANGED <<mode, target, old>>
       ELSE IF reply.val = goal
       THEN ToPublish(reply.val) /\ UNCHANGED <<target, old>>
       ELSE pc' = "transition" /\ target' = goal /\ old' = reply.val /\ UNCHANGED mode
    /\ tries' = 0
    /\ UNCHANGED restored

\* apply_action: an OFF of a program that does not run, and a mode that is already
\* there, are only published.
CurrentRead(reply) ==
    LET goal == IF job.on THEN ModeOf(job.kind) ELSE Off
        noop == reply.val = goal \/ (~job.on /\ reply.val # ModeOf(job.kind))
    IN  /\ IF ~reply.ok THEN pc' = "error" /\ UNCHANGED <<mode, target, old>>
           ELSE IF noop
           THEN ToPublish(reply.val) /\ UNCHANGED <<target, old>>
           ELSE pc' = "transition" /\ target' = goal /\ old' = reply.val /\ UNCHANGED mode
        /\ tries' = 0
        /\ UNCHANGED restored

\* Mutant: an acknowledged write needs no readback.
WrittenTrusting(reply) ==
    /\ IF reply.ok THEN ToPublish(target) ELSE pc' = "settle" /\ UNCHANGED mode
    /\ UNCHANGED <<target, old, tries, restored>>

\* write_mode: whatever the transport says, the readback decides.
Written(reply) == pc' = "settle" /\ UNCHANGED <<mode, target, old, tries, restored>>

\* Success, another of the readbacks, or back to the old mode.
ReadBack(reply) ==
    /\ IF reply.ok /\ reply.val = target
       THEN ToPublish(target) /\ UNCHANGED tries
       ELSE /\ IF tries < Readbacks - 1
               THEN pc' = "settle" /\ tries' = tries + 1
               ELSE pc' = "rollback" /\ UNCHANGED tries
            /\ UNCHANGED mode
    /\ UNCHANGED <<target, old, restored>>

RolledBack(reply) == pc' = "resettle" /\ UNCHANGED <<mode, target, old, tries, restored>>

Verified(reply) ==
    /\ pc' = "error"
    /\ restored' = (reply.ok /\ reply.val = old)
    /\ UNCHANGED <<mode, target, old, tries>>

\* Only a changed mode is published.
Polled(reply) ==
    /\ IF ~reply.ok THEN pc' = "error" /\ UNCHANGED mode
       ELSE IF reply.val = lastMode THEN pc' = "loop" /\ UNCHANGED mode
       ELSE ToPublish(reply.val)
    /\ UNCHANGED <<target, old, tries, restored>>

\* What the thread does with the answer it waits for; a failure for a timeout.
Hear(reply) ==
    /\ \/ pc = "current"  /\ CurrentRead(reply)
       \/ pc = "write"    /\ Written(reply)
       \/ pc = "readback" /\ ReadBack(reply)
       \/ pc = "restore"  /\ RolledBack(reply)
       \/ pc = "verify"   /\ Verified(reply)
       \/ pc = "poll"     /\ Polled(reply)
    /\ UNCHANGED job

Answer ==
    \E b \in BOOLEAN, v \in Values :
        LET reply == Reply(Register, b, v) IN
        /\ Serve(reply)
        /\ IF pc \in Waiting
           THEN Hear(reply) /\ late' = (late \/ link' # <<>>)
           ELSE UNCHANGED <<pc, work, restored, late>>
        /\ UNCHANGED <<actions, lastMode, switches, count, moved, cut>>

\* Five seconds without an answer.  request raises: only write_mode's write and
\* readbacks go on after that.
TimeOut ==
    /\ pc \in Waiting
    /\ GiveUp
    /\ IF pc = "restore"
       THEN pc' = "error" /\ UNCHANGED <<work, restored>>
       ELSE Hear(Failure(ReadOf(Register)))
    /\ UNCHANGED <<link, ctl, actions, lastMode, switches, count, moved, late, cut>>

Lost == Lose /\ UNCHANGED <<pc, actions, work, lastMode, switches, count, seen>>

-----------------------------------------------------------------------------
Show(kind) == switches' = IF mode = ModeOf(kind) THEN switches \cup {kind} ELSE switches \ {kind}

Finished == pc' = IF job = NoJob THEN "loop" ELSE "after"

\* publish_state: one switch, the other, the status; then last_mode.
PublishState ==
    /\ \/ pc = "venting" /\ pc' = "filling" /\ Show("venting") /\ UNCHANGED lastMode
       \/ pc = "filling" /\ pc' = "status" /\ Show("filling") /\ UNCHANGED lastMode
       \/ pc = "status" /\ Finished /\ lastMode' = mode /\ UNCHANGED switches
    /\ UNCHANGED <<linkVars, actions, work, count, seen>>

\* wait_for_publish raises without a connection to the broker.
PublishFails ==
    /\ pc \in {"venting", "filling", "status"}
    /\ Fault
    /\ pc' = "error"
    /\ cut' = TRUE
    /\ UNCHANGED <<link, ctl, actions, work, lastMode, switches, count, moved, late, restored>>

\* publish_error; when it raises too, the service ends.
PublishError ==
    /\ pc = "error"
    /\ \/ Finished /\ UNCHANGED <<faults, actions>>
       \/ Fault /\ pc' = "down" /\ actions' = <<>>
    /\ UNCHANGED <<link, ctl, work, lastMode, switches, count, seen>>

Kill ==
    /\ pc # "down" /\ Fault
    /\ pc' = "down" /\ actions' = <<>>
    /\ UNCHANGED <<link, ctl, work, lastMode, switches, count, seen>>

\* Mutant: the service comes up believing that no program runs.
RestartOff ==
    /\ pc = "down" /\ pc' = "loop"
    /\ lastMode' = Off /\ job' = NoJob
    /\ UNCHANGED <<linkVars, actions, mode, target, old, tries, switches, count, seen>>

\* systemd starts the service again: nothing of it is kept but the retained topics.
Restart ==
    /\ pc = "down" /\ pc' = "loop"
    /\ lastMode' = Unknown /\ job' = NoJob
    /\ UNCHANGED <<linkVars, actions, mode, target, old, tries, switches, count, seen>>

Service ==
    \/ Take \/ Poll \/ SendMore \/ Answer \/ TimeOut
    \/ PublishState \/ PublishError \/ Restart

Next ==
    \/ Service
    \/ \E c \in Commands : Command(c)
    \/ \E m \in Values : Move(m)
    \/ Lost \/ PublishFails \/ Kill

Spec == Init /\ [][Next]_vars

\* The thread runs, the splitter works off its requests, a wait ends after its five
\* seconds, and systemd restarts the service.
FairSpec == Spec /\ WF_vars(Service)

-----------------------------------------------------------------------------
\* One register backs both switches: an OFF never ends the other program
\* (apply_action), unless somebody else changed the mode during the command, or it
\* took an older request's answer for its own.
OffEndsOnlyItsOwn ==
    [][(Mode # Off /\ Mode' = Off /\ pc = "write" /\ ~job.on /\ link' # link /\ ~moved /\ ~late)
        => Mode = ModeOf(job.kind)]_vars

\* What a command reports is true: a success has the mode on the controller, and a
\* restore that was read back has the old one there.
ReportIsTrue ==
    ~moved /\ ~late =>
        /\ (pc = "venting" /\ job # NoJob => Mode = mode)
        /\ (pc = "error" /\ restored => Mode = old)

\* Between two passes of the loop the retained switches show the last published
\* mode, so that a poll may skip a mode it already knows.
SwitchesShowLastMode ==
    pc = "loop" /\ lastMode # Unknown /\ ~cut =>
        switches = {k \in Kinds : ModeOf(k) = lastMode}

\* What the service says of the register is true: in its reports, and in its switches
\* between them (apply_action, publish_state).
ServiceInv == TypeOK /\ ReportIsTrue /\ SwitchesShowLastMode

\* When nothing more happens the switches settle on the controller's mode, through
\* restarts, timeouts and late answers.
SwitchesConverge ==
    <>[](cut \/ switches = {k \in Kinds : ModeOf(k) = Mode})

-----------------------------------------------------------------------------
\* "wertet den Readback als massgeblich, nicht nur den Transport-ACK"
\* (docs/service-programs.md): what ends write_mode's readbacks with a success is
\* the answer to a read.
ReadbackIsARead ==
    [][(pc = "readback" /\ pc' = "venting") => Head(link).op = "r"]_vars
=============================================================================
