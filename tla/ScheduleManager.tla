--------------------------- MODULE ScheduleManager ---------------------------
(***************************************************************************)
(* ScheduleManager (tools/optolink-schedule-manager.py): one thread that     *)
(* works off a queue of commands.  A schedule command writes the block of a  *)
(* day, believes only a readback of all its bytes, and writes the original    *)
(* block back on a mismatch.  The editor loads the block of a selected day    *)
(* into a draft, changes the draft, and applies it in the same way.           *)
(*                                                                          *)
(* A block is a value here; ScheduleBlocks has what is in one, and what the    *)
(* editor does to its slots.  0 is a text, a draft or an answer that is no     *)
(* block: a schedule that does not validate, an acknowledgement.  Log,         *)
(* discovery texts and the transient states "loading" and "applying" of the    *)
(* editor's status are left out.                                             *)
(***************************************************************************)
EXTENDS SplitterLink, ScheduleBlocks

CONSTANTS
    Present,    \* bound: the blocks the days have at first
    MaxCommands \* bound: commands of a behaviour

Blocks  == Values \ {0}
Empty   == 1       \* the block of a day without intervals
NoDay   == "none"
Readbacks == 3     \* len(READBACK_DELAYS)

ASSUME BlockAssumption ==
    /\ Empty \in Blocks /\ Present \subseteq Blocks /\ NoDay \notin Datapoints
    /\ MaxCommands \in Nat

VARIABLES
    pc,       \* the manager's thread
    actions,  \* the queue of commands
    job,      \* the command in hand; for the editor's apply, the day and block applied
    original, \* what the day held before
    tries,    \* readbacks of the current write
    selected, \* editor_target
    draft,    \* editor_slots
    editor,   \* the state in the editor's retained status
    commands, \* counter of the bound
    \* Observations the code does not make:
    moved,    \* somebody changed a block at the boiler since the command began
    outdated, \* the editor's draft may not be the block: the day was changed outside the
              \* editor since the load, or the load took an older request's answer for its own
    late      \* this command has taken an older request's answer for its own

work  == <<job, original, tries>>
form  == <<selected, draft, editor>>
seen  == <<moved, outdated, late>>
vars  == <<linkVars, pc, actions, work, form, commands, seen>>

Commands ==
    [kind : {"schedule"}, day : Datapoints, val : Values]
    \cup [kind : {"load"}, day : Datapoints \cup {NoDay}, val : {0}]
    \cup [kind : {"edit"}, day : {NoDay}, val : Values]
    \cup [kind : {"apply", "reload", "clear"}, day : {NoDay}, val : {0}]
Idle == [kind |-> "idle", day |-> NoDay, val |-> 0]

Waiting == {"original", "write", "readback", "restore", "verify", "load"}
Sending == {"target", "settle", "rollback", "resettle"}

TypeOK ==
    /\ LinkTypeOK
    /\ \A a \in Datapoints : ctl[a] \in Blocks
    /\ pc \in Waiting \cup Sending \cup {"loop", "ok", "restored", "failed", "down"}
    /\ actions \in Seq(Commands)
    /\ job.kind \in {"idle", "schedule", "apply", "load"} /\ job.day \in Datapoints \cup {NoDay}
    /\ {job.val, original, draft} \subseteq Values
    /\ tries \in 0 .. Readbacks - 1
    /\ selected \in Datapoints \cup {NoDay}
    /\ editor \in {"idle", "ready", "ok", "dirty", "error"}
    /\ commands \in 0 .. MaxCommands
    /\ {moved, outdated, late} \subseteq BOOLEAN

Init ==
    /\ LinkInit
    /\ \A a \in Datapoints : ctl[a] \in Present
    /\ pc = "loop" /\ actions = <<>>
    /\ job = Idle /\ original = 0 /\ tries = 0
    /\ \/ selected = NoDay /\ draft = Empty /\ editor = "idle"
       \/ selected \in Datapoints /\ draft = ctl[selected] /\ editor = "ready"
    /\ commands = 0
    /\ moved = FALSE /\ outdated = FALSE /\ late = FALSE

-----------------------------------------------------------------------------
\* on_message: an event is put into the queue whatever the thread is doing.
Command(c) ==
    /\ pc # "down" /\ commands < MaxCommands
    /\ commands' = commands + 1
    /\ actions' = Append(actions, c)
    /\ UNCHANGED <<linkVars, pc, work, form, seen>>

\* Somebody changes the day at the boiler: it counts as a fault.
Move(a, v) ==
    /\ v # ctl[a]
    /\ Fault
    /\ ctl' = [ctl EXCEPT ![a] = v]
    /\ moved' = (job # Idle) /\ outdated' = (outdated \/ a = selected)
    /\ UNCHANGED <<link, pc, actions, work, form, commands, late>>

-----------------------------------------------------------------------------
\* start_seq is taken when a request is sent: what is answered while the thread
\* waits for nothing is never looked at again.
Send(to, r) ==
    /\ pc' = to
    /\ link' = Append(link, r)
    /\ UNCHANGED <<ctl, faults>>

Taken(kinds) ==
    /\ pc = "loop" /\ actions # <<>> /\ Head(actions).kind \in kinds
    /\ actions' = Tail(actions)

\* apply: the schedule is validated before anything is read.
StartApply(kind, day, val) ==
    /\ Send("original", ReadOf(day))
    /\ job' = [kind |-> kind, day |-> day, val |-> val]
    /\ original' = 0 /\ tries' = 0

\* load_editor selects the day before it has read its block.
StartLoad(day) ==
    /\ Send("load", ReadOf(day))
    /\ job' = [kind |-> "load", day |-> day, val |-> 0]
    /\ selected' = day
    /\ UNCHANGED <<original, tries, draft, editor>>

Rejected == UNCHANGED <<linkVars, pc, work>>

TakeSchedule ==
    /\ Taken({"schedule"})
    /\ LET c == Head(actions) IN
        IF c.val \in Blocks
        THEN /\ StartApply("schedule", c.day, c.val)
             /\ late' = FALSE /\ moved' = FALSE /\ outdated' = (outdated \/ c.day = selected)
        ELSE Rejected /\ UNCHANGED <<late, moved, outdated>>
    /\ UNCHANGED <<form, commands>>

TakeLoad ==
    /\ Taken({"load", "reload"})
    /\ LET day == IF Head(actions).kind = "load" THEN Head(actions).day ELSE selected IN
        IF day # NoDay
        THEN StartLoad(day) /\ late' = FALSE /\ moved' = FALSE /\ outdated' = FALSE
        ELSE Rejected /\ editor' = "error" /\ UNCHANGED <<selected, draft, late, moved, outdated>>
    /\ UNCHANGED commands

\* set_editor_slot, set_editor_enabled and clear_editor: only the draft changes.  No
\* selected day, no such time and no free interval are errors.
TakeEdit ==
    /\ Taken({"edit", "clear"})
    /\ Rejected
    /\ \/ /\ selected # NoDay
          /\ draft' = IF Head(actions).kind = "clear" THEN Empty ELSE Head(actions).val
          /\ editor' = "dirty"
       \/ /\ selected = NoDay \/ Head(actions).kind = "edit"
          /\ editor' = "error" /\ UNCHANGED draft
    /\ UNCHANGED <<selected, commands, late, moved, outdated>>

TakeApply ==
    /\ Taken({"apply"})
    /\ IF selected # NoDay /\ draft \in Blocks
       THEN StartApply("apply", selected, draft) /\ late' = FALSE /\ moved' = FALSE /\ UNCHANGED editor
       ELSE Rejected /\ editor' = "error" /\ UNCHANGED <<late, moved>>
    /\ UNCHANGED <<selected, draft, commands, outdated>>

-----------------------------------------------------------------------------
\* The requests of apply.
SendMore ==
    /\ \/ pc = "target"   /\ Send("write", WriteOf(job.day, job.val))
       \/ pc = "settle"   /\ Send("readback", ReadOf(job.day))
       \/ pc = "rollback" /\ Send("restore", WriteOf(job.day, original))
       \/ pc = "resettle" /\ Send("verify", ReadOf(job.day))
    /\ UNCHANGED <<actions, work, form, commands, seen>>

\* Without a connection wait_for_publish raises: write_block catches no more than a
\* timeout, and the request has not left.
SendFails ==
    /\ pc \in Sending
    /\ Fault
    /\ pc' = "failed"
    /\ UNCHANGED <<link, ctl, actions, work, form, commands, seen>>

\* read_block: the answer is a success and a block.
Read(reply) == reply.ok /\ reply.val \in Blocks

Failed == pc' = "failed" /\ UNCHANGED <<original, tries>>

OriginalRead(reply) ==
    IF ~Read(reply) THEN Failed
    ELSE /\ original' = reply.val
         /\ pc' = IF reply.val = job.val THEN "ok" ELSE "target"
         /\ UNCHANGED tries

\* Mutant: an acknowledged write needs no readback.
WrittenTrusting(reply) ==
    /\ pc' = IF reply.ok THEN "ok" ELSE "settle"
    /\ UNCHANGED <<original, tries>>

\* write_block: whatever the transport says, the readback decides.
Written(reply) == pc' = "settle" /\ UNCHANGED <<original, tries>>

\* readback_target: up to three reads.  One that fails ends apply, with no restore,
\* even after others that did not match.
ReadBack(reply) ==
    IF ~Read(reply) THEN Failed
    ELSE /\ UNCHANGED original
         /\ IF reply.val = job.val THEN pc' = "ok" /\ UNCHANGED tries
            ELSE IF tries < Readbacks - 1 THEN pc' = "settle" /\ tries' = tries + 1
            ELSE pc' = "rollback" /\ tries' = 0

RolledBack(reply) == pc' = "resettle" /\ UNCHANGED <<original, tries>>

Verified(reply) ==
    IF ~Read(reply) THEN Failed
    ELSE /\ UNCHANGED original
         /\ IF reply.val = original THEN pc' = "restored" /\ UNCHANGED tries
            ELSE IF tries < Readbacks - 1 THEN pc' = "resettle" /\ tries' = tries + 1
            ELSE pc' = "failed" /\ UNCHANGED tries

\* The thread has done with the command.
Done ==
    /\ pc' = "loop" /\ job' = Idle /\ original' = 0 /\ tries' = 0
    /\ moved' = FALSE /\ late' = FALSE

\* Mutant: a failed load leaves the status as it was.
LoadedQuietly(reply) ==
    /\ IF Read(reply)
       THEN draft' = reply.val /\ editor' = IF job.kind = "apply" THEN "ok" ELSE "ready"
       ELSE UNCHANGED <<draft, editor>>
    /\ UNCHANGED selected

\* load_editor: the slots are replaced only when the block was read; the day stays
\* selected in any case.
Loaded(reply) ==
    /\ IF Read(reply)
       THEN draft' = reply.val /\ editor' = IF job.kind = "apply" THEN "ok" ELSE "ready"
       ELSE editor' = "error" /\ UNCHANGED draft
    /\ UNCHANGED selected

\* What the thread does with the answer it waits for; a failure for a timeout.
Hear(reply, overtaken) ==
    \/ /\ \/ pc = "original" /\ OriginalRead(reply)
          \/ pc = "write"    /\ Written(reply)
          \/ pc = "readback" /\ ReadBack(reply)
          \/ pc = "restore"  /\ RolledBack(reply)
          \/ pc = "verify"   /\ Verified(reply)
       /\ late' = (late \/ overtaken)
       /\ UNCHANGED <<job, form, moved, outdated>>
    \/ /\ pc = "load" /\ Loaded(reply) /\ Done
       /\ outdated' = (outdated \/ overtaken)

\* The controller answers the write of a block with 00, never with the block.
Answer ==
    \E a \in Datapoints, b \in BOOLEAN, v \in Values :
        LET reply == Reply(a, b, v) IN
        /\ Serve(reply) \/ Garble(reply, Blocks)
        /\ Head(link).op = "w" => v = 0
        /\ IF pc \in Waiting /\ a = job.day
           THEN Hear(reply, link' # <<>>)
           ELSE UNCHANGED <<pc, work, form, seen>>
        /\ UNCHANGED <<actions, commands>>

\* Mutant: a request waits for its answer without a limit.
TimeOutNever == pc = "none" /\ UNCHANGED vars

\* Five seconds without an answer: request raises TimeoutError, which only write_block
\* survives.
TimeOut ==
    /\ pc \in Waiting
    /\ GiveUp
    /\ Hear(Failure(ReadOf(job.day)), FALSE)
    /\ UNCHANGED <<link, ctl, actions, commands>>

Lost == Lose /\ UNCHANGED <<pc, actions, work, form, commands, seen>>

-----------------------------------------------------------------------------
\* A confirmed block is published; the editor's own is loaded again.
ReportOk ==
    /\ pc = "ok"
    /\ IF job.kind = "apply"
       THEN Send("load", ReadOf(job.day)) /\ moved' = FALSE /\ outdated' = FALSE /\ late' = FALSE
            /\ UNCHANGED work
       ELSE Done /\ UNCHANGED <<linkVars, outdated>>
    /\ UNCHANGED <<actions, form, commands>>

ReportError ==
    /\ pc \in {"restored", "failed"}
    /\ Done
    /\ editor' = IF job.kind = "apply" THEN "error" ELSE editor
    /\ UNCHANGED <<linkVars, actions, selected, draft, commands, outdated>>

Kill ==
    /\ pc # "down" /\ Fault
    /\ pc' = "down" /\ actions' = <<>>
    /\ UNCHANGED <<link, ctl, work, form, commands, seen>>

\* connect clears the retained commands before it subscribes: none is carried out
\* again.  The day and the draft are forgotten.
Restart ==
    /\ pc = "down" /\ Done
    /\ selected' = NoDay /\ draft' = Empty /\ editor' = "idle"
    /\ outdated' = FALSE
    /\ UNCHANGED <<linkVars, actions, commands>>

Service ==
    \/ TakeSchedule \/ TakeLoad \/ TakeEdit \/ TakeApply
    \/ SendMore \/ Answer \/ TimeOut \/ ReportOk \/ ReportError \/ Restart

Next ==
    \/ Service
    \/ \E c \in Commands : Command(c)
    \/ \E a \in Datapoints, v \in Blocks : Move(a, v)
    \/ SendFails \/ Lost \/ Kill

Spec == Init /\ [][Next]_vars

\* The thread runs, the splitter works off its requests, a wait ends after its five
\* seconds, and systemd restarts the service.
FairSpec == Spec /\ WF_vars(Service)

-----------------------------------------------------------------------------
\* What a command reports is true (apply): a success has the schedule on the
\* controller, a restore has the block of before, unless somebody changed the day at
\* the boiler meanwhile or an older request's answer was taken for the readback.
ReportIsTrue ==
    ~moved /\ ~late =>
        /\ (pc = "ok" => ctl[job.day] = job.val)
        /\ (pc = "restored" => ctl[job.day] = original)

\* So after every command its report tells what is on the controller (apply).
ApplyInv == TypeOK /\ ReportIsTrue

\* While the editor says that it shows the controller (load_editor, apply_editor), it
\* does: its draft is the block of the selected day, unless somebody else changed it
\* after the load.
EditorShowsController ==
    pc = "loop" /\ editor \in {"ready", "ok"} /\ ~outdated => draft = ctl[selected]

\* The editor shows what is there, and what it can enter can be written
\* (load_editor, apply_editor, set_editor_slot, encode_schedule).
EditorInv == EditorShowsController /\ EditorArithmetic

\* Whatever fails, the thread comes back for the next command and leaves none behind.
CommandsEnd == []<>(pc = "loop" /\ actions = <<>>)

-----------------------------------------------------------------------------
\* "If the target readback does not match, the manager writes the previously read
\* original block back and verifies that restore byte-for-byte before reporting the
\* error." (docs/wb2a-schedule-blocks.md): once a readback was a block other than the
\* one written, an error is not reported before the original has been written.
MismatchIsRestored ==
    [][(pc = "readback" /\ pc' = "failed") => tries = 0]_vars
=============================================================================
