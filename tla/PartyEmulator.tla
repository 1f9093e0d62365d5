---------------------------- MODULE PartyEmulator ----------------------------
(***************************************************************************)
(* The Party emulation (tools/optolink-party-emulator.py): synthetic Party   *)
(* puts the Party temperature into the normal setpoint and the mode on 4,    *)
(* keeps both there while it lasts, and restores what the user had.          *)
(*                                                                          *)
(* One main loop works on the controller through the splitter; between any   *)
(* two of its requests the user turns knobs at the boiler or in Home         *)
(* Assistant.  A request may time out, a verified write with or without      *)
(* effect; saving the state file may fail; the process may be killed and     *)
(* systemd starts it again.                                                  *)
(***************************************************************************)
EXTENDS Naturals, Sequences, FiniteSets

CONSTANTS
    Temps, Modes,
    Four,       \* mode 4, continuous normal operation
    MaxFaults,  \* bound: timeouts, failed saves and kills of a behaviour
    MaxChanges, \* bound: what the user changes in a behaviour
    MaxCommands \* bound: ON and OFF commands of a behaviour

ASSUME PartyAssumption ==
    /\ Four \in Modes
    /\ {MaxFaults, MaxChanges, MaxCommands} \subseteq Nat

VARIABLES
    pc,         \* the main loop
    todo,       \* the datapoints the operation still has to read
    got,        \* what it has read
    caller,     \* who called deactivate or restore_emulation
    errors,     \* deactivate and rollback_activation collect errors
    changed,    \* sync_emulated_controls has something to save
    mem,        \* self.state
    native,     \* self.native_party
    file,       \* state.json
    actions,    \* the queue of commands
    ctl,        \* the controller's datapoints
    expired,    \* the time limit of the emulation has passed
    faults, changes, commands,
    \* Observations the code does not make:
    synthetic,  \* the datapoints whose present value the emulation put there
    chosen,     \* the normal setpoints the user has chosen
    promised,   \* the restore target in memory, which a kill does not touch
    torn,       \* a sync wrote a Party temperature it did not record
    unsaved     \* a save has failed

local    == <<todo, got, caller, errors, changed>>
outside  == <<ctl, synthetic, chosen>>
bounds   == <<changes, commands>>
notes    == <<promised, torn>>
vars     == <<pc, local, mem, native, file, actions, outside, expired, faults, bounds, notes, unsaved>>

Off == [active |-> FALSE]
States ==
    {Off} \cup [active : {TRUE}, normal : Temps, mode : Modes, party : Temps]

Starting   == {"start", "up_read", "up_normal", "up_mode", "up_save"}
Activating == {"act_read", "act_save", "act_normal", "act_mode", "act_done",
               "rb_save", "rb_normal", "rb_mode", "rb_clear", "rb_error"}
Restoring  == {"off_native", "off_button", "off_save", "off_normal", "off_mode",
               "off_clear", "off_error"}
Syncing    == {"sync_read", "sync_normal", "sync_mode", "sync_save", "sync_error"}

Values(field) ==
    CASE field = "native" -> 0 .. 1 [] field = "mode" -> Modes [] OTHER -> Temps

TypeOK ==
    /\ pc \in {"down", "loop"} \cup Starting \cup Activating \cup Restoring \cup Syncing
    /\ todo \in Seq({"native", "mode", "normal", "party"})
    /\ \A field \in DOMAIN got : got[field] \in Values(field)
    /\ caller \in {"command", "button", "timeout", "startup"}
    /\ errors \in BOOLEAN /\ changed \in BOOLEAN
    /\ mem \in States /\ file \in States
    /\ pc \in Syncing => mem.active
    /\ native \in 0 .. 1
    /\ actions \in Seq({"on", "off"})
    /\ ctl \in [native : 0 .. 1, mode : Modes, normal : Temps, party : Temps]
    /\ expired \in BOOLEAN /\ torn \in BOOLEAN /\ unsaved \in BOOLEAN
    /\ faults \in 0 .. MaxFaults /\ changes \in 0 .. MaxChanges /\ commands \in 0 .. MaxCommands
    /\ synthetic \subseteq {"normal", "mode"}
    /\ chosen \subseteq Temps
    /\ promised \in States

Init ==
    /\ pc = "start"
    /\ todo = <<>> /\ caller = "command" /\ errors = FALSE /\ changed = FALSE
    /\ ctl \in [native : {0}, mode : Modes, normal : Temps, party : Temps]
    /\ got = <<>>
    /\ mem = Off /\ file = Off /\ native = 0
    /\ actions = <<>>
    /\ expired = FALSE
    /\ faults = 0 /\ changes = 0 /\ commands = 0
    /\ synthetic = {} /\ chosen = {ctl.normal} /\ promised = Off
    /\ torn = FALSE /\ unsaved = FALSE

-----------------------------------------------------------------------------
\* What a step of the main loop is made of

Fault == faults < MaxFaults /\ faults' = faults + 1

\* When an operation ends, its local variables are gone.
Ends ==
    /\ todo' = <<>> /\ got' = <<>>
    /\ caller' = "command" /\ errors' = FALSE /\ changed' = FALSE

Goes == IF pc' \in {"loop", "down"} THEN Ends ELSE UNCHANGED local

\* read_int of the next datapoint; what is done with a timeout is the operation's.
Reads(here, good, bad) ==
    /\ pc = here /\ todo # <<>>
    /\ \/ /\ got' = [field \in DOMAIN got \cup {Head(todo)} |->
                        IF field = Head(todo) THEN ctl[field] ELSE got[field]]
          /\ todo' = Tail(todo)
          /\ pc' = IF todo' = <<>> THEN good ELSE here
          /\ UNCHANGED <<caller, errors, changed, faults>>
       \/ Fault /\ pc' = bad /\ Ends
    /\ UNCHANGED <<mem, native, file, actions, outside, expired, bounds, notes, unsaved>>

\* The write has an effect on the controller; who is the author of the value now?
Puts(field, value, author) ==
    /\ ctl' = [ctl EXCEPT ![field] = value]
    /\ synthetic' = IF author = "emulation" THEN synthetic \cup {field} ELSE synthetic \ {field}
    /\ UNCHANGED chosen

\* verified_write, or its timeout or failed verification.  mem is the caller's.
Writes(here, field, value, author, good, bad) ==
    /\ pc = here
    /\ \/ Puts(field, value, author) /\ pc' = good /\ UNCHANGED <<local, faults>>
       \/ /\ Fault /\ pc' = bad
          /\ Puts(field, value, author) \/ UNCHANGED outside
          /\ IF bad = "down" THEN Ends
             ELSE /\ errors' = (errors \/ here \in {"rb_normal", "rb_mode"})
                  /\ UNCHANGED <<todo, got, caller, changed>>
    /\ UNCHANGED <<native, file, actions, expired, bounds, unsaved>>

\* save_state: os.replace installs the whole file or nothing.
Saves(here, state, good, bad) ==
    /\ pc = here
    /\ \/ file' = state /\ pc' = good /\ UNCHANGED <<faults, unsaved>>
       \/ Fault /\ pc' = bad /\ unsaved' = TRUE /\ UNCHANGED file
    /\ Goes
    /\ UNCHANGED <<native, actions, outside, expired, bounds, notes>>

\* Where an exception ends: run() catches it, or the process ends.
Raised == IF caller \in {"timeout", "startup"} THEN "down" ELSE "loop"

-----------------------------------------------------------------------------
\* recover_startup

Recover ==
    /\ pc = "start"
    /\ IF ~mem.active
       THEN pc' = "loop" /\ UNCHANGED <<todo, caller>>
       ELSE IF expired
       THEN pc' = "off_save" /\ caller' = "startup" /\ UNCHANGED todo
       ELSE pc' = "up_read" /\ todo' = <<"party", "normal", "mode">> /\ UNCHANGED caller
    /\ UNCHANGED <<got, errors, changed, mem, native, file, actions, outside, expired, faults, bounds, notes, unsaved>>

\* Only what differs is written again.
UpNormal ==
    /\ pc = "up_normal"
    /\ IF got.normal # got.party
       THEN Writes("up_normal", "normal", got.party, "emulation", "up_mode", "down")
       ELSE /\ pc' = "up_mode"
            /\ UNCHANGED <<local, native, file, actions, outside, expired, faults, bounds, unsaved>>
    /\ UNCHANGED <<mem, notes>>

UpMode ==
    /\ pc = "up_mode"
    /\ IF got.mode # Four
       THEN Writes("up_mode", "mode", Four, "emulation", "up_save", "down")
       ELSE /\ pc' = "up_save"
            /\ UNCHANGED <<local, native, file, actions, outside, expired, faults, bounds, unsaved>>
    /\ UNCHANGED <<mem, notes>>

UpSave ==
    /\ pc = "up_save"
    /\ mem' = [mem EXCEPT !.party = got.party]
    /\ Saves("up_save", mem', "loop", "down")

Startup ==
    \/ Recover \/ Reads("up_read", "up_normal", "down")
    \/ UpNormal \/ UpMode \/ UpSave

-----------------------------------------------------------------------------
\* activate and rollback_activation

TakeOn ==
    /\ pc = "loop" /\ actions # <<>> /\ Head(actions) = "on"
    /\ actions' = Tail(actions)
    /\ IF mem.active
       THEN UNCHANGED <<pc, todo, errors>>
       ELSE /\ pc' = "act_read"
            /\ todo' = <<"native", "mode", "normal", "party">>
            /\ errors' = FALSE
    /\ UNCHANGED <<got, caller, changed, mem, native, file, outside, expired, faults, bounds, notes, unsaved>>

\* Everything is read before anything is remembered, and remembered before written.
Remember ==
    /\ pc = "act_save" /\ got.native = 0
    /\ mem' = [active |-> TRUE, normal |-> got.normal, mode |-> got.mode, party |-> got.party]
    /\ promised' = mem'
    /\ expired' = FALSE
    /\ native' = 0
    /\ \/ file' = mem' /\ pc' = "act_normal" /\ UNCHANGED <<faults, unsaved>>
       \/ Fault /\ pc' = "loop" /\ unsaved' = TRUE /\ UNCHANGED file
    /\ Goes
    /\ UNCHANGED <<actions, outside, bounds, torn>>

\* Native Party is on already: nothing to emulate.
NativeIsOn ==
    /\ pc = "act_save" /\ got.native = 1
    /\ pc' = "loop"
    /\ native' = 1
    /\ Ends
    /\ UNCHANGED <<mem, file, actions, outside, expired, faults, bounds, notes, unsaved>>

ActNormal ==
    /\ pc = "act_normal"
    /\ IF mem.normal # mem.party
       THEN Writes("act_normal", "normal", mem.party, "emulation", "act_mode", "rb_save")
       ELSE /\ pc' = "act_mode"
            /\ UNCHANGED <<local, native, file, actions, outside, expired, faults, bounds, unsaved>>
    /\ UNCHANGED <<mem, notes>>

ActMode == Writes("act_mode", "mode", Four, "emulation", "act_done", "rb_save") /\ UNCHANGED <<mem, notes>>
ActDone == Saves("act_done", mem, "loop", "rb_save") /\ UNCHANGED mem

\* The error is recorded first; if that cannot be saved, nothing is rolled back.
RollbackSave ==
    /\ Saves("rb_save", mem, "rb_normal", "loop")
    /\ UNCHANGED mem

RollbackNormal ==
    /\ Writes("rb_normal", "normal", mem.normal, "user", "rb_mode", "rb_mode")
    /\ UNCHANGED <<mem, notes>>

\* Mutant: the rollback forgets the state although a write of it failed.
RollbackModeForgets ==
    /\ Writes("rb_mode", "mode", mem.mode, "user", "rb_clear", "rb_clear")
    /\ UNCHANGED <<mem, notes>>

RollbackMode ==
    /\ Writes("rb_mode", "mode", mem.mode, "user",
              IF errors THEN "rb_error" ELSE "rb_clear", "rb_error")
    /\ UNCHANGED <<mem, notes>>

RollbackClear ==
    /\ mem' = Off
    /\ Saves("rb_clear", Off, "loop", "rb_error")

RollbackError ==
    /\ Saves("rb_error", mem, "loop", "loop")
    /\ UNCHANGED mem

Activate ==
    \/ TakeOn \/ Reads("act_read", "act_save", "loop") \/ Remember \/ NativeIsOn
    \/ ActNormal \/ ActMode \/ ActDone
    \/ RollbackSave \/ RollbackNormal \/ RollbackMode \/ RollbackClear \/ RollbackError

-----------------------------------------------------------------------------
\* deactivate and restore_emulation

\* Where deactivate is called: on a command, when the limit has passed, and when
\* the native poll finds the button pressed.
Deactivate(by) ==
    /\ pc' = "off_native"
    /\ caller' = by
    /\ errors' = FALSE
    /\ UNCHANGED <<todo, got, changed, mem, file, outside, expired, faults, bounds, notes, unsaved>>

TakeOff ==
    /\ pc = "loop" /\ actions # <<>> /\ Head(actions) = "off"
    /\ actions' = Tail(actions)
    /\ Deactivate("command") /\ UNCHANGED native

LimitReached == mem.active /\ expired

\* Mutant: the limit is only looked at when the process starts.
CheckTimeoutNever == FALSE

CheckTimeout ==
    /\ pc = "loop" /\ LimitReached
    /\ Deactivate("timeout") /\ UNCHANGED <<native, actions>>

\* A press of the button during the emulation is an OFF.
NativePoll ==
    /\ pc = "loop" /\ ~LimitReached
    /\ \/ /\ mem.active /\ ctl.native = 1
          /\ native' = 1
          /\ Deactivate("button") /\ UNCHANGED actions
       \/ /\ ~(mem.active /\ ctl.native = 1) /\ native' = ctl.native /\ UNCHANGED faults
          /\ UNCHANGED <<pc, local, mem, file, actions, outside, expired, bounds, notes, unsaved>>
       \/ /\ Fault /\ UNCHANGED native
          /\ UNCHANGED <<pc, local, mem, file, actions, outside, expired, bounds, notes, unsaved>>

Ended(failed)  == IF failed THEN Raised ELSE "loop"
AfterNative(failed) == IF mem.active THEN "off_save" ELSE Ended(failed)
RestoreFails   == IF caller = "startup" THEN "down" ELSE "off_error"

Collects(failed) == errors' = (failed \/ errors) /\ UNCHANGED <<todo, got, caller, changed>>

OffNative ==
    /\ pc = "off_native"
    /\ \E failed \in BOOLEAN :
        /\ IF failed THEN Fault /\ UNCHANGED native ELSE native' = ctl.native /\ UNCHANGED faults
        /\ pc' = IF native' = 1 THEN "off_button" ELSE AfterNative(failed)
        /\ IF pc' \in {"loop", "down"} THEN Ends ELSE Collects(failed)
    /\ UNCHANGED <<mem, file, actions, outside, expired, bounds, notes, unsaved>>

\* The button is released; an error of it does not keep the rest from being restored.
OffButton ==
    /\ pc = "off_button"
    /\ \E failed \in BOOLEAN :
        /\ IF failed
           THEN Fault /\ ctl' \in {ctl, [ctl EXCEPT !.native = 0]} /\ UNCHANGED native
           ELSE ctl' = [ctl EXCEPT !.native = 0] /\ native' = 0 /\ UNCHANGED faults
        /\ pc' = AfterNative(failed \/ errors)
        /\ IF pc' \in {"loop", "down"} THEN Ends ELSE Collects(failed)
    /\ UNCHANGED <<mem, file, actions, synthetic, chosen, expired, bounds, notes, unsaved>>

OffSave   == Saves("off_save", mem, "off_normal", RestoreFails) /\ UNCHANGED mem
OffNormal ==
    /\ Writes("off_normal", "normal", mem.normal, "user", "off_mode", RestoreFails)
    /\ UNCHANGED <<mem, notes>>
OffMode ==
    /\ Writes("off_mode", "mode", mem.mode, "user", "off_clear", RestoreFails)
    /\ UNCHANGED <<mem, notes>>
OffClear ==
    /\ mem' = Off
    /\ Saves("off_clear", Off, Ended(errors), RestoreFails)
OffError  == Saves("off_error", mem, Raised, Raised) /\ UNCHANGED mem

Restore ==
    \/ TakeOff \/ CheckTimeout \/ NativePoll
    \/ OffNative \/ OffButton \/ OffSave \/ OffNormal \/ OffMode \/ OffClear \/ OffError

-----------------------------------------------------------------------------
\* sync_emulated_controls

Sync ==
    /\ pc = "loop" /\ mem.active /\ ~LimitReached
    /\ pc' = "sync_read"
    /\ todo' = <<"party", "normal", "mode">>
    /\ changed' = FALSE
    /\ UNCHANGED <<got, caller, errors, mem, native, file, actions, outside, expired, faults, bounds,
                   notes, unsaved>>

\* Mutant: the old Party temperature is taken for the user's.
UserChangedNormalAlways == got.normal # got.party

\* Neither the Party temperature nor the one it had before.
UserChangedNormal == got.normal \notin {got.party, mem.party}

\* The Party temperature is put back; what the user chose is the new target.
SyncNormal ==
    LET target == IF UserChangedNormal THEN got.normal ELSE mem.normal IN
    /\ pc = "sync_normal"
    /\ \/ /\ pc' = "sync_mode"
          /\ IF got.normal # got.party THEN Puts("normal", got.party, "emulation") ELSE UNCHANGED outside
          /\ mem' = [mem EXCEPT !.normal = target, !.party = got.party]
          /\ UNCHANGED <<faults, torn>>
       \/ /\ got.normal # got.party
          /\ Fault /\ pc' = "sync_error"
          /\ \/ Puts("normal", got.party, "emulation") /\ torn' = TRUE
             \/ UNCHANGED <<outside, torn>>
          /\ mem' = [mem EXCEPT !.normal = target]
    /\ promised' = [promised EXCEPT !.normal = target]
    /\ changed' = (mem' # mem)
    /\ UNCHANGED <<todo, got, caller, errors, native, file, actions, expired, bounds, unsaved>>

\* A mode chosen during the emulation is the one to restore.
SyncMode ==
    /\ pc = "sync_mode"
    /\ IF got.mode = Four
       THEN /\ pc' = "sync_save"
            /\ UNCHANGED <<outside, mem, promised, changed, faults>>
       ELSE /\ mem' = [mem EXCEPT !.mode = got.mode]
            /\ promised' = [promised EXCEPT !.mode = got.mode]
            /\ changed' = TRUE
            /\ \/ Puts("mode", Four, "emulation") /\ pc' = "sync_save" /\ UNCHANGED faults
               \/ /\ Fault /\ pc' = "sync_error"
                  /\ Puts("mode", Four, "emulation") \/ UNCHANGED outside
    /\ UNCHANGED <<todo, got, caller, errors, native, file, actions, expired, bounds, torn, unsaved>>

SyncSave ==
    /\ Saves("sync_save", IF changed THEN mem ELSE file, "loop", "sync_error")
    /\ UNCHANGED mem

\* run() records the error; if that cannot be saved, the process ends.
SyncError == Saves("sync_error", mem, "loop", "down") /\ UNCHANGED mem

Synchronize ==
    \/ Sync \/ Reads("sync_read", "sync_normal", "sync_error")
    \/ SyncNormal \/ SyncMode \/ SyncSave \/ SyncError

-----------------------------------------------------------------------------
\* systemd, Home Assistant, the user and the clock

Kill ==
    /\ pc # "down"
    /\ Fault
    /\ pc' = "down"
    /\ Ends
    /\ UNCHANGED <<mem, native, file, actions, outside, expired, bounds, notes, unsaved>>

\* Restart=on-failure; __init__ loads the state file.
Restart ==
    /\ pc = "down"
    /\ pc' = "start"
    /\ mem' = file /\ native' = 0 /\ actions' = <<>>
    /\ UNCHANGED <<local, file, outside, expired, faults, bounds, notes, unsaved>>

\* on_message
Command(action) ==
    /\ pc # "down" /\ commands < MaxCommands
    /\ commands' = commands + 1
    /\ actions' = Append(actions, action)
    /\ UNCHANGED <<pc, local, mem, native, file, outside, expired, faults, changes, notes, unsaved>>

User(field, value) ==
    /\ changes < MaxChanges
    /\ changes' = changes + 1
    /\ ctl[field] # value
    /\ ctl' = [ctl EXCEPT ![field] = value]
    /\ synthetic' = synthetic \ {field}
    /\ chosen' = IF field = "normal" THEN chosen \cup {value} ELSE chosen
    /\ UNCHANGED <<pc, local, mem, native, file, actions, expired, faults, commands, notes, unsaved>>

Limit ==
    /\ mem.active \/ file.active
    /\ expired' = TRUE
    /\ UNCHANGED <<pc, local, mem, native, file, actions, outside, faults, bounds, notes, unsaved>>

Main == Startup \/ Activate \/ Restore \/ Synchronize \/ Restart

Environment ==
    \/ Kill \/ Limit
    \/ \E action \in {"on", "off"} : Command(action)
    \/ \E t \in Temps : User("normal", t) \/ User("party", t)
    \/ \E m \in Modes : User("mode", m)
    \/ \E bit \in 0 .. 1 : User("native", bit)

Next == Main \/ Environment

Spec == Init /\ [][Next]_vars

\* Requests time out, systemd restarts the service, and the loop polls the button.
FairSpec == Spec /\ WF_vars(Main) /\ SF_vars(NativePoll)

-----------------------------------------------------------------------------
\* Whatever the emulation has put on the controller is covered by the state file,
\* so that a restart can restore it; only a failed save can break this.
SyntheticIsRemembered == synthetic # {} => file.active \/ unsaved

\* What is on the controller and what a restart would restore fit together
\* (activate, rollback_activation, save_state).
PartyInv == TypeOK /\ SyntheticIsRemembered

\* What will be restored is a value the user once chose, never a Party temperature,
\* unless a sync could not record the Party temperature it wrote, or a save failed.
RestoreTargetIsUsers == mem.active /\ ~torn /\ ~unsaved => mem.normal \in chosen

\* When the limit has passed, everything synthetic is taken back, over any number
\* of failed attempts and restarts.
EmulationEnds == (expired /\ synthetic # {}) ~> (synthetic = {} \/ unsaved)

\* A press of the button ends the emulation or is taken back.
ButtonIsHeard == (ctl.native = 1 /\ mem.active) ~> (ctl.native = 0 \/ ~mem.active)

\* The ways out of an emulated Party lead out (check_timeout, run).
PartyEnds == EmulationEnds /\ ButtonIsHeard

-----------------------------------------------------------------------------
\* "State is persisted because a process/container restart must not lose the
\* controller values needed to leave synthetic Party mode safely": not even when
\* the save at the activation has failed.
RestartCanAlwaysLeave == synthetic # {} => file.active

\* The same sentence for what the user changes during the emulation: after a
\* restart the target is still the one noted before.
RestartKeepsTargets ==
    pc = "loop" /\ mem.active =>
        mem.normal = promised.normal /\ mem.mode = promised.mode

\* "Do not mistake the old Party value for a user normal-setpoint change when
\* 0x2308 itself has just changed."
PartyValueIsNoUserChange == mem.active => mem.normal \in chosen
=============================================================================
