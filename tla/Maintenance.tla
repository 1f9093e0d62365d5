----------------------------- MODULE Maintenance -----------------------------
(***************************************************************************)
(* The maintenance settings of the boiler: optolink_maintenance_core.py with *)
(* its two users, the service of tools/optolink-maintenance-api.py and the    *)
(* command line of tools/optolink-maintenance.py.  Every operation is one     *)
(* session under a file lock that is only tried, never waited for: a change   *)
(* of a setting (0x5721 or 0x5723) with readback and restore, the reset       *)
(* (0x5724 written 1, then 0), or a snapshot.                                *)
(*                                                                          *)
(* The service takes requests and staged values from a queue and remembers   *)
(* the results of the last requests by their id.                            *)
(*                                                                          *)
(* One setting stands for the two, which differ in their names, and its read  *)
(* for the seven of a snapshot.  JSON, ranges and the arithmetic of the       *)
(* burner references are left out.                                          *)
(***************************************************************************)
EXTENDS SplitterLink

CONSTANTS
    Ids,         \* request_id
    Jobs,        \* the operations that are asked for
    Staged,      \* the values the user stages
    CacheSize,   \* RESULT_CACHE_SIZE
    QueueSize,   \* QUEUE_SIZE
    MaxRequests, \* bound: requests and staged values of a behaviour
    MaxCalls     \* bound: calls of the command line

Setting   == "0x5721"
State     == "0x5724"
Reference == "0x7570"
Unset == 99   \* a value that is not there
Processes == {"api", "cli"}

\* A change is written without a confirmation only when the value is there already;
\* forced, it is written in any case (and confirmed).
JobSet ==
    [kind : {"status"}, val : {0}, mode : {"plain"}]
    \cup [kind : {"set"}, val : Values, mode : {"plain", "confirmed", "forced"}]
    \cup [kind : {"reset"}, val : {0}, mode : {"plain", "confirmed"}]
NoJob    == [kind |-> "none", val |-> 0, mode |-> "plain"]
Snapshot == [kind |-> "status", val |-> 0, mode |-> "plain"]

ASSUME MaintenanceAssumption ==
    /\ Datapoints = {Setting, State, Reference}
    /\ Jobs \subseteq JobSet /\ Staged \subseteq Values
    /\ 1 \in Values /\ Unset \notin Values
    /\ CacheSize \in Nat \ {0} /\ QueueSize \in Nat \ {0}
    /\ MaxRequests \in Nat /\ MaxCalls \in Nat

VARIABLES
    lock,    \* who holds .maintenance.lock
    step,    \* step[p]: where the operation of process p is; "closed" without one
    waits,   \* waits[p]: its request is out
    job,     \* job[p]
    old,     \* old[p]: the setting before the change
    aborted, \* aborted[p]: primary_error of the reset
    code,    \* code[p]: how the operation ended
    shot,    \* shot[p]: the setting in its last snapshot
    api,     \* the thread of the service
    id,      \* the request in hand
    actions, \* its queue
    recent,  \* recent_ids, oldest first
    results, \* recent_results
    staged, dirty, \* the value the user has staged, for one setting
    requests, calls, \* counters of the bounds
    \* Observations the code does not make:
    moved,   \* somebody changed a datapoint at the boiler during this session
    late,    \* this session has taken an older request's answer for its own
    left,    \* a session was killed, gave up over an unverified write, or had taken an
             \* older request's answer for its own
    wish,    \* the value the user staged, Unset once it was set or forgotten
    done     \* the ids finished last since the service started

session == <<step, waits, job, old, aborted, code, shot>>
cache   == <<recent, results>>
stage   == <<staged, dirty>>
count   == <<requests, calls>>
seen    == <<moved, late, left, wish, done>>
vars    == <<linkVars, lock, session, api, id, actions, cache, stage, count, seen>>

RequestOf(p) ==
    CASE step[p] \in {"current", "readback", "reread", "before", "after"} -> ReadOf(Setting)
      [] step[p] \in {"refBefore", "refAfter"}  -> ReadOf(Reference)
      [] step[p] = "write"                      -> WriteOf(Setting, job[p].val)
      [] step[p] = "unwrite"                    -> WriteOf(Setting, old[p])
      [] step[p] \in {"readOne", "readZero"}    -> ReadOf(State)
      [] step[p] = "one"                        -> WriteOf(State, 1)
      [] step[p] = "zero"                       -> WriteOf(State, 0)

Steps == {"current", "refBefore", "write", "readback", "unwrite", "reread", "refAfter",
          "before", "one", "readOne", "zero", "readZero", "after"}
Codes == {"ok", "busy", "refused", "failed", "restored", "unverified", "aborted", "unsafe"}
Items == [id : Ids, job : Jobs] \cup [stage : Staged]

TypeOK ==
    /\ LinkTypeOK
    /\ lock \in Processes \cup {"free"}
    /\ step \in [Processes -> Steps \cup {"closed", "end"}]
    /\ waits \in [Processes -> BOOLEAN]
    /\ job \in [Processes -> Jobs \cup {NoJob, Snapshot}]
    /\ aborted \in [Processes -> BOOLEAN]
    /\ code \in [Processes -> Codes]
    /\ \A p \in Processes : old[p] \in Values /\ shot[p] \in Values \cup {Unset}
    /\ api \in {"start", "initial", "loop", "request", "down"}
    /\ id \in Ids \cup {"none"}
    /\ Len(actions) <= QueueSize /\ \A i \in DOMAIN actions : actions[i] \in Items
    /\ recent \in Seq(Ids) /\ Len(recent) <= CacheSize
    /\ results \in [Ids -> Codes \cup {"none"}]
    /\ staged \in Values \cup {Unset} /\ dirty \in BOOLEAN
    /\ requests \in 0 .. MaxRequests /\ calls \in 0 .. MaxCalls

Init ==
    /\ LinkInit
    /\ ctl[Reference] = 0 /\ ctl[State] = 0
    /\ lock = "free"
    /\ step = [p \in Processes |-> "closed"] /\ waits = [p \in Processes |-> FALSE]
    /\ job = [p \in Processes |-> NoJob] /\ old = [p \in Processes |-> 0]
    /\ aborted = [p \in Processes |-> FALSE] /\ code = [p \in Processes |-> "ok"]
    /\ shot = [p \in Processes |-> Unset]
    /\ api = "start" /\ id = "none" /\ actions = <<>>
    /\ recent = <<>> /\ results = [i \in Ids |-> "none"]
    /\ staged = Unset /\ dirty = FALSE
    /\ requests = 0 /\ calls = 0
    /\ moved = FALSE /\ late = FALSE /\ left = FALSE /\ wish = Unset /\ done = <<>>

-----------------------------------------------------------------------------
\* Sessions.
FirstStep(j) ==
    CASE j.kind = "status" -> "after"
      [] j.kind = "set"    -> "current"
      [] j.kind = "reset"  -> "before"

Ends(p, c) == step' = [step EXCEPT ![p] = "end"] /\ code' = [code EXCEPT ![p] = c]
Goes(p, s) == step' = [step EXCEPT ![p] = s] /\ UNCHANGED code

\* _with_session: the lock is tried once, then the broker is called.  A reset without
\* a confirmation does not come that far.
Open(p, j) ==
    /\ job' = [job EXCEPT ![p] = j]
    /\ UNCHANGED <<waits, old, aborted, shot, moved, late>>
    /\ IF j.kind = "reset" /\ j.mode = "plain"
       THEN Ends(p, "refused") /\ UNCHANGED lock
       ELSE IF lock # "free"
       THEN Ends(p, "busy") /\ UNCHANGED lock
       ELSE lock' = p /\ Goes(p, FirstStep(j))

\* request forgets what came in before it sends.
Ask(p) ==
    /\ step[p] \in Steps /\ ~waits[p]
    /\ link' = Append(link, RequestOf(p))
    /\ waits' = [waits EXCEPT ![p] = TRUE]
    /\ UNCHANGED <<ctl, faults, lock, step, job, old, aborted, code, shot, api, id, actions, cache, stage, count, seen>>

Keeps(p) == UNCHANGED <<job, old, aborted, shot>>

\* The reads of a change, of the snapshot and of the reset's first look; a change is
\* refused without a confirmation, unless there is nothing to change.
ReadStep(p, value) ==
    \/ /\ step[p] = "current"
       /\ IF value = Unset THEN Ends(p, "failed") /\ Keeps(p)
          ELSE IF value = job[p].val /\ job[p].mode # "forced" THEN Goes(p, "after") /\ Keeps(p)
          ELSE IF job[p].mode = "plain" THEN Ends(p, "refused") /\ Keeps(p)
          ELSE /\ Goes(p, "refBefore")
               /\ old' = [old EXCEPT ![p] = value]
               /\ UNCHANGED <<job, aborted, shot>>
    \/ /\ step[p] \in {"refBefore", "refAfter", "before"}
       /\ IF value = Unset THEN Ends(p, "failed")
          ELSE Goes(p, CASE step[p] = "refBefore" -> "write" [] step[p] = "refAfter" -> "after" [] step[p] = "before" -> "one")
       /\ Keeps(p)
    \/ /\ step[p] = "after"
       /\ IF value = Unset THEN Ends(p, "failed") /\ Keeps(p)
          ELSE Ends(p, "ok") /\ shot' = [shot EXCEPT ![p] = value] /\ UNCHANGED <<job, old, aborted>>

\* Mutant: a readback that was not answered is not followed by a restore.
VerifyStepNoRestore(p, value) ==
    /\ \/ step[p] = "readback" /\ IF value = job[p].val THEN Goes(p, "refAfter") ELSE Ends(p, "restored")
       \/ step[p] = "reread"   /\ Ends(p, IF value = old[p] THEN "restored" ELSE "unverified")
    /\ Keeps(p)

\* write_verify_byte and _restore_byte: the readback decides, and whatever it is but
\* the value written is followed by a restore.
VerifyStep(p, value) ==
    /\ \/ step[p] = "readback" /\ Goes(p, IF value = job[p].val THEN "refAfter" ELSE "unwrite")
       \/ step[p] = "reread"   /\ Ends(p, IF value = old[p] THEN "restored" ELSE "unverified")
    /\ Keeps(p)

\* The acknowledgement of a write is not looked at.
WriteStep(p) ==
    /\ \/ step[p] = "write"   /\ Goes(p, "readback")
       \/ step[p] = "unwrite" /\ Goes(p, "reread")
       \/ step[p] = "zero"    /\ Goes(p, "readZero")
    /\ Keeps(p)

\* reset_maintenance: whatever goes wrong after 1 was sent, the finally writes 0 and
\* reads it back.
ResetStep(p, value, answered) ==
    \/ /\ step[p] = "one"
       /\ Goes(p, IF answered THEN "readOne" ELSE "zero")
       /\ aborted' = [aborted EXCEPT ![p] = ~answered]
       /\ UNCHANGED <<job, old, shot>>
    \/ /\ step[p] = "readOne"
       /\ Goes(p, "zero")
       /\ aborted' = [aborted EXCEPT ![p] = value # 1]
       /\ UNCHANGED <<job, old, shot>>
    \/ /\ step[p] = "readZero"
       /\ IF value # 0 THEN Ends(p, "unsafe")
          ELSE IF aborted[p] THEN Ends(p, "aborted")
          ELSE Goes(p, "after")
       /\ Keeps(p)

\* What the operation does with an answer: value is what a read says, Unset for an
\* answer that is no readable value and for none at all.
Hears(p, value, answered) ==
    /\ waits' = [waits EXCEPT ![p] = FALSE]
    /\ ReadStep(p, value) \/ VerifyStep(p, value) \/ WriteStep(p) \/ ResetStep(p, value, answered)

\* What read_raw makes of an answer: it refuses a failure and what is not as long as
\* the register.  Whether the late acknowledgement of a write is depends on its text.
Meanings(r, reply) ==
    IF ~reply.ok THEN {Unset} ELSE IF r.op = "r" THEN {reply.val} ELSE {reply.val, Unset}

\* An answer reaches the process that waits for its address.
Answer ==
    \E a \in Datapoints, b \in BOOLEAN, v \in Values :
        LET reply == Reply(a, b, v)
            ear   == {p \in Processes : waits[p] /\ RequestOf(p).addr = a}
        IN  /\ Serve(reply)
            /\ \/ ear = {} /\ UNCHANGED <<session, late>>
               \/ \E p \in ear, value \in Meanings(Head(link), reply) :
                     Hears(p, value, TRUE) /\ late' = (late \/ link' # <<>>)
            /\ UNCHANGED <<lock, api, id, actions, cache, stage, count, moved, left, wish, done>>

\* Four seconds without an answer; a broker that is gone ends a request as well.
TimeOut(p) ==
    /\ waits[p]
    /\ GiveUp
    /\ Hears(p, Unset, FALSE)
    /\ UNCHANGED <<link, ctl, lock, api, id, actions, cache, stage, count, seen>>

Lost == Lose /\ UNCHANGED <<lock, session, api, id, actions, cache, stage, count, seen>>

\* The lock goes with the end of the operation; a restore or a final 0 that was not
\* confirmed is an error of its own.
Close(p) ==
    /\ lock' = IF lock = p THEN "free" ELSE lock
    /\ step' = [step EXCEPT ![p] = "closed"]
    /\ job' = [job EXCEPT ![p] = NoJob] /\ old' = [old EXCEPT ![p] = 0]
    /\ code' = [code EXCEPT ![p] = "ok"] /\ shot' = [shot EXCEPT ![p] = Unset]
    /\ aborted' = [aborted EXCEPT ![p] = FALSE]
    /\ left' = (left \/ code[p] \in {"unverified", "unsafe"} \/ (late /\ lock = p))
    /\ moved' = (moved /\ lock # p) /\ late' = (late /\ lock # p)
    /\ UNCHANGED <<linkVars, waits, count>>

-----------------------------------------------------------------------------
\* on_message drops what does not fit into the queue, and everything retained.
Receive(item) ==
    /\ api # "down" /\ requests < MaxRequests
    /\ requests' = requests + 1
    /\ actions' = IF Len(actions) < QueueSize THEN Append(actions, item) ELSE actions
    /\ UNCHANGED <<linkVars, lock, session, api, id, cache, stage, calls, seen>>

\* publish_initial_state, before the loop.
Initial ==
    /\ api = "start" /\ api' = "initial"
    /\ Open("api", Snapshot)
    /\ UNCHANGED <<linkVars, id, actions, cache, stage, count, left, wish, done>>

\* Mutant: the snapshot of any request replaces the staged value.
SyncAlways(value, force) == staged' = value /\ dirty' = FALSE

\* sync_stage_from_status
Sync(value, force) ==
    IF force \/ ~dirty THEN staged' = value /\ dirty' = FALSE ELSE UNCHANGED stage

\* A snapshot that fails is left out, the loop starts all the same.
InitialDone ==
    /\ api = "initial" /\ step["api"] = "end"
    /\ api' = "loop"
    /\ Close("api")
    /\ IF code["api"] = "ok" THEN Sync(shot["api"], TRUE) ELSE UNCHANGED stage
    /\ UNCHANGED <<id, actions, cache, wish, done>>

\* handle_raw_request: a request whose id has a result is answered from the cache.
TakeRequest ==
    /\ api = "loop" /\ actions # <<>> /\ "job" \in DOMAIN Head(actions)
    /\ actions' = Tail(actions)
    /\ IF results[Head(actions).id] # "none"
       THEN UNCHANGED <<lock, session, api, id, moved, late>>
       ELSE api' = "request" /\ id' = Head(actions).id /\ Open("api", Head(actions).job)
    /\ UNCHANGED <<linkVars, cache, stage, count, left, wish, done>>

\* handle_stage: nothing is written.
TakeStage ==
    /\ api = "loop" /\ actions # <<>> /\ "stage" \in DOMAIN Head(actions)
    /\ actions' = Tail(actions)
    /\ staged' = Head(actions).stage /\ dirty' = TRUE
    /\ wish' = Head(actions).stage
    /\ UNCHANGED <<linkVars, lock, session, api, id, cache, count, moved, late, left, done>>

\* The last results, and their ids.
Latest(ids, i) ==
    LET longer == IF i \in {ids[k] : k \in DOMAIN ids} THEN ids ELSE Append(ids, i)
    IN  IF Len(longer) > CacheSize THEN Tail(longer) ELSE longer

\* Mutant: a failure is not remembered.
CacheSuccess(i, c) ==
    IF c = "ok"
    THEN /\ recent' = Latest(recent, i)
         /\ results' = [k \in Ids |-> IF k = i THEN c
                                      ELSE IF k \in {recent'[n] : n \in DOMAIN recent'} THEN results[k] ELSE "none"]
    ELSE UNCHANGED cache

\* cache_result
Cache(i, c) ==
    /\ recent' = Latest(recent, i)
    /\ results' = [k \in Ids |-> IF k = i THEN c
                                 ELSE IF k \in {recent'[n] : n \in DOMAIN recent'} THEN results[k] ELSE "none"]

\* The result is remembered and published, failures as well; a success also publishes
\* its snapshot and moves the staged value.
Conclude ==
    /\ api = "request" /\ step["api"] = "end"
    /\ api' = "loop" /\ id' = "none"
    /\ Close("api")
    /\ IF code["api"] = "ok"
       THEN /\ Sync(shot["api"], job["api"].kind = "set")
            /\ wish' = IF job["api"].kind = "set" THEN Unset ELSE wish
       ELSE UNCHANGED <<stage, wish>>
    /\ Cache(id, code["api"])
    /\ done' = Latest(done, id)
    /\ UNCHANGED actions

\* The command line runs one operation and ends.
Call(j) ==
    /\ step["cli"] = "closed" /\ calls < MaxCalls
    /\ calls' = calls + 1
    /\ Open("cli", j)
    /\ UNCHANGED <<linkVars, api, id, actions, cache, stage, requests, left, wish, done>>

CallDone ==
    /\ step["cli"] = "end"
    /\ Close("cli")
    /\ UNCHANGED <<api, id, actions, cache, stage, wish, done>>

-----------------------------------------------------------------------------
\* Somebody changes a datapoint at the boiler: it counts as a fault.
Move(a, v) ==
    /\ a # Reference /\ v # ctl[a]
    /\ Fault
    /\ ctl' = [ctl EXCEPT ![a] = v]
    /\ moved' = (lock # "free")
    /\ left' = (left \/ a = State)
    /\ UNCHANGED <<link, lock, session, api, id, actions, cache, stage, count, late, wish, done>>

\* A process is killed: the kernel gives its lock back.  The memory of the service is
\* gone; systemd starts it again.
Kill(p) ==
    /\ IF p = "api" THEN api # "down" ELSE step["cli"] # "closed"
    /\ Fault
    /\ lock' = IF lock = p THEN "free" ELSE lock
    /\ step' = [step EXCEPT ![p] = "closed"] /\ waits' = [waits EXCEPT ![p] = FALSE]
    /\ job' = [job EXCEPT ![p] = NoJob] /\ old' = [old EXCEPT ![p] = 0]
    /\ code' = [code EXCEPT ![p] = "ok"] /\ shot' = [shot EXCEPT ![p] = Unset]
    /\ aborted' = [aborted EXCEPT ![p] = FALSE]
    /\ left' = (left \/ lock = p)
    /\ moved' = (moved /\ lock # p) /\ late' = (late /\ lock # p)
    /\ IF p = "api"
       THEN /\ api' = "down" /\ id' = "none" /\ actions' = <<>>
            /\ recent' = <<>> /\ results' = [i \in Ids |-> "none"]
            /\ staged' = Unset /\ dirty' = FALSE /\ wish' = Unset /\ done' = <<>>
       ELSE UNCHANGED <<api, id, actions, cache, stage, wish, done>>
    /\ UNCHANGED <<link, ctl, count>>

Restart ==
    /\ api = "down" /\ api' = "start"
    /\ UNCHANGED <<linkVars, lock, session, id, actions, cache, stage, count, seen>>

Works ==
    \/ \E p \in Processes : Ask(p) \/ TimeOut(p)
    \/ Answer \/ Initial \/ InitialDone \/ TakeRequest \/ TakeStage \/ Conclude \/ CallDone \/ Restart

Next ==
    \/ Works
    \/ \E item \in Items : Receive(item)
    \/ \E j \in Jobs : Call(j)
    \/ \E a \in Datapoints, v \in Values : Move(a, v)
    \/ \E p \in Processes : Kill(p)
    \/ Lost

Spec == Init /\ [][Next]_vars

\* The processes run, the splitter works off its requests, a wait ends after its four
\* seconds, and systemd restarts the service.
FairSpec == Spec /\ WF_vars(Works)

-----------------------------------------------------------------------------
\* What an operation reports is true (write_verify_byte, reset_maintenance): a changed
\* setting is there, a restored one is the old one, and a reset that succeeded or was
\* aborted has 0x5724 at 0; unless somebody changed it at the boiler meanwhile, or an
\* older request's answer was taken for its own.
OutcomeIsTrue ==
    \A p \in Processes : step[p] = "end" /\ ~moved /\ ~late =>
        /\ (code[p] = "ok" /\ job[p].kind = "set" => ctl[Setting] = job[p].val)
        /\ (code[p] = "restored" => ctl[Setting] = old[p])
        /\ (code[p] \in {"ok", "aborted"} /\ job[p].kind = "reset" => ctl[State] = 0)

\* Between sessions 0x5724 is 1 only after a kill, a reset that said it could not
\* verify its end, a late answer, or a change at the boiler (reset_maintenance).
NoHalfReset == lock = "free" /\ ~left /\ ~late => ctl[State] # 1

\* The service and the command line never talk to the controller at the same time
\* (_acquire_lock).
OneSession == \A p \in Processes : step[p] \in Steps => lock = p

\* A staged value stays until its setting was set, or the service starts again
\* (sync_stage_from_status).
StagedValueIsKept == wish # Unset => staged = wish

\* Two processes share the registers, one after the other, and neither leaves a reset
\* half done nor takes the user's value away (_acquire_lock, reset_maintenance,
\* sync_stage_from_status).
MaintenanceInv == TypeOK /\ OneSession /\ NoHalfReset /\ StagedValueIsKept

\* The same request is not carried out twice: while its id is one of the last finished,
\* it is answered from the cache, failures included (handle_raw_request).
NoSecondExecution ==
    [][(api = "loop" /\ api' = "request") => (\A k \in DOMAIN done : done[k] # id')]_vars

\* Every request is answered: whatever fails, the thread comes back to an empty queue.
RequestsEnd == []<>(api = "loop" /\ actions = <<>>)

\* Every request is carried out once and answered (handle_raw_request, run).
RequestsAreServed == NoSecondExecution /\ RequestsEnd
=============================================================================
