----------------------- MODULE ScheduleManagerProofs ------------------------
(***************************************************************************)
(* Proofs about the schedule manager: a reported success or restore, and   *)
(* what the editor shows, are the block on the controller.                 *)
(***************************************************************************)
EXTENDS ScheduleManager, QueueLemmas, FiniteSetTheorems

-----------------------------------------------------------------------------
\* What an answer tells: whose it is, what a read says, and what it does to the
\* controller.
LEMMA ServeFacts ==
    ASSUME LinkTypeOK, NEW a, NEW b \in BOOLEAN, NEW v \in Values, Serve(Reply(a, b, v))
    PROVE  /\ link # <<>> /\ link' = Tail(link) /\ LinkTypeOK'
           /\ Head(link) \in LinkRequests /\ a = Head(link).addr
           /\ \/ ctl' = ctl
              \/ Head(link).op = "w" /\ ctl' = [ctl EXCEPT ![Head(link).addr] = Head(link).val]
           /\ Head(link).op = "r" => ctl' = ctl /\ (b => v = ctl[a])
  <1>0. LinkAssumption /\ link # <<>> /\ link' = Tail(link)
    BY LinkAssumption DEF Serve
  <1>1. link \in Seq(LinkRequests) /\ ctl \in [Datapoints -> Values] /\ faults \in 0 .. MaxFaults
    BY DEF LinkTypeOK
  <1>2. PICK r \in LinkRequests : r = Head(link)
    BY <1>0, <1>1, QueueEnds
  <1>3. r.addr \in Datapoints /\ r.val \in Values /\ r.op \in {"r", "w"}
    BY DEF LinkRequests
  <1>4. Applied(r) = ctl \/ (r.op = "w" /\ Applied(r) = [ctl EXCEPT ![r.addr] = r.val])
    BY <1>1, <1>3 DEF Applied
  <1>5. Applied(r) \in [Datapoints -> Values] /\ (r.op = "r" => Applied(r) = ctl)
    BY <1>1, <1>3, <1>4 DEF Applied
  <1>6. /\ Reply(a, b, v).addr = a /\ Reply(a, b, v).ok = b /\ Reply(a, b, v).val = v
        /\ Failure(r).addr = r.addr /\ Failure(r).ok = FALSE
    BY DEF Reply, Failure
  <1>7. \/ Reply(a, b, v) \in Successes(r) /\ ctl' = Applied(r) /\ UNCHANGED faults
        \/ Reply(a, b, v) \in Successes(r) /\ r.op = "w" /\ UNCHANGED ctl /\ Fault
        \/ Reply(a, b, v) = Failure(r) /\ ctl' \in {ctl, Applied(r)} /\ Fault
    BY <1>2 DEF Serve
  <1>8. Reply(a, b, v) \in Successes(r) => a = r.addr /\ (r.op = "r" => v = ctl[r.addr])
    BY <1>3, <1>6 DEF Successes, Reply
  <1>9. Reply(a, b, v) = Failure(r) => a = r.addr /\ b = FALSE
    BY <1>6
  <1>10. ctl' \in {ctl, Applied(r)} /\ faults' \in 0 .. MaxFaults
    BY <1>0, <1>1, <1>7 DEF Fault, LinkAssumption
  <1>11. LinkTypeOK'
    BY <1>0, <1>1, <1>5, <1>10, QueueEnds DEF LinkTypeOK
  <1>12. QED
    BY <1>0, <1>2, <1>4, <1>7, <1>8, <1>9, <1>11

\* A lost request was carried out or not.
LEMMA LoseFacts ==
    ASSUME LinkTypeOK, Lose
    PROVE  /\ link # <<>> /\ link' = Tail(link) /\ LinkTypeOK'
           /\ Head(link) \in LinkRequests
           /\ \/ ctl' = ctl
              \/ Head(link).op = "w" /\ ctl' = [ctl EXCEPT ![Head(link).addr] = Head(link).val]
  <1>0. LinkAssumption /\ link # <<>> /\ link' = Tail(link)
    BY LinkAssumption DEF Lose
  <1>1. link \in Seq(LinkRequests) /\ ctl \in [Datapoints -> Values] /\ faults \in 0 .. MaxFaults
    BY DEF LinkTypeOK
  <1>2. PICK r \in LinkRequests : r = Head(link)
    BY <1>0, <1>1, QueueEnds
  <1>3. r.addr \in Datapoints /\ r.val \in Values /\ r.op \in {"r", "w"}
    BY DEF LinkRequests
  <1>4. Applied(r) = ctl \/ (r.op = "w" /\ Applied(r) = [ctl EXCEPT ![r.addr] = r.val])
    BY <1>1, <1>3 DEF Applied
  <1>5. Applied(r) \in [Datapoints -> Values]
    BY <1>1, <1>3, <1>4 DEF Applied
  <1>6. ctl' \in {ctl, Applied(r)} /\ faults' \in 0 .. MaxFaults
    BY <1>0, <1>1, <1>2 DEF Lose, Fault, LinkAssumption
  <1>7. LinkTypeOK'
    BY <1>0, <1>1, <1>5, <1>6, QueueEnds DEF LinkTypeOK
  <1>8. QED
    BY <1>0, <1>2, <1>4, <1>6, <1>7
-----------------------------------------------------------------------------
\* The schedule manager.  The request whose answer the thread waits for:
ScheduleAsks ==
    IF pc = "write" THEN WriteOf(job.day, job.val)
    ELSE IF pc = "restore" THEN WriteOf(job.day, original)
    ELSE ReadOf(job.day)

\* The days hold blocks, and blocks are what is written to them.
BlocksOnly ==
    /\ LinkTypeOK
    /\ \A a \in Datapoints : ctl[a] \in Blocks
    /\ \A i \in 1 .. Len(link) : link[i].op = "w" => link[i].val \in Blocks

ScheduleTypes ==
    /\ pc \in Waiting \cup Sending \cup {"loop", "ok", "restored", "failed", "down"}
    /\ actions \in Seq(Commands)
    /\ job \in [kind : {"idle", "schedule", "apply", "load"}, day : Datapoints \cup {NoDay}, val : Values]
    /\ original \in Values /\ draft \in Values
    /\ tries \in 0 .. 2
    /\ selected \in Datapoints \cup {NoDay}
    /\ editor \in {"idle", "ready", "ok", "dirty", "error"}
    /\ commands \in 0 .. MaxCommands
ScheduleFlags == moved \in BOOLEAN /\ outdated \in BOOLEAN /\ late \in BOOLEAN

\* What is in hand while the thread works on it; the editor's own command is about the
\* selected day.
InHand ==
    /\ pc = "loop" => job = Idle
    /\ pc \notin {"loop", "down"} => job.kind # "idle" /\ job.day \in Datapoints
    /\ pc \notin {"loop", "down", "load"} => job.kind # "load"
    /\ pc = "load" => job.kind # "schedule"
    /\ job.kind \in {"schedule", "apply"} => job.val \in Blocks
    /\ pc \in {"target", "write", "settle", "readback", "rollback", "restore", "resettle", "verify"} =>
           original \in Blocks
    /\ job.kind \in {"apply", "load"} => job.day = selected
    /\ job.kind = "schedule" /\ ~outdated => job.day # selected

\* The newest request is the thread's own, as long as it waits.
NewestIsOwn == pc \in Waiting /\ link # <<>> => link[Len(link)] = ScheduleAsks

\* What is reported is there, with nothing under way.
Confirmed ==
    ~moved /\ ~late =>
        /\ pc = "ok" => link = <<>> /\ ctl[job.day] = job.val
        /\ pc = "restored" => link = <<>> /\ ctl[job.day] = original

\* Nothing writes to a day.
Quiet(day, queue) == \A i \in 1 .. Len(queue) : queue[i].op = "w" => queue[i].addr # day

\* What the editor shows is there, and no write to it is under way.
Shown ==
    editor \in {"ready", "ok"} /\ ~outdated /\ pc \notin {"load", "down"} /\ job.kind # "apply" =>
        selected \in Datapoints /\ draft = ctl[selected] /\ Quiet(selected, link)

ScheduleInv == BlocksOnly /\ ScheduleTypes /\ ScheduleFlags /\ InHand /\ NewestIsOwn /\ Confirmed /\ Shown

\* A command out of the queue.
LEMMA ScheduleCommands ==
    ASSUME ScheduleTypes, actions # <<>>
    PROVE  /\ Head(actions) \in Commands /\ Tail(actions) \in Seq(Commands)
           /\ Head(actions).val \in Values
           /\ Head(actions).kind = "schedule" => Head(actions).day \in Datapoints
           /\ Head(actions).kind = "load" => Head(actions).day \in Datapoints \cup {NoDay}
  <1>1. Head(actions) \in Commands /\ Tail(actions) \in Seq(Commands)
    BY QueueEnds DEF ScheduleTypes
  <1>2. QED
    BY <1>1, LinkAssumption DEF Commands, LinkAssumption

\* A command arrives.
LEMMA ScheduleCommand ==
    ASSUME ScheduleInv, NEW c \in Commands, Command(c)
    PROVE  ScheduleInv'
  <1>0. /\ BlocksOnly /\ ScheduleTypes /\ ScheduleFlags /\ InHand /\ NewestIsOwn /\ Confirmed /\ Shown
        /\ BlockAssumption /\ LinkAssumption
    BY BlockAssumption, LinkAssumption DEF ScheduleInv
  <1>1. BlocksOnly'
    BY <1>0 DEF BlocksOnly, Command, linkVars, LinkTypeOK
  <1>2. ScheduleTypes'
    BY <1>0 DEF ScheduleTypes, Command, work, form
  <1>3. ScheduleFlags'
    BY <1>0 DEF ScheduleFlags, Command, seen
  <1>4. InHand'
    BY <1>0 DEF InHand, Command, work, form, seen
  <1>5. NewestIsOwn'
    BY <1>0 DEF NewestIsOwn, ScheduleAsks, Command, linkVars, work
  <1>6. Confirmed'
    BY <1>0 DEF Confirmed, Command, linkVars, work, seen
  <1>7. Shown'
    BY <1>0 DEF Shown, Command, linkVars, work, form, seen
  <1>8. QED
    BY <1>1, <1>2, <1>3, <1>4, <1>5, <1>6, <1>7 DEF ScheduleInv

\* Somebody changes a day.
LEMMA ScheduleMove ==
    ASSUME ScheduleInv, NEW a \in Datapoints, NEW v \in Blocks, Move(a, v)
    PROVE  ScheduleInv'
  <1>0. /\ BlocksOnly /\ ScheduleTypes /\ ScheduleFlags /\ InHand /\ NewestIsOwn /\ Confirmed /\ Shown
        /\ BlockAssumption /\ LinkAssumption
    BY BlockAssumption, LinkAssumption DEF ScheduleInv
  <1>a. /\ ctl' = [ctl EXCEPT ![a] = v] /\ moved' = (job # Idle) /\ (~outdated' => ~outdated /\ a # selected)
        /\ faults < MaxFaults /\ faults' = faults + 1
        /\ UNCHANGED <<link, pc, actions, job, original, tries, selected, draft, editor, commands, late>>
    BY DEF Move, Fault, work, form
  <1>b. /\ ctl' \in [Datapoints -> Values] /\ ctl'[a] = v /\ \A d \in Datapoints \ {a} : ctl'[d] = ctl[d]
        /\ faults' \in 0 .. MaxFaults
    BY <1>0, <1>a DEF BlocksOnly, LinkTypeOK, Blocks, LinkAssumption
  <1>1. BlocksOnly'
    BY <1>0, <1>a, <1>b DEF BlocksOnly, LinkTypeOK
  <1>2. ScheduleTypes'
    BY <1>0 DEF ScheduleTypes, Move, work, form
  <1>3. ScheduleFlags'
    BY <1>0 DEF ScheduleFlags, Move
  <1>4. InHand'
    BY <1>0 DEF InHand, Move, work, form
  <1>5. NewestIsOwn'
    BY <1>0 DEF NewestIsOwn, ScheduleAsks, Move, work
  <1>6. Confirmed'
    <2>1. ~moved' => job = Idle
      BY <1>a
    <2>2. job = Idle => job.kind = "idle"
      BY DEF Idle
    <2>3. QED
      BY <1>0, <1>a, <2>1, <2>2 DEF Confirmed, InHand
  <1>7. Shown'
    BY <1>0, <1>a, <1>b DEF Shown, Quiet
  <1>8. QED
    BY <1>1, <1>2, <1>3, <1>4, <1>5, <1>6, <1>7 DEF ScheduleInv

\* The draft is changed.
LEMMA ScheduleTakeEdit ==
    ASSUME ScheduleInv, TakeEdit
    PROVE  ScheduleInv'
  <1>0. /\ BlocksOnly /\ ScheduleTypes /\ ScheduleFlags /\ InHand /\ NewestIsOwn /\ Confirmed /\ Shown
        /\ BlockAssumption /\ LinkAssumption
    BY BlockAssumption, LinkAssumption DEF ScheduleInv
  <1>1. BlocksOnly'
    BY <1>0 DEF BlocksOnly, TakeEdit, Rejected, linkVars, LinkTypeOK
  <1>2. ScheduleTypes'
    <2>1. Head(actions).val \in Values /\ Tail(actions) \in Seq(Commands)
      BY <1>0, ScheduleCommands DEF TakeEdit, Taken
    <2>2. Empty \in Values
      BY <1>0, BlockAssumption DEF BlockAssumption, Blocks
    <2>3. QED
      BY <1>0, <2>1, <2>2 DEF ScheduleTypes, TakeEdit, Taken, Rejected, work
  <1>3. ScheduleFlags'
    BY <1>0 DEF ScheduleFlags, TakeEdit
  <1>4. InHand'
    BY <1>0 DEF InHand, TakeEdit, Rejected, work
  <1>5. NewestIsOwn'
    BY <1>0 DEF NewestIsOwn, TakeEdit, Taken, Rejected, Waiting
  <1>6. Confirmed'
    BY <1>0 DEF Confirmed, TakeEdit, Rejected, linkVars, work
  <1>7. Shown'
    BY <1>0 DEF Shown, TakeEdit
  <1>8. QED
    BY <1>1, <1>2, <1>3, <1>4, <1>5, <1>6, <1>7 DEF ScheduleInv

\* A request does not leave.
LEMMA ScheduleSendFails ==
    ASSUME ScheduleInv, SendFails
    PROVE  ScheduleInv'
  <1>0. /\ BlocksOnly /\ ScheduleTypes /\ ScheduleFlags /\ InHand /\ NewestIsOwn /\ Confirmed /\ Shown
        /\ BlockAssumption /\ LinkAssumption
    BY BlockAssumption, LinkAssumption DEF ScheduleInv
  <1>1. BlocksOnly'
    BY <1>0 DEF BlocksOnly, SendFails, Fault, LinkTypeOK
  <1>2. ScheduleTypes'
    BY <1>0 DEF ScheduleTypes, SendFails, work, form
  <1>3. ScheduleFlags'
    BY <1>0 DEF ScheduleFlags, SendFails, seen
  <1>4. InHand'
    BY <1>0 DEF InHand, SendFails, Sending, work, form, seen
  <1>5. NewestIsOwn'
    BY <1>0 DEF NewestIsOwn, SendFails, Waiting
  <1>6. Confirmed'
    BY <1>0 DEF Confirmed, SendFails
  <1>7. Shown'
    BY <1>0 DEF Shown, SendFails, Sending, work, form, seen
  <1>8. QED
    BY <1>1, <1>2, <1>3, <1>4, <1>5, <1>6, <1>7 DEF ScheduleInv

\* A failure is reported.
LEMMA ScheduleReportError ==
    ASSUME ScheduleInv, ReportError
    PROVE  ScheduleInv'
  <1>0. /\ BlocksOnly /\ ScheduleTypes /\ ScheduleFlags /\ InHand /\ NewestIsOwn /\ Confirmed /\ Shown
        /\ BlockAssumption /\ LinkAssumption
    BY BlockAssumption, LinkAssumption DEF ScheduleInv
  <1>1. BlocksOnly'
    BY <1>0 DEF BlocksOnly, ReportError, linkVars, LinkTypeOK
  <1>2. ScheduleTypes'
    BY <1>0 DEF ScheduleTypes, ReportError, Done, Idle
  <1>3. ScheduleFlags'
    BY <1>0 DEF ScheduleFlags, ReportError, Done
  <1>4. InHand'
    BY <1>0 DEF InHand, ReportError, Done, Idle
  <1>5. NewestIsOwn'
    BY <1>0 DEF NewestIsOwn, ReportError, Done, Waiting
  <1>6. Confirmed'
    BY <1>0 DEF Confirmed, ReportError, Done
  <1>7. Shown'
    BY <1>0 DEF Shown, ReportError, linkVars
  <1>8. QED
    BY <1>1, <1>2, <1>3, <1>4, <1>5, <1>6, <1>7 DEF ScheduleInv

\* A kill.
LEMMA ScheduleKill ==
    ASSUME ScheduleInv, Kill
    PROVE  ScheduleInv'
  <1>0. /\ BlocksOnly /\ ScheduleTypes /\ ScheduleFlags /\ InHand /\ NewestIsOwn /\ Confirmed /\ Shown
        /\ BlockAssumption /\ LinkAssumption
    BY BlockAssumption, LinkAssumption DEF ScheduleInv
  <1>1. BlocksOnly'
    BY <1>0 DEF BlocksOnly, Kill, Fault, LinkTypeOK
  <1>2. ScheduleTypes'
    BY <1>0 DEF ScheduleTypes, Kill, work, form
  <1>3. ScheduleFlags'
    BY <1>0 DEF ScheduleFlags, Kill, seen
  <1>4. InHand'
    BY <1>0 DEF InHand, Kill, work, form, seen
  <1>5. NewestIsOwn'
    BY <1>0 DEF NewestIsOwn, Kill, Waiting
  <1>6. Confirmed'
    BY <1>0 DEF Confirmed, Kill
  <1>7. Shown'
    BY <1>0 DEF Shown, Kill
  <1>8. QED
    BY <1>1, <1>2, <1>3, <1>4, <1>5, <1>6, <1>7 DEF ScheduleInv

\* A restart.
LEMMA ScheduleRestart ==
    ASSUME ScheduleInv, Restart
    PROVE  ScheduleInv'
  <1>0. /\ BlocksOnly /\ ScheduleTypes /\ ScheduleFlags /\ InHand /\ NewestIsOwn /\ Confirmed /\ Shown
        /\ BlockAssumption /\ LinkAssumption
    BY BlockAssumption, LinkAssumption DEF ScheduleInv
  <1>1. BlocksOnly'
    BY <1>0 DEF BlocksOnly, Restart, linkVars, LinkTypeOK
  <1>2. ScheduleTypes'
    <2>1. Empty \in Values /\ 0 \in Values /\ 0 \in 0 .. 2
      BY <1>0, BlockAssumption DEF BlockAssumption, Blocks, LinkAssumption
    <2>2. Idle \in [kind : {"idle", "schedule", "apply", "load"}, day : Datapoints \cup {NoDay}, val : Values]
      BY <2>1 DEF Idle
    <2>3. QED
      BY <1>0, <2>1, <2>2 DEF ScheduleTypes, Restart, Done
  <1>3. ScheduleFlags'
    BY <1>0 DEF ScheduleFlags, Restart, Done
  <1>4. InHand'
    BY <1>0 DEF InHand, Restart, Done, Idle
  <1>5. NewestIsOwn'
    BY <1>0 DEF NewestIsOwn, Restart, Done, Waiting
  <1>6. Confirmed'
    BY <1>0 DEF Confirmed, Restart, Done
  <1>7. Shown'
    BY <1>0 DEF Shown, Restart
  <1>8. QED
    BY <1>1, <1>2, <1>3, <1>4, <1>5, <1>6, <1>7 DEF ScheduleInv

\* The thread's requests.
LEMMA ScheduleRequests ==
    ASSUME NEW day \in Datapoints
    PROVE  /\ ReadOf(day) \in LinkRequests /\ ReadOf(day).op = "r" /\ ReadOf(day).addr = day
           /\ \A v \in Values : /\ WriteOf(day, v) \in LinkRequests
                                /\ WriteOf(day, v).val = v /\ WriteOf(day, v).addr = day
  BY LinkAssumption DEF LinkAssumption, ReadOf, WriteOf, LinkRequests

\* A request is the newest of the link; a write must be a block.
LEMMA ScheduleSend ==
    ASSUME BlocksOnly, NEW to, NEW r \in LinkRequests, r.op = "w" => r.val \in Blocks,
           Send(to, r)
    PROVE  /\ pc' = to /\ UNCHANGED <<ctl, faults>>
           /\ BlocksOnly'
           /\ link' # <<>> /\ link'[Len(link')] = r
           /\ \A day \in Datapoints : Quiet(day, link) /\ (r.op = "w" => r.addr # day) => Quiet(day, link')
  <1>1. pc' = to /\ link' = Append(link, r) /\ UNCHANGED <<ctl, faults>>
    BY DEF Send
  <1>2. link \in Seq(LinkRequests)
    BY DEF BlocksOnly, LinkTypeOK
  <1>3. /\ link' \in Seq(LinkRequests) /\ link' # <<>> /\ link'[Len(link')] = r
        /\ \A i \in 1 .. Len(link') : (i \in 1 .. Len(link) /\ link'[i] = link[i]) \/ link'[i] = r
    BY <1>1, <1>2, QueueNewest
  <1>4. BlocksOnly'
    BY <1>1, <1>3 DEF BlocksOnly, LinkTypeOK
  <1>5. ASSUME NEW day \in Datapoints, Quiet(day, link), r.op = "w" => r.addr # day PROVE Quiet(day, link')
    BY <1>3, <1>5 DEF Quiet
  <1>6. QED
    BY <1>1, <1>3, <1>4, <1>5

\* What an answer tells, whatever a write leaves behind.
LEMMA ScheduleServe ==
    ASSUME BlocksOnly, NEW a \in Datapoints, NEW b \in BOOLEAN, NEW v \in Values,
           \/ Serve(Reply(a, b, v))
           \/ Garble(Reply(a, b, v), Blocks)
    PROVE  /\ link # <<>> /\ link' = Tail(link) /\ BlocksOnly'
           /\ Head(link).op = "r" => a = Head(link).addr /\ ctl' = ctl /\ (b => v = ctl[a])
           /\ link' # <<>> => link'[Len(link')] = link[Len(link)]
           /\ link' = <<>> => Head(link) = link[Len(link)]
           /\ \A day \in Datapoints : Quiet(day, link) => ctl'[day] = ctl[day] /\ Quiet(day, link')
  <1>0. LinkTypeOK
    BY DEF BlocksOnly, LinkTypeOK, LinkRequests
  <1>1. link \in Seq(LinkRequests) /\ ctl \in [Datapoints -> Values]
    BY <1>0 DEF LinkTypeOK
  <1> DEFINE r == Head(link)
  <1>2. /\ link # <<>> /\ link' = Tail(link) /\ LinkTypeOK' /\ r \in LinkRequests
        /\ \/ ctl' = ctl
           \/ r.op = "w" /\ \E w \in Values : /\ ctl' = [ctl EXCEPT ![r.addr] = w]
                                              /\ w = r.val \/ w \in Blocks
        /\ r.op = "r" => a = r.addr /\ ctl' = ctl /\ (b => v = ctl[a])
    <2>1. CASE Serve(Reply(a, b, v))
      <3>1. Serve(Reply(a, b, v))
        BY <2>1
      <3>2. r.val \in Values
        BY <1>0, <3>1, ServeFacts DEF LinkRequests
      <3>3. QED
        BY <1>0, <3>1, <3>2, ServeFacts
    <2>2. CASE Garble(Reply(a, b, v), Blocks)
      <3>1. /\ link # <<>> /\ r.op = "w" /\ link' = Tail(link)
            /\ \E w \in Blocks : ctl' = [ctl EXCEPT ![r.addr] = w]
            /\ faults < MaxFaults /\ faults' = faults + 1
        BY <2>2 DEF Garble, Fault
      <3>2. r \in LinkRequests /\ link' \in Seq(LinkRequests)
        BY <1>1, <3>1, QueueEnds
      <3>3. \A w \in Blocks : w \in Values
        BY DEF Blocks
      <3>4. faults' \in 0 .. MaxFaults
        BY <1>0, <3>1, LinkAssumption DEF LinkTypeOK, LinkAssumption
      <3>5. ctl' \in [Datapoints -> Values]
        <4>1. PICK w \in Blocks : ctl' = [ctl EXCEPT ![r.addr] = w]
          BY <3>1
        <4> HIDE DEF r
        <4>2. QED
          BY <1>1, <3>3, <4>1
      <3>6. QED
        BY <3>1, <3>2, <3>3, <3>4, <3>5 DEF LinkTypeOK
    <2>3. QED
      BY <2>1, <2>2
  <1>3. /\ link' # <<>> => link'[Len(link')] = link[Len(link)]
        /\ link' = <<>> => r = link[Len(link)]
        /\ \A i \in 1 .. Len(link') : i + 1 \in 1 .. Len(link) /\ link'[i] = link[i + 1]
        /\ 1 \in 1 .. Len(link) /\ r = link[1]
    BY <1>1, <1>2, QueueEnds
  <1> HIDE DEF r
  <1>4. BlocksOnly'
    <2>1. r.op = "w" => r.val \in Blocks
      BY <1>3 DEF BlocksOnly
    <2>2. \A d \in Datapoints : ctl'[d] \in Blocks
      BY <1>1, <1>2, <2>1 DEF BlocksOnly
    <2>3. \A i \in 1 .. Len(link') : link'[i].op = "w" => link'[i].val \in Blocks
      BY <1>3 DEF BlocksOnly
    <2>4. LinkTypeOK'
      BY <1>2 DEF LinkTypeOK, LinkRequests
    <2>5. QED
      BY <2>2, <2>3, <2>4 DEF BlocksOnly
  <1>5. ASSUME NEW day \in Datapoints, Quiet(day, link) PROVE ctl'[day] = ctl[day] /\ Quiet(day, link')
    <2>1. r.op = "w" => r.addr # day
      BY <1>3, <1>5 DEF Quiet
    <2>2. Quiet(day, link')
      BY <1>3, <1>5 DEF Quiet
    <2>3. QED
      BY <1>1, <1>2, <2>1, <2>2
  <1>6. QED
    BY <1>2, <1>3, <1>4, <1>5 DEF r

\* What the thread makes of an answer, or of none; an answer that nothing older can be is
\* its own.
LEMMA ScheduleHear ==
    ASSUME ScheduleInv, pc \in Waiting,
           NEW b \in BOOLEAN, NEW v \in Values, NEW overtaken \in BOOLEAN,
           Hear(Reply(job.day, b, v), overtaken),
           UNCHANGED <<actions, commands>>, BlocksOnly',
           ~overtaken /\ b => link' = <<>> /\ (ScheduleAsks.op = "r" => ctl' = ctl /\ v = ctl[job.day]),
           \A day \in Datapoints : Quiet(day, link) => ctl'[day] = ctl[day] /\ Quiet(day, link')
    PROVE  ScheduleInv'
  <1>0. /\ BlocksOnly /\ ScheduleTypes /\ ScheduleFlags /\ InHand /\ NewestIsOwn /\ Confirmed /\ Shown
        /\ BlockAssumption /\ LinkAssumption
    BY BlockAssumption, LinkAssumption DEF ScheduleInv
  <1>1. /\ Reply(job.day, b, v).ok = b /\ Reply(job.day, b, v).val = v
        /\ Read(Reply(job.day, b, v)) <=> b /\ v \in Blocks
    BY DEF Reply, Read
  <1>2. ScheduleAsks.op = "r" <=> pc \notin {"write", "restore"}
    BY DEF ScheduleAsks, ReadOf, WriteOf
  <1>3. CASE pc # "load"
    <2>1. /\ UNCHANGED <<job, selected, draft, editor, moved, outdated>>
          /\ late' = (late \/ overtaken)
          /\ \/ pc = "original" /\ OriginalRead(Reply(job.day, b, v))
             \/ pc = "write"    /\ Written(Reply(job.day, b, v))
             \/ pc = "readback" /\ ReadBack(Reply(job.day, b, v))
             \/ pc = "restore"  /\ RolledBack(Reply(job.day, b, v))
             \/ pc = "verify"   /\ Verified(Reply(job.day, b, v))
      BY <1>3 DEF Hear, form
    <2>2. late' \in BOOLEAN /\ (~late' => ~late /\ ~overtaken)
      BY <2>1
    <2>3. /\ pc' \in {"ok", "target", "settle", "rollback", "resettle", "restored", "failed"}
          /\ pc' = "target" => pc = "original"
          /\ pc' = "ok" => b /\ v = job.val /\ pc \in {"original", "readback"}
          /\ pc' = "restored" => b /\ v = original' /\ pc = "verify"
          /\ tries' = tries \/ tries' = 0 \/ (tries < 2 /\ tries' = tries + 1)
          /\ original' = original \/ (pc = "original" /\ original' = v /\ v \in Blocks)
          /\ pc = "original" /\ pc' = "target" => original' = v /\ v \in Blocks
          /\ pc = "original" => pc' \in {"ok", "target", "failed"}
      BY <1>1, <2>1 DEF OriginalRead, Written, ReadBack, RolledBack, Verified, Failed, Readbacks
    <2>4. ScheduleTypes'
      BY <1>0, <2>1, <2>3 DEF ScheduleTypes, Sending
    <2>5. ScheduleFlags'
      BY <1>0, <2>1, <2>2 DEF ScheduleFlags
    <2>6. InHand'
      BY <1>0, <1>3, <2>1, <2>3 DEF InHand, Waiting
    <2>7. NewestIsOwn'
      BY <2>3 DEF NewestIsOwn, Waiting
    <2>8. Confirmed'
      BY <1>2, <2>1, <2>2, <2>3 DEF Confirmed
    <2>9. Shown'
      BY <1>0, <1>3, <2>1, <2>3 DEF Shown, Waiting
    <2>10. QED
      BY <2>4, <2>5, <2>6, <2>7, <2>8, <2>9 DEF ScheduleInv
  <1>4. CASE pc = "load"
    <2>1. /\ Loaded(Reply(job.day, b, v)) /\ Done
          /\ outdated' = (outdated \/ overtaken)
      BY <1>4 DEF Hear
    <2>2. outdated' \in BOOLEAN /\ (~outdated' => ~overtaken)
      BY <2>1
    <2>3. /\ pc' = "loop" /\ job' = Idle /\ original' = 0 /\ tries' = 0 /\ moved' = FALSE /\ late' = FALSE
          /\ selected' = selected
          /\ \/ b /\ v \in Blocks /\ draft' = v /\ editor' \in {"ok", "ready"}
             \/ editor' = "error" /\ draft' = draft
      BY <1>1, <2>1 DEF Loaded, Done
    <2>4. ScheduleTypes'
      <3>1. 0 \in Values /\ 0 \in 0 .. 2
        BY <1>0 DEF LinkAssumption
      <3>2. Idle \in [kind : {"idle", "schedule", "apply", "load"}, day : Datapoints \cup {NoDay}, val : Values]
        BY <3>1 DEF Idle
      <3>3. QED
        BY <1>0, <2>3, <3>1, <3>2 DEF ScheduleTypes
    <2>5. ScheduleFlags'
      BY <2>2, <2>3 DEF ScheduleFlags
    <2>6. InHand' /\ NewestIsOwn' /\ Confirmed'
      BY <2>3 DEF InHand, NewestIsOwn, Confirmed, Idle, Waiting
    <2>7. Shown'
      <3>1. job.day = selected /\ selected \in Datapoints
        BY <1>0, <1>4 DEF InHand, ScheduleTypes
      <3>2. ~outdated' /\ b => link' = <<>> /\ ctl' = ctl /\ v = ctl[selected]
        BY <1>2, <1>4, <2>2, <3>1
      <3>3. QED
        BY <2>3, <3>1, <3>2 DEF Shown, Quiet
    <2>8. QED
      BY <2>4, <2>5, <2>6, <2>7 DEF ScheduleInv
  <1>5. QED
    BY <1>3, <1>4

\* An answer, to the thread or to nobody.
LEMMA ScheduleAnswer ==
    ASSUME ScheduleInv, Answer
    PROVE  ScheduleInv'
  <1>0. /\ BlocksOnly /\ ScheduleTypes /\ ScheduleFlags /\ InHand /\ NewestIsOwn /\ Confirmed /\ Shown
    BY DEF ScheduleInv
  <1>1. PICK a \in Datapoints, b \in BOOLEAN, v \in Values :
           /\ \/ Serve(Reply(a, b, v))
              \/ Garble(Reply(a, b, v), Blocks)
           /\ IF pc \in Waiting /\ a = job.day
              THEN Hear(Reply(a, b, v), link' # <<>>)
              ELSE UNCHANGED <<pc, job, original, tries, selected, draft, editor, moved, outdated, late>>
           /\ UNCHANGED <<actions, commands>>
    BY DEF Answer, work, form, seen
  <1>2. /\ link # <<>> /\ link' = Tail(link) /\ BlocksOnly'
        /\ Head(link).op = "r" => a = Head(link).addr /\ ctl' = ctl /\ (b => v = ctl[a])
        /\ link' # <<>> => link'[Len(link')] = link[Len(link)]
        /\ link' = <<>> => Head(link) = link[Len(link)]
        /\ \A day \in Datapoints : Quiet(day, link) => ctl'[day] = ctl[day] /\ Quiet(day, link')
    BY <1>0, <1>1, ScheduleServe
  <1>3. CASE pc \in Waiting /\ a = job.day
    <2>1. link' = <<>> => ScheduleAsks = Head(link)
      BY <1>0, <1>2, <1>3 DEF NewestIsOwn
    <2>2. Hear(Reply(job.day, b, v), link' # <<>>)
      BY <1>1, <1>3
    <2> DEFINE overtaken == link' # <<>>
    <2>3. overtaken \in BOOLEAN /\ (~overtaken => link' = <<>>) /\ Hear(Reply(job.day, b, v), overtaken)
      BY <2>2
    <2>4. ~overtaken /\ b => link' = <<>> /\ (ScheduleAsks.op = "r" => ctl' = ctl /\ v = ctl[job.day])
      BY <1>2, <1>3, <2>1, <2>3
    <2> HIDE DEF overtaken
    <2>5. QED
      BY <1>1, <1>2, <1>3, <2>3, <2>4, ScheduleHear
  <1>4. CASE ~(pc \in Waiting /\ a = job.day)
    <2>1. UNCHANGED <<pc, job, original, tries, selected, draft, editor, moved, outdated, late, actions, commands>>
      BY <1>1, <1>4
    <2>2. ScheduleTypes' /\ ScheduleFlags' /\ InHand'
      BY <1>0, <2>1 DEF ScheduleTypes, ScheduleFlags, InHand
    <2>3. NewestIsOwn'
      BY <1>0, <1>2, <2>1 DEF NewestIsOwn, ScheduleAsks
    <2>4. Confirmed'
      BY <1>0, <1>2, <2>1 DEF Confirmed
    <2>5. Shown'
      BY <1>0, <1>2, <2>1 DEF Shown
    <2>6. QED
      BY <1>2, <2>2, <2>3, <2>4, <2>5 DEF ScheduleInv
  <1>5. QED
    BY <1>3, <1>4

\* No answer in time.
LEMMA ScheduleTimeOut ==
    ASSUME ScheduleInv, TimeOut
    PROVE  ScheduleInv'
  <1>0. BlocksOnly /\ ScheduleTypes /\ InHand
    BY DEF ScheduleInv
  <1>1. /\ pc \in Waiting /\ UNCHANGED <<link, ctl, actions, commands>>
        /\ faults' = faults \/ (faults < MaxFaults /\ faults' = faults + 1)
    BY DEF TimeOut, GiveUp, Fault
  <1>2. BlocksOnly'
    <2>1. faults' \in 0 .. MaxFaults
      BY <1>0, <1>1, LinkAssumption DEF BlocksOnly, LinkTypeOK, LinkAssumption
    <2>2. QED
      BY <1>0, <1>1, <2>1 DEF BlocksOnly, LinkTypeOK
  <1>3. Hear(Reply(job.day, FALSE, 0), FALSE) /\ 0 \in Values
    BY LinkAssumption DEF TimeOut, Failure, ReadOf, LinkAssumption
  <1>4. \A day \in Datapoints : Quiet(day, link) => ctl'[day] = ctl[day] /\ Quiet(day, link')
    BY <1>1 DEF Quiet
  <1>5. QED
    BY <1>1, <1>2, <1>3, <1>4, ScheduleHear

\* A request or an answer is lost.
LEMMA ScheduleLost ==
    ASSUME ScheduleInv, Lost
    PROVE  ScheduleInv'
  <1>0. /\ BlocksOnly /\ ScheduleTypes /\ ScheduleFlags /\ InHand /\ NewestIsOwn /\ Confirmed /\ Shown
    BY DEF ScheduleInv
  <1>1. /\ Lose
        /\ UNCHANGED <<pc, job, original, tries, selected, draft, editor, moved, outdated, late, actions, commands>>
    BY DEF Lost, work, form, seen
  <1>2. LinkTypeOK /\ Lose
    BY <1>0, <1>1 DEF BlocksOnly
  <1> DEFINE r == Head(link)
  <1>3. /\ link # <<>> /\ link' = Tail(link) /\ LinkTypeOK'
        /\ ctl' = ctl \/ (r.op = "w" /\ ctl' = [ctl EXCEPT ![r.addr] = r.val])
    BY <1>2, LoseFacts
  <1>4. link \in Seq(LinkRequests) /\ ctl \in [Datapoints -> Values]
    BY <1>2 DEF LinkTypeOK
  <1>5. /\ link' # <<>> => link'[Len(link')] = link[Len(link)]
        /\ \A i \in 1 .. Len(link') : i + 1 \in 1 .. Len(link) /\ link'[i] = link[i + 1]
        /\ 1 \in 1 .. Len(link) /\ r = link[1]
    BY <1>3, <1>4, QueueEnds
  <1> HIDE DEF r
  <1>6. BlocksOnly'
    <2>1. \A d \in Datapoints : ctl'[d] \in Blocks
      BY <1>0, <1>3, <1>4, <1>5 DEF BlocksOnly
    <2>2. \A i \in 1 .. Len(link') : link'[i].op = "w" => link'[i].val \in Blocks
      BY <1>0, <1>5 DEF BlocksOnly
    <2>3. LinkTypeOK'
      BY <1>3 DEF LinkTypeOK, LinkRequests
    <2>4. QED
      BY <2>1, <2>2, <2>3 DEF BlocksOnly
  <1>7. ASSUME NEW day \in Datapoints, Quiet(day, link) PROVE ctl'[day] = ctl[day] /\ Quiet(day, link')
    <2>1. r.op = "w" => r.addr # day
      BY <1>5, <1>7 DEF Quiet
    <2>2. Quiet(day, link')
      BY <1>5, <1>7 DEF Quiet
    <2>3. QED
      BY <1>3, <1>4, <2>1, <2>2
  <1>8. ScheduleTypes' /\ ScheduleFlags' /\ InHand'
    BY <1>0, <1>1 DEF ScheduleTypes, ScheduleFlags, InHand
  <1>9. NewestIsOwn' /\ Confirmed'
    BY <1>0, <1>1, <1>3, <1>5 DEF NewestIsOwn, ScheduleAsks, Confirmed
  <1>10. Shown'
    BY <1>0, <1>1, <1>7 DEF Shown
  <1>11. QED
    BY <1>6, <1>8, <1>9, <1>10 DEF ScheduleInv

\* A schedule command: the day's block is read first.
LEMMA ScheduleTakeSchedule ==
    ASSUME ScheduleInv, TakeSchedule
    PROVE  ScheduleInv'
  <1>0. /\ BlocksOnly /\ ScheduleTypes /\ ScheduleFlags /\ InHand /\ NewestIsOwn /\ Confirmed /\ Shown
        /\ BlockAssumption /\ LinkAssumption
    BY BlockAssumption, LinkAssumption DEF ScheduleInv
  <1> DEFINE c == Head(actions)
  <1>1. /\ pc = "loop" /\ actions # <<>> /\ c.kind = "schedule" /\ actions' = Tail(actions)
        /\ UNCHANGED <<selected, draft, editor, commands>>
    BY DEF TakeSchedule, Taken, form
  <1>2. c.day \in Datapoints /\ c.val \in Values /\ actions' \in Seq(Commands)
    BY <1>0, <1>1, ScheduleCommands
  <1>3. CASE c.val \in Blocks
    <2>1. /\ StartApply("schedule", c.day, c.val)
          /\ late' = FALSE /\ moved' = FALSE /\ outdated' = (outdated \/ c.day = selected)
      BY <1>3 DEF TakeSchedule
    <2>2. /\ Send("original", ReadOf(c.day))
          /\ job' = [kind |-> "schedule", day |-> c.day, val |-> c.val] /\ original' = 0 /\ tries' = 0
      BY <2>1 DEF StartApply
    <2>3. outdated' \in BOOLEAN /\ (~outdated' => ~outdated /\ c.day # selected)
      BY <2>1
    <2> HIDE DEF c
    <2>4. /\ pc' = "original" /\ UNCHANGED <<ctl, faults>> /\ BlocksOnly'
          /\ link' # <<>> /\ link'[Len(link')] = ReadOf(c.day)
          /\ \A day \in Datapoints : Quiet(day, link) => Quiet(day, link')
      BY <1>0, <1>2, <2>2, ScheduleRequests, ScheduleSend
    <2>5. ScheduleTypes'
      BY <1>0, <1>1, <1>2, <2>2, <2>4 DEF ScheduleTypes, Waiting, LinkAssumption
    <2>6. ScheduleFlags'
      BY <2>1, <2>3 DEF ScheduleFlags
    <2>7. InHand' /\ NewestIsOwn' /\ Confirmed'
      BY <1>1, <1>2, <1>3, <2>2, <2>3, <2>4 DEF InHand, NewestIsOwn, ScheduleAsks, Confirmed
    <2>8. Shown'
      BY <1>0, <1>1, <2>2, <2>3, <2>4 DEF Shown, InHand, Idle
    <2>9. QED
      BY <2>4, <2>5, <2>6, <2>7, <2>8 DEF ScheduleInv
  <1>4. CASE c.val \notin Blocks
    <2>1. UNCHANGED <<link, ctl, faults, pc, job, original, tries, late, moved, outdated>>
      BY <1>4 DEF TakeSchedule, Rejected, linkVars, work
    <2> HIDE DEF c
    <2>2. BlocksOnly' /\ ScheduleTypes' /\ ScheduleFlags' /\ InHand'
      BY <1>0, <1>1, <1>2, <2>1 DEF BlocksOnly, LinkTypeOK, ScheduleTypes, ScheduleFlags, InHand
    <2>3. NewestIsOwn' /\ Confirmed' /\ Shown'
      BY <1>0, <1>1, <2>1 DEF NewestIsOwn, ScheduleAsks, Confirmed, Shown
    <2>4. QED
      BY <2>2, <2>3 DEF ScheduleInv
  <1>5. QED
    BY <1>3, <1>4

\* The day is selected before its block is read.
LEMMA ScheduleTakeLoad ==
    ASSUME ScheduleInv, TakeLoad
    PROVE  ScheduleInv'
  <1>0. /\ BlocksOnly /\ ScheduleTypes /\ ScheduleFlags /\ InHand /\ NewestIsOwn /\ Confirmed /\ Shown
        /\ BlockAssumption /\ LinkAssumption
    BY BlockAssumption, LinkAssumption DEF ScheduleInv
  <1> DEFINE day == IF Head(actions).kind = "load" THEN Head(actions).day ELSE selected
  <1>1. /\ pc = "loop" /\ actions # <<>> /\ actions' = Tail(actions) /\ UNCHANGED commands
        /\ IF day # NoDay
           THEN StartLoad(day) /\ late' = FALSE /\ moved' = FALSE /\ outdated' = FALSE
           ELSE Rejected /\ editor' = "error" /\ UNCHANGED <<selected, draft, late, moved, outdated>>
    BY DEF TakeLoad, Taken
  <1>2. actions' \in Seq(Commands) /\ day \in Datapoints \cup {NoDay}
    BY <1>0, <1>1, ScheduleCommands DEF ScheduleTypes
  <1> HIDE DEF day
  <1>3. CASE day # NoDay
    <2>0. day \in Datapoints
      BY <1>2, <1>3
    <2>1. /\ Send("load", ReadOf(day))
          /\ job' = [kind |-> "load", day |-> day, val |-> 0] /\ selected' = day
          /\ UNCHANGED <<original, tries, draft, editor>>
          /\ late' = FALSE /\ moved' = FALSE /\ outdated' = FALSE
      BY <1>1, <1>3 DEF StartLoad
    <2>2. /\ pc' = "load" /\ BlocksOnly'
          /\ link' # <<>> /\ link'[Len(link')] = ReadOf(day)
      BY <1>0, <2>0, <2>1, ScheduleRequests, ScheduleSend
    <2>3. ScheduleTypes' /\ ScheduleFlags'
      BY <1>0, <1>1, <1>2, <2>1, <2>2 DEF ScheduleTypes, ScheduleFlags, Waiting, LinkAssumption
    <2>4. InHand' /\ NewestIsOwn' /\ Confirmed' /\ Shown'
      BY <2>0, <2>1, <2>2 DEF InHand, NewestIsOwn, ScheduleAsks, Confirmed, Shown
    <2>5. QED
      BY <2>2, <2>3, <2>4 DEF ScheduleInv
  <1>4. CASE day = NoDay
    <2>1. /\ UNCHANGED <<link, ctl, faults, pc, job, original, tries, selected, draft, late, moved, outdated>>
          /\ editor' = "error"
      BY <1>1, <1>4 DEF Rejected, linkVars, work
    <2>2. BlocksOnly' /\ ScheduleTypes' /\ ScheduleFlags' /\ InHand'
      BY <1>0, <1>1, <1>2, <2>1 DEF BlocksOnly, LinkTypeOK, ScheduleTypes, ScheduleFlags, InHand
    <2>3. NewestIsOwn' /\ Confirmed' /\ Shown'
      BY <1>0, <1>1, <2>1 DEF NewestIsOwn, ScheduleAsks, Confirmed, Shown
    <2>4. QED
      BY <2>2, <2>3 DEF ScheduleInv
  <1>5. QED
    BY <1>3, <1>4

\* The draft is applied to the selected day, if it is a block.
LEMMA ScheduleTakeApply ==
    ASSUME ScheduleInv, TakeApply
    PROVE  ScheduleInv'
  <1>0. /\ BlocksOnly /\ ScheduleTypes /\ ScheduleFlags /\ InHand /\ NewestIsOwn /\ Confirmed /\ Shown
        /\ BlockAssumption /\ LinkAssumption
    BY BlockAssumption, LinkAssumption DEF ScheduleInv
  <1>1. /\ pc = "loop" /\ actions # <<>> /\ actions' = Tail(actions) /\ UNCHANGED <<selected, draft, commands, outdated>>
    BY DEF TakeApply, Taken
  <1>2. actions' \in Seq(Commands)
    BY <1>0, <1>1, ScheduleCommands
  <1>3. CASE selected # NoDay /\ draft \in Blocks
    <2>0. selected \in Datapoints
      BY <1>0, <1>3 DEF ScheduleTypes
    <2>1. /\ Send("original", ReadOf(selected))
          /\ job' = [kind |-> "apply", day |-> selected, val |-> draft] /\ original' = 0 /\ tries' = 0
          /\ late' = FALSE /\ moved' = FALSE /\ editor' = editor
      BY <1>3 DEF TakeApply, StartApply
    <2>2. /\ pc' = "original" /\ BlocksOnly'
          /\ link' # <<>> /\ link'[Len(link')] = ReadOf(selected)
      BY <1>0, <2>0, <2>1, ScheduleRequests, ScheduleSend
    <2>3. ScheduleTypes' /\ ScheduleFlags'
      <3>1. draft \in Values
        BY <1>0 DEF ScheduleTypes
      <3>2. job' \in [kind : {"idle", "schedule", "apply", "load"}, day : Datapoints \cup {NoDay}, val : Values]
        BY <2>0, <2>1, <3>1
      <3>3. ScheduleTypes'
        BY <1>0, <1>1, <2>1, <2>2 DEF ScheduleTypes, Waiting, LinkAssumption
      <3>4. ScheduleFlags'
        BY <1>0, <1>1, <2>1 DEF ScheduleFlags
      <3>5. QED
        BY <3>3, <3>4
    <2>4. InHand' /\ NewestIsOwn' /\ Confirmed' /\ Shown'
      BY <1>1, <1>3, <2>0, <2>1, <2>2 DEF InHand, NewestIsOwn, ScheduleAsks, Confirmed, Shown
    <2>5. QED
      BY <2>2, <2>3, <2>4 DEF ScheduleInv
  <1>4. CASE ~(selected # NoDay /\ draft \in Blocks)
    <2>1. /\ UNCHANGED <<link, ctl, faults, pc, job, original, tries, late, moved>>
          /\ editor' = "error"
      BY <1>4 DEF TakeApply, Rejected, linkVars, work
    <2>2. BlocksOnly' /\ ScheduleTypes' /\ ScheduleFlags' /\ InHand'
      BY <1>0, <1>1, <1>2, <2>1 DEF BlocksOnly, LinkTypeOK, ScheduleTypes, ScheduleFlags, InHand
    <2>3. NewestIsOwn' /\ Confirmed' /\ Shown'
      BY <1>0, <1>1, <2>1 DEF NewestIsOwn, ScheduleAsks, Confirmed, Shown
    <2>4. QED
      BY <2>2, <2>3 DEF ScheduleInv
  <1>5. QED
    BY <1>3, <1>4

\* The other requests of apply.
LEMMA ScheduleSendMore ==
    ASSUME ScheduleInv, SendMore
    PROVE  ScheduleInv'
  <1>0. /\ BlocksOnly /\ ScheduleTypes /\ ScheduleFlags /\ InHand /\ NewestIsOwn /\ Confirmed /\ Shown
    BY DEF ScheduleInv
  <1>1. PICK to \in {"write", "readback", "restore", "verify"} :
           /\ pc \in {"target", "settle", "rollback", "resettle"}
           /\ Send(to, IF to = "write" THEN WriteOf(job.day, job.val)
                                ELSE IF to = "restore" THEN WriteOf(job.day, original)
                                ELSE ReadOf(job.day))
    BY DEF SendMore
  <1>2. UNCHANGED <<actions, job, original, tries, selected, draft, editor, commands, moved, outdated, late>>
    BY DEF SendMore, work, form, seen
  <1>3. /\ job.day \in Datapoints /\ job.kind \in {"schedule", "apply"}
        /\ job.val \in Blocks /\ original \in Blocks
    BY <1>0, <1>1 DEF InHand, ScheduleTypes
  <1>4. \A w \in Blocks : w \in Values
    BY DEF Blocks
  <1> DEFINE r == IF to = "write" THEN WriteOf(job.day, job.val)
                  ELSE IF to = "restore" THEN WriteOf(job.day, original)
                  ELSE ReadOf(job.day)
  <1>5. r \in LinkRequests /\ r.addr = job.day /\ (r.op = "w" => r.val \in Blocks)
    BY <1>3, <1>4, ScheduleRequests
  <1>6. r = IF to = "write" THEN WriteOf(job.day, job.val)
            ELSE IF to = "restore" THEN WriteOf(job.day, original)
            ELSE ReadOf(job.day)
    OBVIOUS
  <1>7. Send(to, r)
    BY <1>1
  <1> HIDE DEF r
  <1>8. /\ pc' = to /\ UNCHANGED <<ctl, faults>> /\ BlocksOnly'
        /\ link' # <<>> /\ link'[Len(link')] = r
        /\ \A day \in Datapoints : Quiet(day, link) /\ (r.op = "w" => r.addr # day) => Quiet(day, link')
    BY <1>0, <1>5, <1>7, ScheduleSend
  <1>9. ScheduleTypes' /\ ScheduleFlags'
    BY <1>0, <1>2, <1>8 DEF ScheduleTypes, ScheduleFlags, Waiting
  <1>10. InHand' /\ NewestIsOwn' /\ Confirmed'
    BY <1>0, <1>2, <1>3, <1>6, <1>8 DEF InHand, NewestIsOwn, ScheduleAsks, Confirmed
  <1>11. Shown'
    BY <1>0, <1>1, <1>2, <1>3, <1>5, <1>8 DEF Shown, InHand
  <1>12. QED
    BY <1>8, <1>9, <1>10, <1>11 DEF ScheduleInv

\* A success is reported; the editor's own block is loaded again.
LEMMA ScheduleReportOk ==
    ASSUME ScheduleInv, ReportOk
    PROVE  ScheduleInv'
  <1>0. /\ BlocksOnly /\ ScheduleTypes /\ ScheduleFlags /\ InHand /\ NewestIsOwn /\ Confirmed /\ Shown
        /\ LinkAssumption
    BY LinkAssumption DEF ScheduleInv
  <1>1. pc = "ok" /\ UNCHANGED <<actions, selected, draft, editor, commands>>
    BY DEF ReportOk, form
  <1>2. job.day \in Datapoints /\ job.kind \in {"schedule", "apply"}
    BY <1>0, <1>1 DEF InHand, ScheduleTypes
  <1>3. CASE job.kind = "apply"
    <2>1. /\ Send("load", ReadOf(job.day)) /\ moved' = FALSE /\ outdated' = FALSE /\ late' = FALSE
          /\ UNCHANGED <<job, original, tries>>
      BY <1>3 DEF ReportOk, work
    <2>2. /\ pc' = "load" /\ BlocksOnly'
          /\ link' # <<>> /\ link'[Len(link')] = ReadOf(job.day)
      BY <1>0, <1>2, <2>1, ScheduleRequests, ScheduleSend
    <2>3. ScheduleTypes' /\ ScheduleFlags'
      BY <1>0, <1>1, <2>1, <2>2 DEF ScheduleTypes, ScheduleFlags, Waiting
    <2>4. InHand' /\ NewestIsOwn' /\ Confirmed' /\ Shown'
      BY <1>0, <1>1, <1>3, <2>1, <2>2 DEF InHand, NewestIsOwn, ScheduleAsks, Confirmed, Shown
    <2>5. QED
      BY <2>2, <2>3, <2>4 DEF ScheduleInv
  <1>4. CASE job.kind = "schedule"
    <2>1. /\ pc' = "loop" /\ job' = Idle /\ original' = 0 /\ tries' = 0 /\ moved' = FALSE /\ late' = FALSE
          /\ UNCHANGED <<link, ctl, faults, outdated>>
      BY <1>4 DEF ReportOk, Done, linkVars
    <2>2. BlocksOnly' /\ ScheduleFlags'
      BY <1>0, <2>1 DEF BlocksOnly, LinkTypeOK, ScheduleFlags
    <2>3. ScheduleTypes'
      <3>1. 0 \in Values /\ 0 \in 0 .. 2
        BY <1>0 DEF LinkAssumption
      <3>2. Idle \in [kind : {"idle", "schedule", "apply", "load"}, day : Datapoints \cup {NoDay}, val : Values]
        BY <3>1 DEF Idle
      <3>3. QED
        BY <1>0, <1>1, <2>1, <3>1, <3>2 DEF ScheduleTypes
    <2>4. InHand' /\ NewestIsOwn' /\ Confirmed'
      BY <1>0, <2>1 DEF InHand, NewestIsOwn, Confirmed, Idle, Waiting
    <2>5. Shown'
      BY <1>0, <1>1, <1>4, <2>1 DEF Shown
    <2>6. QED
      BY <2>2, <2>3, <2>4, <2>5 DEF ScheduleInv
  <1>5. QED
    BY <1>2, <1>3, <1>4

\* The schedule manager starts within the invariant.
LEMMA ScheduleInit ==
    ASSUME Init
    PROVE  ScheduleInv
  <1>0. 0 \in Values /\ MaxFaults \in Nat /\ MaxCommands \in Nat /\ Present \subseteq Blocks /\ Empty \in Values
        /\ \A w \in Blocks : w \in Values
    BY LinkAssumption, BlockAssumption DEF LinkAssumption, BlockAssumption, Blocks
  <1>1. /\ link = <<>> /\ faults = 0 /\ ctl \in [Datapoints -> Values] /\ \A a \in Datapoints : ctl[a] \in Present
    BY DEF Init, LinkInit
  <1>2. BlocksOnly
    BY <1>0, <1>1 DEF BlocksOnly, LinkTypeOK
  <1>3. ScheduleTypes
    <2>1. Idle \in [kind : {"idle", "schedule", "apply", "load"}, day : Datapoints \cup {NoDay}, val : Values]
      BY <1>0 DEF Idle
    <2>2. selected \in Datapoints \cup {NoDay} /\ draft \in Values /\ editor \in {"idle", "ready"}
      BY <1>0, <1>1 DEF Init
    <2>3. QED
      BY <1>0, <2>1, <2>2 DEF Init, ScheduleTypes
  <1>4. ScheduleFlags /\ InHand /\ NewestIsOwn /\ Confirmed
    BY DEF Init, ScheduleFlags, InHand, NewestIsOwn, Confirmed, Idle, Waiting
  <1>5. Shown
    BY <1>1 DEF Init, Shown, Quiet
  <1>6. QED
    BY <1>2, <1>3, <1>4, <1>5 DEF ScheduleInv

\* Every step of the schedule manager keeps it.
LEMMA ScheduleNext ==
    ASSUME ScheduleInv, [Next]_vars
    PROVE  ScheduleInv'
  <1>1. CASE Service
    BY <1>1, ScheduleTakeSchedule, ScheduleTakeLoad, ScheduleTakeEdit, ScheduleTakeApply,
       ScheduleSendMore, ScheduleAnswer, ScheduleTimeOut, ScheduleReportOk, ScheduleReportError,
       ScheduleRestart
       DEF Service
  <1>2. CASE \E c \in Commands : Command(c)
    BY <1>2, ScheduleCommand
  <1>3. CASE \E a \in Datapoints, v \in Blocks : Move(a, v)
    BY <1>3, ScheduleMove
  <1>4. CASE SendFails \/ Lost \/ Kill
    BY <1>4, ScheduleSendFails, ScheduleLost, ScheduleKill
  <1>5. CASE UNCHANGED vars
    <2>1. UNCHANGED <<link, ctl, faults, pc, actions, job, original, tries, selected, draft, editor, commands, moved,
                      outdated, late>>
      BY <1>5 DEF vars, linkVars, work, form, seen
    <2>2. BlocksOnly' /\ ScheduleTypes' /\ ScheduleFlags' /\ InHand'
      BY <2>1 DEF ScheduleInv, BlocksOnly, LinkTypeOK, ScheduleTypes, ScheduleFlags, InHand
    <2>3. NewestIsOwn' /\ Confirmed' /\ Shown'
      BY <2>1 DEF ScheduleInv, NewestIsOwn, ScheduleAsks, Confirmed, Shown
    <2>4. QED
      BY <2>2, <2>3 DEF ScheduleInv
  <1>6. QED
    BY <1>1, <1>2, <1>3, <1>4, <1>5 DEF Next

\* The invariant of the schedule manager.
LEMMA ScheduleSpecInv ==
    Spec => []ScheduleInv
  <1>1. Init => ScheduleInv
    BY ScheduleInit
  <1>2. ScheduleInv /\ [Next]_vars => ScheduleInv'
    BY ScheduleNext
  <1>3. QED
    BY <1>1, <1>2, PTL DEF Spec

\* A success that is reported, and a restore, are on the controller (ApplyInv): for every
\* set of days, blocks and commands.
THEOREM ScheduleSafe ==
    Spec => []ApplyInv
  <1>1. ASSUME ScheduleInv PROVE ApplyInv
    <2>0. BlocksOnly /\ ScheduleTypes /\ ScheduleFlags /\ Confirmed
      BY <1>1 DEF ScheduleInv
    <2>1. TypeOK
      <3>1. {job.val, original, draft} \subseteq Values /\ {moved, outdated, late} \subseteq BOOLEAN
        BY <2>0 DEF ScheduleTypes, ScheduleFlags
      <3>2. QED
        BY <2>0, <3>1 DEF BlocksOnly, ScheduleTypes, TypeOK, Readbacks
    <2>2. ReportIsTrue
      BY <2>0 DEF Confirmed, ReportIsTrue
    <2>3. QED
      BY <2>1, <2>2 DEF ApplyInv
  <1>2. QED
    BY <1>1, ScheduleSpecInv, PTL

-----------------------------------------------------------------------------
\* The editor's arithmetic: slots, schedules and blocks.

\* The times of the steps, 24:00 among them.
Tens == {10 * n : n \in 0 .. 144}

\* A time of ten minutes' steps.
LEMMA TensFacts ==
    /\ Day \in Tens /\ 0 \in Steps /\ 6 * Hour \in Steps
    /\ \A a \in Steps : a \in Nat /\ a < Day /\ a \in Tens
    /\ \A a \in Tens : a \in Nat /\ a <= Day /\ (a # Day => a \in Steps)
    /\ \A a, b \in Tens : a < b => b - a >= 10 /\ a \in Steps
    /\ \A a \in Tens : a + Hour <= Day => a + Hour \in Tens
  <1>1. /\ \A a \in Tens : \E n \in 0 .. 144 : a = 10 * n
        /\ \A n \in 0 .. 144 : 10 * n \in Tens
    BY DEF Tens
  <1>2. /\ \A a \in Steps : \E n \in 0 .. 143 : a = 10 * n
        /\ \A n \in 0 .. 143 : 10 * n \in Steps
    BY DEF Steps
  <1>3. Day = 10 * 144 /\ 6 * Hour = 10 * 36 /\ 0 = 10 * 0 /\ Hour = 10 * 6 /\ Day = 1440
    BY DEF Day, Hour
  <1>4. ASSUME NEW a \in Tens PROVE a \in Nat /\ a <= Day /\ (a # Day => a \in Steps)
    <2>1. PICK n \in 0 .. 144 : a = 10 * n
      BY <1>1
    <2>2. a # Day => n \in 0 .. 143
      BY <1>3, <2>1
    <2>3. QED
      BY <1>2, <1>3, <2>1, <2>2
  <1>5. ASSUME NEW a \in Steps PROVE a \in Nat /\ a < Day /\ a \in Tens
    <2>1. PICK n \in 0 .. 143 : a = 10 * n
      BY <1>2
    <2>2. QED
      BY <1>1, <1>3, <2>1
  <1>6. ASSUME NEW a \in Tens, NEW b \in Tens, a < b PROVE b - a >= 10 /\ a \in Steps
    <2>1. PICK n \in 0 .. 144 : a = 10 * n
      BY <1>1
    <2>2. PICK m \in 0 .. 144 : b = 10 * m
      BY <1>1
    <2>3. n < m /\ a # Day
      BY <1>3, <1>6, <2>1, <2>2
    <2>4. b - a >= 10
      BY <2>1, <2>2, <2>3
    <2>5. QED
      BY <1>4, <2>3, <2>4
  <1>7. ASSUME NEW a \in Tens, a + Hour <= Day PROVE a + Hour \in Tens
    <2>1. PICK n \in 0 .. 144 : a = 10 * n
      BY <1>1
    <2>2. n + 6 \in 0 .. 144 /\ a + Hour = 10 * (n + 6)
      BY <1>3, <1>7, <2>1
    <2>3. QED
      BY <1>1, <2>2
  <1>8. Day \in Tens /\ 0 \in Steps /\ 6 * Hour \in Steps
    BY <1>1, <1>2, <1>3
  <1>9. QED
    BY <1>4, <1>5, <1>6, <1>7, <1>8

\* A time in a byte.
LEMMA TimeInByte ==
    ASSUME NEW t \in Tens
    PROVE  /\ EncodeTime(t) \in 0 .. Free - 1 /\ (EncodeTime(t) % 8) <= 5
           /\ DecodeTime(EncodeTime(t)) = t
  <1>1. PICK n \in 0 .. 144 : t = 10 * n
    BY DEF Tens
  <1>2. (10 * n) \div 60 = n \div 6 /\ ((10 * n) % 60) \div 10 = n % 6
    BY <1>1
  <1>3. EncodeTime(t) = (n \div 6) * 8 + (n % 6)
    BY <1>1, <1>2 DEF EncodeTime, Hour
  <1>4. n \div 6 \in 0 .. 24 /\ n % 6 \in 0 .. 5 /\ n = 6 * (n \div 6) + (n % 6)
    BY <1>1
  <1>5. ASSUME NEW h \in 0 .. 24, NEW m \in 0 .. 5
        PROVE  /\ h * 8 + m \in 0 .. 254 /\ ((h * 8 + m) % 8) = m
               /\ ((h * 8 + m) \div 8) = h
    OBVIOUS
  <1>6. QED
    <2>1. /\ EncodeTime(t) \in 0 .. 254 /\ EncodeTime(t) % 8 = (n % 6) /\ EncodeTime(t) \div 8 = n \div 6
      BY <1>3, <1>4, <1>5
    <2>2. DecodeTime(EncodeTime(t)) = (n \div 6) * 60 + (n % 6) * 10
      BY <2>1 DEF DecodeTime, Hour
    <2>3. QED
      BY <1>1, <1>4, <2>1, <2>2 DEF Free

\* Rounding to the steps.
LEMMA RoundedFacts ==
    ASSUME NEW t \in 0 .. Day
    PROVE  /\ Rounded(t) \in Tens /\ NormalStart(t) \in Steps
           /\ NormalEnd(t) \in Tens /\ NormalEnd(t) > 0
  <1>1. (t + 5) \div 10 \in 0 .. 144
    BY DEF Day
  <1>2. Rounded(t) = 10 * ((t + 5) \div 10)
    BY <1>1 DEF Rounded
  <1>3. Rounded(t) \in Tens
    BY <1>1, <1>2 DEF Tens
  <1>4. Day - 10 = 10 * 143 /\ 10 = 10 * 1 /\ Day - 10 \in Steps /\ 10 \in Tens /\ Day = 1440
    BY DEF Day, Steps, Tens
  <1>5. NormalStart(t) \in Steps
    <2>1. Rounded(t) \in Nat /\ (Rounded(t) # Day => Rounded(t) \in Steps)
      BY <1>3, TensFacts
    <2>2. QED
      BY <1>4, <2>1 DEF NormalStart
  <1>6. NormalEnd(t) \in Tens /\ NormalEnd(t) > 0
    <2>1. Rounded(t) \in Nat /\ Day \in Tens
      BY <1>3, TensFacts
    <2>2. QED
      BY <1>3, <1>4, <2>1 DEF NormalEnd
  <1>7. QED
    BY <1>3, <1>5, <1>6

\* The intervals of the grid are intervals.
LEMMA GridFacts ==
    ASSUME NEW i \in GridIntervals
    PROVE  i \in Tens \X Tens /\ IsInterval(i) /\ i = <<i[1], i[2]>> /\ i # Off /\ i[1] \in Steps /\ i[1] < i[2]
  <1>1. i \in (Grid \cap Steps) \X Grid /\ i[1] < i[2]
    BY DEF GridIntervals
  <1>2. Grid \subseteq Tens
    BY GridAssumption DEF Tens
  <1>3. i[1] \in Steps /\ i[2] \in Tens /\ i = <<i[1], i[2]>> /\ i[1] \in Tens
    BY <1>1, <1>2, TensFacts
  <1>4. i[1] # None
    BY <1>3, TensFacts DEF None
  <1>5. QED
    BY <1>1, <1>3, <1>4, TensFacts DEF IsInterval, Off

\* Picking one side of a slot gives an interval of the steps (EditedSlotIsAnInterval).
LEMMA EditedIsInterval == EditedSlotIsAnInterval
  <1>1. ASSUME NEW slot \in GridIntervals \cup {Off} PROVE slot[2] = None \/ (slot[2] \in Tens /\ slot[1] \in Steps /\ slot[1] # None)
    BY GridFacts, TensFacts DEF Off, None
  <1>2. ASSUME NEW slot \in GridIntervals \cup {Off} PROVE slot[1] = None \/ slot[1] \in Steps
    BY GridFacts, TensFacts DEF Off, None
  <1>3. Day = 1440 /\ Hour = 60 /\ None = -1
    BY DEF Day, Hour, None
  <1>4. ASSUME NEW slot \in GridIntervals \cup {Off}, NEW t \in 0 .. Day - 1 PROVE IsInterval(SetStart(slot, t))
    <2> DEFINE start == NormalStart(t)
    <2>1. start \in Steps /\ start \in Nat /\ start < Day /\ start \in Tens
      <3>1. t \in 0 .. Day
        BY <1>3
      <3>2. start \in Steps
        BY <3>1, RoundedFacts
      <3>3. Day \notin Steps
        BY <1>3 DEF Steps
      <3>4. QED
        BY <1>3, <3>2, <3>3, TensFacts
    <2> HIDE DEF start
    <2>2. Plus(start, Hour, TRUE) \in Tens /\ start < Plus(start, Hour, TRUE)
      <3>1. Plus(start, Hour, TRUE) = IF start + Hour > Day THEN Day ELSE start + Hour
        BY <1>3, <2>1 DEF Plus
      <3>2. CASE start + Hour > Day
        BY <2>1, <3>1, <3>2, TensFacts
      <3>3. CASE ~(start + Hour > Day)
        <4>1. start + Hour <= Day /\ start < start + Hour
          BY <1>3, <2>1, <3>3
        <4>2. start + Hour \in Tens
          BY <2>1, <4>1, TensFacts
        <4>3. QED
          BY <3>1, <3>3, <4>1, <4>2
      <3>4. QED
        BY <3>2, <3>3
    <2>3. SetStart(slot, t) \in {<<start, Plus(start, Hour, TRUE)>>} \cup {<<start, e>> : e \in {e \in Tens : start < e}}
      <3>1. CASE slot[2] = None \/ slot[2] <= start
        BY <3>1 DEF SetStart, start
      <3>2. CASE ~(slot[2] = None \/ slot[2] <= start)
        <4>0. slot[2] \in Tens
          BY <1>1, <3>2
        <4>1. slot[2] \in Tens /\ start < slot[2]
          <5>1. slot[2] \in Nat
            BY <4>0, TensFacts
          <5>2. QED
            BY <2>1, <3>2, <4>0, <5>1
        <4>2. QED
          BY <3>2, <4>1 DEF SetStart, start
      <3>3. QED
        BY <3>1, <3>2
    <2>4. PICK e \in Tens : SetStart(slot, t) = <<start, e>> /\ start < e
      BY <2>2, <2>3
    <2>5. e \in Steps \cup {Day}
      BY TensFacts
    <2>6. QED
      BY <2>1, <2>4, <2>5 DEF IsInterval
  <1>5. ASSUME NEW slot \in GridIntervals \cup {Off}, NEW t \in 0 .. Day PROVE IsInterval(SetEnd(slot, t))
    <2> DEFINE end == NormalEnd(t)
    <2>1. end \in Tens /\ end > 0 /\ end \in Nat /\ end <= Day
      BY RoundedFacts, TensFacts
    <2> HIDE DEF end
    <2>2. Plus(end, -Hour, FALSE) \in Steps /\ Plus(end, -Hour, FALSE) < end
      <3>1. Plus(end, -Hour, FALSE) = IF end < Hour THEN 0 ELSE end - Hour
        BY <1>3, <2>1 DEF Plus
      <3>2. CASE end < Hour
        BY <2>1, <3>1, <3>2, TensFacts
      <3>3. CASE ~(end < Hour)
        <4>1. PICK n \in 0 .. 144 : end = 10 * n
          BY <2>1 DEF Tens
        <4>2. n - 6 \in 0 .. 143 /\ end - Hour = 10 * (n - 6)
          BY <1>3, <3>3, <4>1
        <4>3. end - Hour \in Steps
          BY <4>2 DEF Steps
        <4>4. end - Hour < end
          BY <1>3, <2>1
        <4>5. QED
          BY <3>1, <3>3, <4>3, <4>4
      <3>4. QED
        BY <3>2, <3>3
    <2>3. SetEnd(slot, t) \in {<<Plus(end, -Hour, FALSE), end>>} \cup {<<b, end>> : b \in {b \in Steps : b < end}}
      <3>1. CASE slot[1] = None \/ slot[1] >= end
        BY <3>1 DEF SetEnd, end
      <3>2. CASE ~(slot[1] = None \/ slot[1] >= end)
        <4>1. slot[1] \in Steps /\ slot[1] < end
          BY <1>2, <2>1, <3>2, TensFacts
        <4>2. QED
          BY <3>2, <4>1 DEF SetEnd, end
      <3>3. QED
        BY <3>1, <3>2
    <2>4. PICK b \in Steps : SetEnd(slot, t) = <<b, end>> /\ b < end
      BY <2>2, <2>3
    <2>5. end \in Steps \cup {Day}
      BY <2>1, TensFacts
    <2>6. QED
      BY <2>4, <2>5 DEF IsInterval
  <1>6. QED
    BY <1>4, <1>5 DEF EditedSlotIsAnInterval

\* The schedules of the grid.
LEMMA ScheduleFacts ==
    ASSUME NEW s \in GridSchedules
    PROVE  /\ Len(s) \in 0 .. 4 /\ DOMAIN s = 1 .. Len(s) /\ s \in Seq(GridIntervals)
           /\ s = [i \in 1 .. Len(s) |-> s[i]] /\ \A i \in 1 .. Len(s) : s[i] \in GridIntervals
           /\ IsSchedule(s)
  <1>1. PICK n \in 0 .. 4 : s \in [1 .. n -> GridIntervals]
    BY DEF GridSchedules, NumSlots
  <1>2. QED
    BY <1>1 DEF GridSchedules

\* A schedule comes out of its block, and out of the editor's slots, as it went in
\* (BlockSaysItsSchedule).
LEMMA BlockIsItsSchedule == BlockSaysItsSchedule
  <1>1. ASSUME NEW s \in GridSchedules PROVE Readable(Encode(s)) /\ Decode(Encode(s)) = s
    <2> DEFINE raw == Encode(s)
    <2>0. /\ Len(s) \in 0 .. 4 /\ DOMAIN s = 1 .. Len(s) /\ NumSlots = 4
          /\ s = [i \in 1 .. Len(s) |-> s[i]] /\ \A i \in 1 .. Len(s) : s[i] \in GridIntervals
      BY ScheduleFacts DEF NumSlots
    <2>1. ASSUME NEW n \in 1 .. 4
          PROVE  /\ raw[2 * n - 1] = IF n > Len(s) THEN Free ELSE EncodeTime(s[n][1])
                 /\ raw[2 * n] = IF n > Len(s) THEN Free ELSE EncodeTime(s[n][2])
      <3>1. /\ 2 * n - 1 \in 1 .. 2 * NumSlots /\ 2 * n \in 1 .. 2 * NumSlots
            /\ ((2 * n - 1) + 1) \div 2 = n /\ (2 * n + 1) \div 2 = n
            /\ (2 * n - 1) % 2 = 1 /\ (2 * n) % 2 = 0
        BY <2>0
      <3>2. QED
        BY <3>1 DEF Encode
    <2> HIDE DEF raw
    <2>2. ASSUME NEW n \in 1 .. 4, n <= Len(s)
          PROVE  /\ Free \notin {raw[2 * n - 1], raw[2 * n]} /\ (raw[2 * n - 1] % 8) <= 5 /\ (raw[2 * n] % 8) <= 5
                 /\ <<DecodeTime(raw[2 * n - 1]), DecodeTime(raw[2 * n])>> = s[n] /\ IsInterval(s[n])
      <3>1. n \in 1 .. Len(s) /\ ~(n > Len(s))
        BY <2>0, <2>2
      <3>2. s[n][1] \in Tens /\ s[n][2] \in Tens /\ s[n] = <<s[n][1], s[n][2]>> /\ IsInterval(s[n])
        BY <2>0, <3>1, GridFacts
      <3>3. raw[2 * n - 1] = EncodeTime(s[n][1]) /\ raw[2 * n] = EncodeTime(s[n][2])
        BY <2>1, <3>1
      <3>4. \A t \in Tens : EncodeTime(t) # Free /\ (EncodeTime(t) % 8) <= 5 /\ DecodeTime(EncodeTime(t)) = t
        <4>1. \A b \in 0 .. Free - 1 : b # Free
          BY DEF Free
        <4>2. QED
          BY <4>1, TimeInByte
      <3>5. QED
        BY <3>2, <3>3, <3>4
    <2>3. ASSUME NEW n \in 1 .. 4, n > Len(s) PROVE raw[2 * n - 1] = Free /\ raw[2 * n] = Free
      BY <2>1, <2>3
    <2>4. Readable(raw)
      <3>1. \A n \in 1 .. 4 : n <= Len(s) \/ n > Len(s)
        BY <2>0
      <3>2. QED
        BY <2>0, <2>2, <2>3, <3>1 DEF Readable
    <2>5. UsedSlots(raw) = [n \in 1 .. Len(s) |-> n]
      <3> DEFINE numbers == [n \in 1 .. NumSlots |-> n]
                 empty   == {n \in 1 .. NumSlots : raw[2 * n - 1] = Free}
      <3>1. numbers \in Seq(1 .. 4) /\ Len(numbers) = 4 /\ \A i \in 1 .. 4 : numbers[i] = i
        BY <2>0
      <3>2. \A i \in 1 .. 4 : i \in empty <=> i > Len(s)
        <4>1. ASSUME NEW i \in 1 .. 4 PROVE raw[2 * i - 1] = Free <=> i > Len(s)
          <5>1. i <= Len(s) \/ i > Len(s)
            BY <2>0
          <5>2. i <= Len(s) => ~(i > Len(s))
            BY <2>0
          <5>3. QED
            BY <2>2, <2>3, <5>1, <5>2
        <4>2. QED
          BY <2>0, <4>1
      <3>3. UsedSlots(raw) = Without(numbers, empty)
        BY DEF UsedSlots
      <3> HIDE DEF numbers, empty
      <3>4. Without(numbers, empty) = [i \in 1 .. Len(s) |-> numbers[i]]
        <4>1. Len(s) \in 0 .. Len(numbers) /\ \A i \in 1 .. Len(numbers) : numbers[i] \in empty <=> i > Len(s)
          BY <2>0, <3>1, <3>2
        <4>2. QED
          BY <3>1, <4>1, WithoutEnd
      <3>5. \A i \in 1 .. Len(s) : i \in 1 .. 4
        BY <2>0
      <3>6. QED
        BY <3>1, <3>3, <3>4, <3>5
    <2>6. Decode(raw) = s
      <3>1. DOMAIN UsedSlots(raw) = 1 .. Len(s) /\ \A k \in 1 .. Len(s) : UsedSlots(raw)[k] = k
        BY <2>5
      <3>2. \A k \in 1 .. Len(s) : k \in 1 .. 4 /\ k <= Len(s)
        BY <2>0
      <3>3. \A k \in 1 .. Len(s) : <<DecodeTime(raw[2 * k - 1]), DecodeTime(raw[2 * k])>> = s[k]
        BY <2>2, <3>2
      <3>4. Decode(raw) = [k \in 1 .. Len(s) |-> <<DecodeTime(raw[2 * k - 1]), DecodeTime(raw[2 * k])>>]
        BY <3>1 DEF Decode
      <3>5. QED
        BY <2>0, <3>3, <3>4
    <2>7. QED
      BY <2>4, <2>6 DEF raw
  <1>2. ASSUME NEW s \in GridSchedules PROVE Writable(SlotsOf(s)) /\ ScheduleOf(SlotsOf(s)) = s
    <2> DEFINE slots == SlotsOf(s)
    <2>0. /\ Len(s) \in 0 .. 4 /\ DOMAIN s = 1 .. Len(s) /\ NumSlots = 4
          /\ s = [i \in 1 .. Len(s) |-> s[i]] /\ \A i \in 1 .. Len(s) : s[i] \in GridIntervals
          /\ IsSchedule(s)
      BY ScheduleFacts DEF NumSlots
    <2>1. /\ slots \in Seq(GridIntervals \cup {Off}) /\ Len(slots) = 4
          /\ \A n \in 1 .. 4 : slots[n] = IF n <= Len(s) THEN s[n] ELSE Off
      <3>1. \A n \in 1 .. 4 : n <= Len(s) => s[n] \in GridIntervals
        BY <2>0
      <3>2. slots = [n \in 1 .. 4 |-> IF n <= Len(s) THEN s[n] ELSE Off]
        BY <2>0 DEF SlotsOf
      <3> HIDE DEF slots
      <3>3. slots \in [1 .. 4 -> GridIntervals \cup {Off}]
        BY <3>1, <3>2
      <3>4. QED
        BY <3>2, <3>3
    <2> HIDE DEF slots
    <2>2. \A n \in 1 .. 4 : slots[n] \in {Off} <=> n > Len(s)
      <3>1. ASSUME NEW n \in 1 .. 4 PROVE slots[n] \in {Off} <=> n > Len(s)
        <4>1. n <= Len(s) <=> ~(n > Len(s))
          BY <2>0
        <4>2. n <= Len(s) => s[n] # Off
          BY <2>0, GridFacts
        <4>3. QED
          BY <2>1, <4>1, <4>2
      <3>2. QED
        BY <3>1
    <2>3. ScheduleOf(slots) = s
      <3>1. Without(slots, {Off}) = [i \in 1 .. Len(s) |-> slots[i]]
        <4>1. Len(s) \in 0 .. Len(slots) /\ \A i \in 1 .. Len(slots) : slots[i] \in {Off} <=> i > Len(s)
          BY <2>0, <2>1, <2>2
        <4>2. QED
          BY <2>1, <4>1, WithoutEnd
      <3>2. \A i \in 1 .. Len(s) : slots[i] = s[i]
        BY <2>0, <2>1
      <3>3. QED
        BY <2>0, <3>1, <3>2 DEF ScheduleOf
    <2>4. \A n \in 1 .. 4 : slots[n] = Off \/ None \notin {slots[n][1], slots[n][2]}
      <3>1. ASSUME NEW i \in GridIntervals PROVE None \notin {i[1], i[2]}
        BY GridFacts, TensFacts DEF None
      <3>2. QED
        BY <2>0, <2>1, <3>1
    <2>5. QED
      BY <2>0, <2>3, <2>4 DEF Writable, slots
  <1>3. ASSUME NEW t \in Steps \cup {Day} PROVE EncodeTime(t) \in 0 .. Free - 1 /\ DecodeTime(EncodeTime(t)) = t
    BY TensFacts, TimeInByte
  <1>4. QED
    BY <1>1, <1>2, <1>3 DEF BlockSaysItsSchedule

\* A line of slots, each of the set in it, by their starts.
Sorted(line) == \A i, j \in DOMAIN line : i < j => line[i][1] <= line[j][1]
InLine(line, S) == line \in [1 .. Cardinality(S) -> S] /\ ToSet(line) = S /\ Sorted(line)

\* A finite set of slots can be put in the order of their starts.
LEMMA SortedLine ==
    ASSUME NEW S, IsFiniteSet(S), \A o \in S : o[1] \in Nat
    PROVE  \E line : InLine(line, S)
  <1> DEFINE Held(n) == \A T \in SUBSET S : Cardinality(T) = n => \E line : InLine(line, T)
             G       == {n \in 0 .. Cardinality(S) : Held(n)}
  <1>1. /\ Cardinality(S) \in Nat
        /\ \A T \in SUBSET S : IsFiniteSet(T) /\ Cardinality(T) \in Nat
    BY FS_CardinalityType, FS_Subset
  <1>2. Held(0)
    <2>1. ASSUME NEW T \in SUBSET S, Cardinality(T) = 0 PROVE InLine(<<>>, T)
      <3>1. T = {}
        BY <1>1, <2>1, FS_EmptySet
      <3>2. <<>> \in [1 .. 0 -> T] /\ DOMAIN <<>> = {}
        OBVIOUS
      <3>3. ToSet(<<>>) = {}
        BY <3>2 DEF ToSet
      <3>4. QED
        BY <2>1, <3>1, <3>2, <3>3 DEF InLine, Sorted
    <2>2. QED
      BY <2>1
  <1>3. ASSUME NEW n \in 1 .. Cardinality(S), Held(n - 1) PROVE Held(n)
    <2> SUFFICES ASSUME NEW T \in SUBSET S, Cardinality(T) = n PROVE \E line : InLine(line, T)
      OBVIOUS
    <2>1. n \in Nat /\ n >= 1 /\ n - 1 \in Nat /\ IsFiniteSet(T)
      BY <1>1
    <2>2. PICK e \in T : \A o \in T : e[1] <= o[1]
      <3> DEFINE starts == {o[1] : o \in T}
      <3>1. starts \in SUBSET Nat
        OBVIOUS
      <3>2. starts # {}
        <4>1. T # {}
          BY <2>1, FS_EmptySet
        <4>2. QED
          BY <4>1
      <3>3. PICK least \in starts : \A s \in starts : least <= s
        <4> HIDE DEF starts
        <4>1. QED
          BY <3>1, <3>2, LeastNumber
      <3>4. QED
        BY <3>3
    <2> DEFINE rest == T \ {e}
    <2>3. rest \in SUBSET S /\ Cardinality(rest) = n - 1
      BY <2>1, FS_RemoveElement
    <2> HIDE DEF rest
    <2>4. PICK after : InLine(after, rest)
      BY <1>3, <2>3
    <2>5. /\ after \in [1 .. n - 1 -> rest] /\ DOMAIN after = 1 .. n - 1 /\ ToSet(after) = rest /\ Sorted(after)
          /\ T = {e} \cup rest
      BY <2>3, <2>4 DEF InLine, rest
    <2> DEFINE line == [i \in 1 .. n |-> IF i = 1 THEN e ELSE after[i - 1]]
    <2>6. /\ DOMAIN line = 1 .. n /\ 1 \in 1 .. n /\ line[1] = e
          /\ \A i \in 1 .. n : i # 1 => i - 1 \in 1 .. n - 1 /\ line[i] = after[i - 1]
          /\ \A i \in 1 .. n - 1 : i + 1 \in 1 .. n /\ line[i + 1] = after[i]
      BY <2>1
    <2>7. line \in [1 .. n -> T]
      <3>1. \A i \in 1 .. n : (IF i = 1 THEN e ELSE after[i - 1]) \in T
        BY <2>5, <2>6
      <3>2. QED
        BY <3>1
    <2> HIDE DEF line
    <2>8. ToSet(line) = T
      <3>1. ASSUME NEW o \in T PROVE \E i \in 1 .. n : line[i] = o
        <4>1. CASE o = e
          BY <2>6, <4>1
        <4>2. CASE o \in rest
          <5>1. PICK i \in 1 .. n - 1 : after[i] = o
            BY <2>5, <4>2 DEF ToSet
          <5>2. QED
            BY <2>6, <5>1
        <4>3. QED
          BY <2>5, <4>1, <4>2
      <3>2. QED
        BY <2>6, <2>7, <3>1 DEF ToSet
    <2>9. Sorted(line)
      <3>1. ASSUME NEW i \in 1 .. n, NEW j \in 1 .. n, i < j PROVE line[i][1] <= line[j][1]
        <4>1. CASE i = 1
          BY <2>2, <2>6, <2>7, <4>1
        <4>2. CASE i # 1
          <5>1. j # 1 /\ i - 1 < j - 1 /\ i - 1 \in 1 .. n - 1 /\ j - 1 \in 1 .. n - 1
            BY <2>1, <3>1, <4>2
          <5>2. after[i - 1][1] <= after[j - 1][1]
            BY <2>5, <5>1 DEF Sorted
          <5>3. QED
            BY <2>6, <4>2, <5>1, <5>2
        <4>3. QED
          BY <4>1, <4>2
      <3>2. QED
        BY <2>6, <3>1 DEF Sorted
    <2>10. QED
      BY <2>7, <2>8, <2>9 DEF InLine
  <1>4. Held(Cardinality(S))
    <2>1. 0 \in G /\ \A n \in 1 .. Cardinality(S) : n - 1 \in G => n \in G
      <3>1. 0 \in 0 .. Cardinality(S)
        BY <1>1
      <3>2. \A n \in 1 .. Cardinality(S) : n \in 0 .. Cardinality(S)
        BY <1>1
      <3> HIDE DEF Held
      <3>3. QED
        BY <1>2, <1>3, <3>1, <3>2
    <2> HIDE DEF G
    <2>2. \A n \in 0 .. Cardinality(S) : n \in G
      BY <1>1, <2>1, UpTo
    <2>3. Cardinality(S) \in 0 .. Cardinality(S)
      BY <1>1
    <2>4. QED
      BY <2>2, <2>3 DEF G
  <1>5. QED
    BY <1>4

\* The largest of a day's times.
LEMMA LargestTime ==
    ASSUME NEW T \in SUBSET Tens, T # {}
    PROVE  Max(T) \in T /\ \A t \in T : t <= Max(T)
  <1> DEFINE before == {Day - t : t \in T}
  <1>1. before \in SUBSET Nat /\ before # {}
    BY TensFacts DEF Day
  <1>2. PICK least \in before : \A b \in before : least <= b
    <2> HIDE DEF before
    <2>1. QED
      BY <1>1, LeastNumber
  <1>3. PICK t \in T : \A u \in T : Day - t <= Day - u
    BY <1>2
  <1>4. \A u \in T : t >= u
    BY <1>3, TensFacts DEF Day
  <1>5. Max(T) \in T /\ \A u \in T : Max(T) >= u
    BY <1>4 DEF Max
  <1>6. QED
    BY <1>5, TensFacts

\* The smallest of a set of numbers is one of them.
LEMMA SmallestMember ==
    ASSUME NEW T \in SUBSET Nat, T # {}
    PROVE  Min(T) \in T
  <1>1. PICK least \in T : \A n \in T : least <= n
    BY LeastNumber
  <1>2. QED
    BY <1>1 DEF Min

\* The slots that are on, without the one that is switched on.
Others(slots, n) == {slots[m] : m \in {m \in 1 .. NumSlots \ {n} : slots[m] # Off}}

\* The other slots, in their order.
LEMMA OccupiedFacts ==
    ASSUME NEW slots \in GridDrafts, NEW n \in 1 .. NumSlots
    PROVE  /\ Others(slots, n) \subseteq GridIntervals
           /\ \E N \in Nat : Occupied(slots, n) \in [1 .. N -> Others(slots, n)]
           /\ ToSet(Occupied(slots, n)) = Others(slots, n) /\ Sorted(Occupied(slots, n))
  <1>0. NumSlots = 4 /\ slots \in [1 .. 4 -> GridIntervals \cup {Off}]
    BY DEF NumSlots, GridDrafts
  <1> DEFINE on == Others(slots, n)
  <1>1. on \subseteq GridIntervals
    BY <1>0 DEF Others
  <1>2. on \subseteq ((({} \cup {slots[1]}) \cup {slots[2]}) \cup {slots[3]}) \cup {slots[4]}
    <2>1. ASSUME NEW m \in 1 .. 4 PROVE m = 1 \/ m = 2 \/ m = 3 \/ m = 4
      OBVIOUS
    <2>2. \A o \in on : \E m \in 1 .. 4 : o = slots[m]
      BY <1>0 DEF Others
    <2> HIDE DEF on
    <2>3. QED
      BY <2>1, <2>2
  <1> HIDE DEF on
  <1>3. IsFiniteSet(on)
    <2>1. IsFiniteSet({} \cup {slots[1]})
      BY FS_EmptySet, FS_AddElement
    <2>2. IsFiniteSet(({} \cup {slots[1]}) \cup {slots[2]})
      BY <2>1, FS_AddElement
    <2>3. IsFiniteSet((({} \cup {slots[1]}) \cup {slots[2]}) \cup {slots[3]})
      BY <2>2, FS_AddElement
    <2>4. IsFiniteSet(((({} \cup {slots[1]}) \cup {slots[2]}) \cup {slots[3]}) \cup {slots[4]})
      BY <2>3, FS_AddElement
    <2>5. QED
      BY <1>2, <2>4, FS_Subset
  <1>4. \A o \in on : o[1] \in Nat
    BY <1>1, GridFacts, TensFacts
  <1>5. PICK line : InLine(line, on)
    BY <1>3, <1>4, SortedLine
  <1>6. Occupied(slots, n) = CHOOSE l \in [1 .. Cardinality(on) -> on] :
            ToSet(l) = on /\ \A i, j \in DOMAIN l : i < j => l[i][1] <= l[j][1]
    BY DEF Occupied, on, Others
  <1>7. InLine(Occupied(slots, n), on)
    BY <1>5, <1>6 DEF InLine, Sorted
  <1>8. Cardinality(on) \in Nat
    BY <1>3, FS_CardinalityType
  <1>9. QED
    BY <1>1, <1>7, <1>8 DEF InLine, on

\* The stretches between the other slots: one before each of them and one after the
\* last.  Each starts where the slots before it have all ended, and the slots from it
\* on start no earlier than it ends.
LEMMA GapsFacts ==
    ASSUME NEW slots \in GridDrafts, NEW n \in 1 .. NumSlots
    PROVE  LET line == Occupied(slots, n)
               gaps == Gaps(line)
               N    == Len(line)
           IN  /\ N \in Nat /\ DOMAIN gaps = 1 .. N + 1 /\ gaps[N + 1][2] = Day
               /\ \A i \in 1 .. N : line[i] \in Others(slots, n)
               /\ \A o \in Others(slots, n) : \E i \in 1 .. N : line[i] = o
               /\ \A k \in 1 .. N + 1 :
                   /\ gaps[k][1] \in Tens /\ gaps[k][2] \in Tens
                   /\ \A i \in 1 .. N : i < k => line[i][2] <= gaps[k][1]
                   /\ \A i \in 1 .. N : i >= k => gaps[k][2] <= line[i][1]
                   /\ gaps[k][1] # 0 => \E i \in 1 .. N : i < k /\ gaps[k][1] = line[i][2]
                   /\ k <= N => gaps[k][2] = line[k][1]
  <1> DEFINE line == Occupied(slots, n)
             gaps == Gaps(line)
             N    == Len(line)
             Ends(k) == {0} \cup {line[i][2] : i \in 1 .. k - 1}
  <1>1. PICK M \in Nat : line \in [1 .. M -> Others(slots, n)]
    BY OccupiedFacts
  <1>2. N \in Nat /\ DOMAIN line = 1 .. N /\ \A i \in 1 .. N : line[i] \in Others(slots, n)
    BY <1>1
  <1>3. /\ \A i \in 1 .. N : line[i][1] \in Tens /\ line[i][2] \in Tens
        /\ \A o \in Others(slots, n) : \E i \in 1 .. N : line[i] = o
        /\ \A i, j \in 1 .. N : i < j => line[i][1] <= line[j][1]
    <2>1. \A i \in 1 .. N : line[i] \in GridIntervals
      BY <1>2, OccupiedFacts
    <2>2. ToSet(line) = Others(slots, n) /\ Sorted(line)
      BY OccupiedFacts
    <2> HIDE DEF line
    <2>3. \A o \in Others(slots, n) : \E i \in 1 .. N : line[i] = o
      BY <1>2, <2>2 DEF ToSet
    <2>4. \A i \in 1 .. N : line[i][1] \in Tens /\ line[i][2] \in Tens
      BY <2>1, GridFacts
    <2>5. QED
      BY <1>2, <2>2, <2>3, <2>4 DEF Sorted
  <1>4. gaps = [k \in 1 .. N + 1 |-> <<Max(Ends(k)), IF k <= N THEN line[k][1] ELSE Day>>]
    BY DEF Gaps
  <1> HIDE DEF line, gaps
  <1>5. ASSUME NEW k \in 1 .. N + 1
        PROVE  /\ gaps[k][1] = Max(Ends(k)) /\ gaps[k][2] = IF k <= N THEN line[k][1] ELSE Day
               /\ Max(Ends(k)) \in Ends(k) /\ Ends(k) \subseteq Tens /\ \A t \in Ends(k) : t <= Max(Ends(k))
    <2>1. k - 1 <= N
      BY <1>2
    <2>2. Ends(k) \in SUBSET Tens /\ Ends(k) # {}
      BY <1>2, <1>3, <2>1, TensFacts
    <2>3. gaps[k] = <<Max(Ends(k)), IF k <= N THEN line[k][1] ELSE Day>>
      BY <1>4
    <2> HIDE DEF Ends
    <2>4. QED
      BY <2>2, <2>3, LargestTime
  <1>6. ASSUME NEW k \in 1 .. N + 1
        PROVE  /\ gaps[k][1] \in Tens /\ gaps[k][2] \in Tens
               /\ \A i \in 1 .. N : i < k => line[i][2] <= gaps[k][1]
               /\ \A i \in 1 .. N : i >= k => gaps[k][2] <= line[i][1]
               /\ gaps[k][1] # 0 => \E i \in 1 .. N : i < k /\ gaps[k][1] = line[i][2]
               /\ k <= N => gaps[k][2] = line[k][1]
    <2>1. \A i \in 1 .. N : i < k <=> i \in 1 .. k - 1
      BY <1>2
    <2>2. gaps[k][1] \in Tens /\ gaps[k][2] \in Tens
      <3>1. k <= N => k \in 1 .. N
        BY <1>2
      <3>2. gaps[k][1] \in Tens
        BY <1>5
      <3>3. QED
        BY <1>3, <1>5, <3>1, <3>2, TensFacts
    <2>3. \A i \in 1 .. N : i < k => line[i][2] <= gaps[k][1]
      <3>1. \A i \in 1 .. N : i < k => line[i][2] \in Ends(k)
        BY <2>1
      <3>2. QED
        BY <1>5, <3>1
    <2>4. ASSUME NEW i \in 1 .. N, i >= k PROVE gaps[k][2] <= line[i][1]
      <3>1. k \in 1 .. N /\ k <= N /\ (i = k \/ k < i)
        BY <1>2, <2>4
      <3>2. line[k][1] \in Tens /\ line[k][1] <= line[k][1]
        BY <1>3, <3>1, TensFacts
      <3>3. line[k][1] <= line[i][1]
        BY <1>3, <3>1, <3>2
      <3>4. QED
        BY <1>5, <3>1, <3>3
    <2>5. gaps[k][1] # 0 => \E i \in 1 .. N : i < k /\ gaps[k][1] = line[i][2]
      <3>1. \A i \in 1 .. k - 1 : i \in 1 .. N /\ i < k
        BY <1>2
      <3>2. QED
        BY <1>5, <3>1
    <2>6. QED
      BY <1>5, <2>2, <2>3, <2>4, <2>5
  <1>7. DOMAIN gaps = 1 .. N + 1 /\ gaps[N + 1][2] = Day
    <2>1. N + 1 \in 1 .. N + 1 /\ ~(N + 1 <= N)
      BY <1>2
    <2>2. QED
      BY <1>4, <1>5, <2>1
  <1>8. QED
    BY <1>2, <1>3, <1>6, <1>7 DEF line, gaps

\* If no stretch between the slots is open, they fill the day.
LEMMA FullDay ==
    ASSUME NEW slots \in GridDrafts, NEW n \in 1 .. NumSlots, NEW t \in Steps,
           \A k \in DOMAIN Gaps(Occupied(slots, n)) :
               ~(Gaps(Occupied(slots, n))[k][1] < Gaps(Occupied(slots, n))[k][2])
    PROVE  \E o \in Others(slots, n) : o[1] <= t /\ t < o[2]
  <1> DEFINE line == Occupied(slots, n)
             gaps == Gaps(line)
             N    == Len(line)
             After == {k \in 1 .. N + 1 : t < gaps[k][2]}
  <1>1. /\ N \in Nat /\ DOMAIN gaps = 1 .. N + 1 /\ gaps[N + 1][2] = Day
        /\ \A i \in 1 .. N : line[i] \in Others(slots, n)
    BY GapsFacts
  <1>2. \A k \in 1 .. N + 1 :
           /\ gaps[k][1] \in Tens /\ gaps[k][2] \in Tens
           /\ gaps[k][1] # 0 => \E i \in 1 .. N : i < k /\ gaps[k][1] = line[i][2]
           /\ k <= N => gaps[k][2] = line[k][1]
    BY GapsFacts
  <1>3. \A k \in 1 .. N + 1 : ~(gaps[k][1] < gaps[k][2])
    BY <1>1
  <1> HIDE DEF line, gaps
  <1>4. t \in Nat /\ t < Day /\ N + 1 \in 1 .. N + 1
    BY <1>1, TensFacts
  <1>5. PICK k \in After : \A j \in After : k <= j
    <2>1. After \in SUBSET Nat /\ After # {}
      BY <1>1, <1>4
    <2> HIDE DEF After
    <2>2. QED
      BY <2>1, LeastNumber
  <1>6. k \in 1 .. N + 1 /\ t < gaps[k][2] /\ k \in Nat
    BY <1>5
  <1>7. gaps[k][1] # 0 /\ t < gaps[k][1]
    <2>1. gaps[k][1] \in Nat /\ gaps[k][2] \in Nat
      BY <1>2, <1>6, TensFacts
    <2>2. QED
      BY <1>3, <1>4, <1>6, <2>1
  <1>8. PICK i \in 1 .. N : i < k /\ gaps[k][1] = line[i][2]
    BY <1>2, <1>6, <1>7
  <1>9. i \in 1 .. N + 1 /\ i <= N /\ i \notin After
    <2>1. i \in 1 .. N + 1 /\ i <= N /\ ~(k <= i)
      BY <1>1, <1>6, <1>8
    <2> HIDE DEF After
    <2>2. QED
      BY <1>5, <2>1
  <1>10. line[i][1] <= t
    <2>1. gaps[i][2] = line[i][1] /\ gaps[i][2] \in Nat
      BY <1>2, <1>9, TensFacts
    <2>2. ~(t < gaps[i][2])
      BY <1>9
    <2>3. QED
      BY <1>4, <2>1, <2>2
  <1>11. QED
    BY <1>1, <1>7, <1>8, <1>10

\* A slot that is switched on lies in a stretch between the others; there is one unless
\* they fill the day (DefaultIntervalIsFree).
LEMMA DefaultIsFree == DefaultIntervalIsFree
  <1> SUFFICES ASSUME NEW slots \in GridDrafts, NEW n \in 1 .. NumSlots
               PROVE  IF DefaultInterval(slots, n) = Off
                      THEN \A t \in Grid \cap Steps : \E o \in Others(slots, n) : o[1] <= t /\ t < o[2]
                      ELSE /\ IsInterval(DefaultInterval(slots, n))
                           /\ \A o \in Others(slots, n) : ~Overlap(DefaultInterval(slots, n), o)
    BY DEF DefaultIntervalIsFree, Others
  <1> DEFINE preferred == IF n > 1 /\ slots[n - 1] # Off THEN slots[n - 1][2] ELSE 6 * Hour
             gaps  == Gaps(Occupied(slots, n))
             room  == {k \in DOMAIN gaps : gaps[k][1] < gaps[k][2]}
             later == {k \in room : preferred < gaps[k][2]}
             From(k) == IF later # {} /\ preferred > gaps[k][1] THEN preferred ELSE gaps[k][1]
             from  == [k \in room |-> From(k)]
             open  == IF later # {} THEN later ELSE room
             fits  == {k \in open : gaps[k][2] - from[k] >= 10}
             first == Min(fits)
             until == IF from[first] + Hour < gaps[first][2] THEN from[first] + Hour ELSE gaps[first][2]
             line  == Occupied(slots, n)
             N     == Len(line)
  <1>1. /\ N \in Nat /\ DOMAIN gaps = 1 .. N + 1
        /\ \A o \in Others(slots, n) : \E i \in 1 .. N : line[i] = o
        /\ \A k \in 1 .. N + 1 :
            /\ gaps[k][1] \in Tens /\ gaps[k][2] \in Tens
            /\ \A i \in 1 .. N : i < k => line[i][2] <= gaps[k][1]
            /\ \A i \in 1 .. N : i >= k => gaps[k][2] <= line[i][1]
    BY GapsFacts
  <1>2. DefaultInterval(slots, n) = IF fits = {} THEN Off ELSE <<from[first], until>>
    BY DEF DefaultInterval
  <1>3. preferred \in Tens
    <2>1. n \in 1 .. 4 /\ slots \in [1 .. 4 -> GridIntervals \cup {Off}]
      BY DEF NumSlots, GridDrafts
    <2>2. n > 1 => n - 1 \in 1 .. 4
      BY <2>1
    <2>3. n > 1 /\ slots[n - 1] # Off => slots[n - 1] \in GridIntervals
      BY <2>1, <2>2
    <2>4. QED
      BY <2>3, GridFacts, TensFacts
  <1> HIDE DEF preferred, gaps, line, N
  <1>4. ASSUME NEW k \in open
        PROVE  /\ k \in 1 .. N + 1 /\ k \in room /\ gaps[k][1] < gaps[k][2] /\ from[k] = From(k)
               /\ From(k) \in Tens /\ gaps[k][1] <= From(k) /\ From(k) < gaps[k][2]
    <2>1. k \in 1 .. N + 1 /\ k \in room /\ gaps[k][1] < gaps[k][2] /\ (later # {} => preferred < gaps[k][2])
      BY <1>1
    <2>2. from[k] = From(k)
      BY <2>1
    <2>3. gaps[k][1] \in Tens /\ gaps[k][1] \in Nat /\ preferred \in Nat
      BY <1>1, <1>3, <2>1, TensFacts
    <2> HIDE DEF later, room, from
    <2>4. QED
      BY <1>3, <2>1, <2>2, <2>3
  <1>5. fits = open
    <2>1. ASSUME NEW k \in open PROVE gaps[k][2] - from[k] >= 10
      <3>1. gaps[k][2] \in Tens
        BY <1>1, <1>4
      <3>2. from[k] \in Tens /\ from[k] < gaps[k][2]
        BY <1>4
      <3>3. QED
        BY <3>1, <3>2, TensFacts
    <2>2. QED
      BY <2>1
  <1>6. CASE fits = {}
    <2>1. room = {}
      BY <1>5, <1>6
    <2>2. \A k \in DOMAIN gaps : ~(gaps[k][1] < gaps[k][2])
      BY <2>1
    <2>3. \A t \in Steps : \E o \in Others(slots, n) : o[1] <= t /\ t < o[2]
      BY <2>2, FullDay DEF gaps
    <2>4. QED
      BY <1>2, <1>6, <2>3
  <1>7. CASE fits # {}
    <2>1. first \in open
      <3>1. fits \in SUBSET Nat
        BY <1>1, <1>4, <1>5
      <3>2. first \in fits
        <4> HIDE DEF fits
        <4>1. QED
          BY <1>7, <3>1, SmallestMember
      <3>3. QED
        BY <1>5, <3>2
    <2> DEFINE k == first
               b == from[k]
    <2>2. /\ k \in 1 .. N + 1 /\ b \in Tens /\ gaps[k][1] <= b /\ b < gaps[k][2]
          /\ gaps[k][1] \in Tens /\ gaps[k][2] \in Tens
      BY <1>1, <1>4, <2>1
    <2>3. DefaultInterval(slots, n) = <<b, until>> /\ until = IF b + Hour < gaps[k][2] THEN b + Hour ELSE gaps[k][2]
      BY <1>2, <1>7
    <2> HIDE DEF k, until, fits, from, open
    <2> HIDE DEF b
    <2>4. b \in Steps /\ b \in Nat /\ until \in Tens /\ b < until /\ until <= gaps[k][2]
      <3>1. b \in Steps /\ b \in Nat /\ gaps[k][2] \in Nat /\ gaps[k][2] <= Day
        BY <2>2, TensFacts
      <3>2. CASE b + Hour < gaps[k][2]
        <4>1. b + Hour <= Day /\ b < b + Hour /\ b + Hour <= gaps[k][2]
          BY <3>1, <3>2 DEF Hour, Day
        <4>2. b + Hour \in Tens
          BY <2>2, <4>1, TensFacts
        <4>3. QED
          BY <2>3, <3>1, <3>2, <4>1, <4>2
      <3>3. CASE ~(b + Hour < gaps[k][2])
        BY <2>2, <2>3, <3>1, <3>3
      <3>4. QED
        BY <3>2, <3>3
    <2>5. <<b, until>> # Off
      BY <2>4 DEF Off, None
    <2>6. IsInterval(<<b, until>>)
      <3>1. until \in Steps \cup {Day}
        BY <2>4, TensFacts
      <3>2. QED
        BY <2>4, <3>1 DEF IsInterval
    <2>7. ASSUME NEW o \in Others(slots, n) PROVE ~Overlap(<<b, until>>, o)
      <3>1. PICK i \in 1 .. N : line[i] = o
        BY <1>1
      <3>2. o[1] \in Nat /\ o[2] \in Nat /\ gaps[k][1] \in Nat /\ gaps[k][2] \in Nat /\ until \in Nat
        BY <2>2, <2>4, OccupiedFacts, GridFacts, TensFacts
      <3>3. CASE i < k
        <4>1. o[2] <= gaps[k][1]
          BY <1>1, <2>2, <3>1, <3>3
        <4>2. ~(b < o[2])
          BY <2>2, <2>4, <3>2, <4>1
        <4>3. QED
          BY <4>2 DEF Overlap
      <3>4. CASE i >= k
        <4>1. gaps[k][2] <= o[1]
          BY <1>1, <2>2, <3>1, <3>4
        <4>2. ~(o[1] < until)
          BY <2>4, <3>2, <4>1
        <4>3. QED
          BY <4>2 DEF Overlap
      <3>5. i < k \/ i >= k
        BY <1>1, <2>2
      <3>6. QED
        BY <3>3, <3>4, <3>5
    <2>8. QED
      BY <2>3, <2>5, <2>6, <2>7
  <1>8. QED
    BY <1>6, <1>7

-----------------------------------------------------------------------------
\* What the editor shows as loaded or applied is the block of the day, and its
\* arithmetic gives slots that the controller can keep and that do not overlap, and
\* loses nothing on the way into the block and back: for every grid of times
\* (EditorInv).
THEOREM EditorIsTrue ==
    Spec => []EditorInv
  <1>1. ScheduleInv => EditorShowsController
    BY DEF ScheduleInv, InHand, Shown, Idle, EditorShowsController
  <1>2. EditorArithmetic
    BY BlockIsItsSchedule, EditedIsInterval, DefaultIsFree DEF EditorArithmetic
  <1>3. ScheduleInv => EditorInv
    BY <1>1, <1>2 DEF EditorInv
  <1>4. QED
    BY <1>3, ScheduleSpecInv, PTL
=============================================================================
