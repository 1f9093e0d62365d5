----------------------- MODULE ServiceProgramsProofs ------------------------
(***************************************************************************)
(* Proofs about the service programs: what is reported is true, the        *)
(* switches show the last mode, and an OFF ends no program but its own.    *)
(***************************************************************************)
EXTENDS ServicePrograms, QueueLemmas

-----------------------------------------------------------------------------
\* What an answer tells: whose it is, what a read says, and what it does to the
\* controller.
LEMMA ServeFacts ==
    ASSUME LinkTypeOK, NEW a, NEW b \in BOOLEAN, NEW v \in Values, Serve(Reply(a, b, v))
    PROVE  /\ link # <<>> /\ link' = Tail(link) /\ LinkTypeOK'
           /\ Head(link) \in LinkRequests /\ a = Head(link).addr
           /\ \/ ctl' = ctl
              \/ Head(link).op = "w" /\ ctl' = [ctl EXCEPT ![Head(link).addr] = Head(link).val]
           /\ Head(link).op = "r" => ctl' = ctl /\ (b => v = ctl[a])
  <1>0. LinkAssumption /\ link # <<>> /\ link' = Tail(link)
    BY LinkAssumption DEF Serve
  <1>1. link \in Seq(LinkRequests) /\ ctl \in [Datapoints -> Values] /\ faults \in 0 .. MaxFaults
    BY DEF LinkTypeOK
  <1>2. PICK r \in LinkRequests : r = Head(link)
    BY <1>0, <1>1, QueueEnds
  <1>3. r.addr \in Datapoints /\ r.val \in Values /\ r.op \in {"r", "w"}
    BY DEF LinkRequests
  <1>4. Applied(r) = ctl \/ (r.op = "w" /\ Applied(r) = [ctl EXCEPT ![r.addr] = r.val])
    BY <1>1, <1>3 DEF Applied
  <1>5. Applied(r) \in [Datapoints -> Values] /\ (r.op = "r" => Applied(r) = ctl)
    BY <1>1, <1>3, <1>4 DEF Applied
  <1>6. /\ Reply(a, b, v).addr = a /\ Reply(a, b, v).ok = b /\ Reply(a, b, v).val = v
        /\ Failure(r).addr = r.addr /\ Failure(r).ok = FALSE
    BY DEF Reply, Failure
  <1>7. \/ Reply(a, b, v) \in Successes(r) /\ ctl' = Applied(r) /\ UNCHANGED faults
        \/ Reply(a, b, v) \in Successes(r) /\ r.op = "w" /\ UNCHANGED ctl /\ Fault
        \/ Reply(a, b, v) = Failure(r) /\ ctl' \in {ctl, Applied(r)} /\ Fault
    BY <1>2 DEF Serve
  <1>8. Reply(a, b, v) \in Successes(r) => a = r.addr /\ (r.op = "r" => v = ctl[r.addr])
    BY <1>3, <1>6 DEF Successes, Reply
  <1>9. Reply(a, b, v) = Failure(r) => a = r.addr /\ b = FALSE
    BY <1>6
  <1>10. ctl' \in {ctl, Applied(r)} /\ faults' \in 0 .. MaxFaults
    BY <1>0, <1>1, <1>7 DEF Fault, LinkAssumption
  <1>11. LinkTypeOK'
    BY <1>0, <1>1, <1>5, <1>10, QueueEnds DEF LinkTypeOK
  <1>12. QED
    BY <1>0, <1>2, <1>4, <1>7, <1>8, <1>9, <1>11

\* A lost request was carried out or not.
LEMMA LoseFacts ==
    ASSUME LinkTypeOK, Lose
    PROVE  /\ link # <<>> /\ link' = Tail(link) /\ LinkTypeOK'
           /\ Head(link) \in LinkRequests
           /\ \/ ctl' = ctl
              \/ Head(link).op = "w" /\ ctl' = [ctl EXCEPT ![Head(link).addr] = Head(link).val]
  <1>0. LinkAssumption /\ link # <<>> /\ link' = Tail(link)
    BY LinkAssumption DEF Lose
  <1>1. link \in Seq(LinkRequests) /\ ctl \in [Datapoints -> Values] /\ faults \in 0 .. MaxFaults
    BY DEF LinkTypeOK
  <1>2. PICK r \in LinkRequests : r = Head(link)
    BY <1>0, <1>1, QueueEnds
  <1>3. r.addr \in Datapoints /\ r.val \in Values /\ r.op \in {"r", "w"}
    BY DEF LinkRequests
  <1>4. Applied(r) = ctl \/ (r.op = "w" /\ Applied(r) = [ctl EXCEPT ![r.addr] = r.val])
    BY <1>1, <1>3 DEF Applied
  <1>5. Applied(r) \in [Datapoints -> Values]
    BY <1>1, <1>3, <1>4 DEF Applied
  <1>6. ctl' \in {ctl, Applied(r)} /\ faults' \in 0 .. MaxFaults
    BY <1>0, <1>1, <1>2 DEF Lose, Fault, LinkAssumption
  <1>7. LinkTypeOK'
    BY <1>0, <1>1, <1>5, <1>6, QueueEnds DEF LinkTypeOK
  <1>8. QED
    BY <1>0, <1>2, <1>4, <1>6, <1>7
-----------------------------------------------------------------------------
\* The service programs.  The request whose answer the thread waits for:
ProgramAsks ==
    IF pc = "write" THEN WriteOf(Register, target)
    ELSE IF pc = "restore" THEN WriteOf(Register, old)
    ELSE ReadOf(Register)

ProgramTypes ==
    /\ LinkTypeOK
    /\ pc \in Waiting \cup {"loop", "transition", "settle", "rollback", "resettle", "venting", "filling",
                                     "status", "error", "after", "down"}
    /\ actions \in Seq(Commands) /\ Len(actions) <= QueueSize
    /\ job \in Commands \cup {NoJob}
    /\ mode \in Values /\ target \in Values /\ old \in Values
    /\ tries \in 0 .. 2
    /\ lastMode \in Values \cup {Unknown}
    /\ switches \subseteq Kinds
    /\ commands \in 0 .. MaxCommands /\ moves \in 0 .. MaxMoves
ProgramFlags == moved \in BOOLEAN /\ late \in BOOLEAN /\ restored \in BOOLEAN /\ cut \in BOOLEAN

\* The newest request is the thread's own, as long as it waits; whatever is older would
\* be answered before.
OwnIsNewest == pc \in Waiting /\ link # <<>> => link[Len(link)] = ProgramAsks

\* Only a command writes; a restore that was read back is the last of it.
CommandsWrite ==
    /\ pc \in {"loop", "poll"} => job = NoJob
    /\ restored => pc \notin {"current", "transition", "write", "settle", "readback", "rollback", "restore", "resettle", "verify"}

\* A reported success is there with nothing under way; so is a restored mode, under which
\* there are reads at the most.
Reported ==
    ~moved /\ ~late =>
        /\ pc = "venting" /\ job # NoJob => link = <<>> /\ Mode = mode
        /\ restored => Mode = old /\ \A i \in 1 .. Len(link) : link[i].op = "r"

\* Until the write arrives the mode is the one that was read.
Writes ==
    pc \in {"transition", "write"} /\ ~moved /\ ~late =>
        /\ pc = "transition" => link = <<>>
        /\ link = <<>> \/ Len(link) = 1
        /\ pc = "transition" \/ link # <<>> => Mode = old
        /\ ~job.on => old = ModeOf(job.kind)

\* The switches show the last mode between publications, and in one those that were
\* already published show its mode.
Shows ==
    ~cut =>
        /\ pc \notin {"filling", "status", "down"} /\ lastMode # Unknown =>
               \A k \in Kinds : k \in switches <=> ModeOf(k) = lastMode
        /\ pc \in {"filling", "status"} => ("venting" \in switches <=> ModeOf("venting") = mode)
        /\ pc = "status" => ("filling" \in switches <=> ModeOf("filling") = mode)

ProgramsInv == ProgramTypes /\ ProgramFlags /\ OwnIsNewest /\ CommandsWrite /\ Reported /\ Writes /\ Shows

\* A switch, the other one, the status.
LEMMA ProgramPublishState ==
    ASSUME ProgramsInv, PublishState
    PROVE  ProgramsInv'
  <1>0. /\ ProgramTypes /\ ProgramFlags /\ OwnIsNewest /\ CommandsWrite /\ Reported /\ Writes /\ Shows
        /\ ServiceAssumption /\ LinkAssumption
    BY ServiceAssumption, LinkAssumption DEF ProgramsInv
  <1>1. ProgramTypes'
    BY <1>0 DEF ProgramTypes, PublishState, Show, Finished, Kinds, linkVars, work, count, LinkTypeOK
  <1>2. ProgramFlags'
    BY <1>0 DEF ProgramFlags, PublishState, seen
  <1>3. OwnIsNewest'
    BY <1>0 DEF OwnIsNewest, PublishState, Finished, Waiting
  <1>4. CommandsWrite'
    BY <1>0 DEF CommandsWrite, PublishState, Finished, work
  <1>5. Reported'
    BY <1>0 DEF Reported, PublishState, Finished, linkVars, work, seen, Mode
  <1>6. Writes'
    BY <1>0 DEF Writes, PublishState, Finished
  <1>7. Shows'
    BY <1>0 DEF Shows, PublishState, Show, Kinds, work, seen
  <1>8. QED
    BY <1>1, <1>2, <1>3, <1>4, <1>5, <1>6, <1>7 DEF ProgramsInv

\* A publication is cut.
LEMMA ProgramPublishFails ==
    ASSUME ProgramsInv, PublishFails
    PROVE  ProgramsInv'
  <1>0. /\ ProgramTypes /\ ProgramFlags /\ OwnIsNewest /\ CommandsWrite /\ Reported /\ Writes /\ Shows
        /\ ServiceAssumption /\ LinkAssumption
    BY ServiceAssumption, LinkAssumption DEF ProgramsInv
  <1>1. ProgramTypes'
    BY <1>0 DEF ProgramTypes, PublishFails, Fault, work, count, LinkTypeOK
  <1>2. ProgramFlags'
    BY <1>0 DEF ProgramFlags, PublishFails
  <1>3. OwnIsNewest'
    BY <1>0 DEF OwnIsNewest, PublishFails, Waiting
  <1>4. CommandsWrite'
    BY <1>0 DEF CommandsWrite, PublishFails
  <1>5. Reported'
    BY <1>0 DEF Reported, PublishFails, work, Mode
  <1>6. Writes'
    BY <1>0 DEF Writes, PublishFails
  <1>7. Shows'
    BY <1>0 DEF Shows, PublishFails
  <1>8. QED
    BY <1>1, <1>2, <1>3, <1>4, <1>5, <1>6, <1>7 DEF ProgramsInv

\* The error is published, or the service ends.
LEMMA ProgramPublishError ==
    ASSUME ProgramsInv, PublishError
    PROVE  ProgramsInv'
  <1>0. /\ ProgramTypes /\ ProgramFlags /\ OwnIsNewest /\ CommandsWrite /\ Reported /\ Writes /\ Shows
        /\ ServiceAssumption /\ LinkAssumption
    BY ServiceAssumption, LinkAssumption DEF ProgramsInv
  <1>1. ProgramTypes'
    <2>1. /\ UNCHANGED <<link, ctl, job, mode, target, old, tries, lastMode, switches, commands, moves>>
          /\ faults' = faults \/ (faults < MaxFaults /\ faults' = faults + 1)
          /\ pc' \in {"loop", "after", "down"}
          /\ actions' = actions \/ actions' = <<>>
      BY DEF PublishError, Finished, Fault, work, count
    <2>2. faults' \in 0 .. MaxFaults
      BY <1>0, <2>1 DEF ProgramTypes, LinkTypeOK, LinkAssumption
    <2>3. <<>> \in Seq(Commands) /\ Len(<<>>) <= QueueSize
      BY <1>0, ServiceAssumption DEF ServiceAssumption
    <2>4. actions' \in Seq(Commands) /\ Len(actions') <= QueueSize
      BY <1>0, <2>1, <2>3 DEF ProgramTypes
    <2>5. QED
      BY <1>0, <2>1, <2>2, <2>4 DEF ProgramTypes, LinkTypeOK
  <1>2. ProgramFlags'
    BY <1>0 DEF ProgramFlags, PublishError, seen
  <1>3. OwnIsNewest'
    BY <1>0 DEF OwnIsNewest, PublishError, Finished, Waiting
  <1>4. CommandsWrite'
    BY <1>0 DEF CommandsWrite, PublishError, Finished, work
  <1>5. Reported'
    BY <1>0 DEF Reported, PublishError, Finished, work, seen, Mode
  <1>6. Writes'
    BY <1>0 DEF Writes, PublishError, Finished
  <1>7. Shows'
    BY <1>0 DEF Shows, PublishError, Finished, seen
  <1>8. QED
    BY <1>1, <1>2, <1>3, <1>4, <1>5, <1>6, <1>7 DEF ProgramsInv

\* A kill.
LEMMA ProgramKill ==
    ASSUME ProgramsInv, Kill
    PROVE  ProgramsInv'
  <1>0. /\ ProgramTypes /\ ProgramFlags /\ OwnIsNewest /\ CommandsWrite /\ Reported /\ Writes /\ Shows
        /\ ServiceAssumption /\ LinkAssumption
    BY ServiceAssumption, LinkAssumption DEF ProgramsInv
  <1>1. ProgramTypes'
    BY <1>0 DEF ProgramTypes, Kill, Fault, work, count, LinkTypeOK
  <1>2. ProgramFlags'
    BY <1>0 DEF ProgramFlags, Kill, seen
  <1>3. OwnIsNewest'
    BY <1>0 DEF OwnIsNewest, Kill, Waiting
  <1>4. CommandsWrite'
    BY <1>0 DEF CommandsWrite, Kill
  <1>5. Reported'
    BY <1>0 DEF Reported, Kill, work, seen, Mode
  <1>6. Writes'
    BY <1>0 DEF Writes, Kill
  <1>7. Shows'
    BY <1>0 DEF Shows, Kill
  <1>8. QED
    BY <1>1, <1>2, <1>3, <1>4, <1>5, <1>6, <1>7 DEF ProgramsInv

\* A restart.
LEMMA ProgramRestart ==
    ASSUME ProgramsInv, Restart
    PROVE  ProgramsInv'
  <1>0. /\ ProgramTypes /\ ProgramFlags /\ OwnIsNewest /\ CommandsWrite /\ Reported /\ Writes /\ Shows
        /\ ServiceAssumption /\ LinkAssumption
    BY ServiceAssumption, LinkAssumption DEF ProgramsInv
  <1>1. ProgramTypes'
    BY <1>0 DEF ProgramTypes, Restart, linkVars, count, LinkTypeOK
  <1>2. ProgramFlags'
    BY <1>0 DEF ProgramFlags, Restart, seen
  <1>3. OwnIsNewest'
    BY <1>0 DEF OwnIsNewest, Restart, Waiting
  <1>4. CommandsWrite'
    BY <1>0 DEF CommandsWrite, Restart
  <1>5. Reported'
    BY <1>0 DEF Reported, Restart, linkVars, seen, Mode
  <1>6. Writes'
    BY <1>0 DEF Writes, Restart
  <1>7. Shows'
    BY <1>0 DEF Shows, Restart
  <1>8. QED
    BY <1>1, <1>2, <1>3, <1>4, <1>5, <1>6, <1>7 DEF ProgramsInv

\* A command arrives.
LEMMA ProgramCommand ==
    ASSUME ProgramsInv, NEW c \in Commands, Command(c)
    PROVE  ProgramsInv'
  <1>0. /\ ProgramTypes /\ ProgramFlags /\ OwnIsNewest /\ CommandsWrite /\ Reported /\ Writes /\ Shows
        /\ ServiceAssumption /\ LinkAssumption
    BY ServiceAssumption, LinkAssumption DEF ProgramsInv
  <1>1. ProgramTypes'
    BY <1>0 DEF ProgramTypes, Command, linkVars, work, LinkTypeOK
  <1>2. ProgramFlags'
    BY <1>0 DEF ProgramFlags, Command, seen
  <1>3. OwnIsNewest'
    BY <1>0 DEF OwnIsNewest, Command, linkVars, work, ProgramAsks
  <1>4. CommandsWrite'
    BY <1>0 DEF CommandsWrite, Command, work, seen
  <1>5. Reported'
    BY <1>0 DEF Reported, Command, linkVars, work, seen, Mode
  <1>6. Writes'
    BY <1>0 DEF Writes, Command, linkVars, work, seen, Mode
  <1>7. Shows'
    BY <1>0 DEF Shows, Command, work, seen
  <1>8. QED
    BY <1>1, <1>2, <1>3, <1>4, <1>5, <1>6, <1>7 DEF ProgramsInv

\* The mode moves by itself.
LEMMA ProgramMove ==
    ASSUME ProgramsInv, NEW m \in Values, Move(m)
    PROVE  ProgramsInv'
  <1>0. /\ ProgramTypes /\ ProgramFlags /\ OwnIsNewest /\ CommandsWrite /\ Reported /\ Writes /\ Shows
        /\ ServiceAssumption /\ LinkAssumption
    BY ServiceAssumption, LinkAssumption DEF ProgramsInv
  <1>1. ProgramTypes'
    BY <1>0 DEF ProgramTypes, Move, work, LinkTypeOK
  <1>2. ProgramFlags'
    BY <1>0 DEF ProgramFlags, Move
  <1>3. OwnIsNewest'
    BY <1>0 DEF OwnIsNewest, Move, work, ProgramAsks
  <1>4. CommandsWrite'
    BY <1>0 DEF CommandsWrite, Move, work
  <1>5. Reported'
    BY <1>0 DEF Reported, Move
  <1>6. Writes'
    BY <1>0 DEF Writes, Move
  <1>7. Shows'
    BY <1>0 DEF Shows, Move, work
  <1>8. QED
    BY <1>1, <1>2, <1>3, <1>4, <1>5, <1>6, <1>7 DEF ProgramsInv

\* The thread's requests.
LEMMA ProgramRequests ==
    ASSUME ProgramTypes
    PROVE  /\ ReadOf(Register) \in LinkRequests
           /\ ReadOf(Register).op = "r"
           /\ WriteOf(Register, target) \in LinkRequests
           /\ WriteOf(Register, old) \in LinkRequests
  BY LinkAssumption, ServiceAssumption DEF ProgramTypes, ReadOf, WriteOf, LinkRequests

\* A request is the newest of the link.
LEMMA ProgramSend ==
    ASSUME ProgramTypes, NEW from, NEW to, NEW r \in LinkRequests, Send(from, to, r)
    PROVE  /\ pc = from /\ pc' = to /\ UNCHANGED <<ctl, faults, lastMode, switches, commands, moves, cut>>
           /\ LinkTypeOK'
           /\ link' # <<>> /\ link'[Len(link')] = r
           /\ link = <<>> => Len(link') = 1
           /\ (\A i \in 1 .. Len(link) : link[i].op = "r") /\ r.op = "r" => \A i \in 1 .. Len(link') : link'[i].op = "r"
  <1>1. /\ pc = from /\ pc' = to /\ link' = Append(link, r)
        /\ UNCHANGED <<ctl, faults, lastMode, switches, commands, moves, cut>>
    BY DEF Send, count
  <1>2. link \in Seq(LinkRequests)
    BY DEF ProgramTypes, LinkTypeOK
  <1>3. /\ link' \in Seq(LinkRequests) /\ link' # <<>> /\ link'[Len(link')] = r
        /\ \A i \in 1 .. Len(link') : (i \in 1 .. Len(link) /\ link'[i] = link[i]) \/ link'[i] = r
    BY <1>1, <1>2, QueueNewest
  <1>4. link = <<>> => Len(link') = 1
    BY <1>1
  <1>5. LinkTypeOK'
    BY <1>1, <1>3 DEF ProgramTypes, LinkTypeOK
  <1>6. QED
    BY <1>1, <1>3, <1>4, <1>5

\* What an answer tells the thread.
LEMMA ProgramServe ==
    ASSUME ProgramTypes, OwnIsNewest, NEW b \in BOOLEAN, NEW v \in Values,
           Serve(Reply(Register, b, v))
    PROVE  /\ link # <<>> /\ link' = Tail(link) /\ LinkTypeOK'
           /\ Head(link).op = "r" => ctl' = ctl /\ (b => v = Mode)
           /\ link' # <<>> => link'[Len(link')] = link[Len(link)]
           /\ link' = <<>> => Len(link) = 1 /\ Head(link) = link[Len(link)]
           /\ (\A i \in 1 .. Len(link) : link[i].op = "r") => ctl' = ctl /\ \A i \in 1 .. Len(link') : link'[i].op = "r"
  <1>1. LinkTypeOK /\ Serve(Reply(Register, b, v))
    BY DEF ProgramTypes
  <1>2. /\ link # <<>> /\ link' = Tail(link) /\ LinkTypeOK'
        /\ Register = Head(link).addr
        /\ Head(link).op = "r" => ctl' = ctl /\ (b => v = ctl[Register])
    BY <1>1, ServeFacts
  <1>3. link \in Seq(LinkRequests)
    BY <1>1 DEF LinkTypeOK
  <1>4. /\ link' # <<>> => link'[Len(link')] = link[Len(link)]
        /\ link' = <<>> => Len(link) = 1 /\ Head(link) = link[Len(link)]
        /\ \A i \in 1 .. Len(link') : i + 1 \in 1 .. Len(link) /\ link'[i] = link[i + 1]
        /\ 1 \in 1 .. Len(link) /\ Head(link) = link[1]
    BY <1>2, <1>3, QueueEnds
  <1>5. LinkTypeOK'
    BY <1>2 DEF LinkTypeOK, LinkRequests
  <1>6. QED
    BY <1>2, <1>4, <1>5 DEF Mode

\* What the thread makes of an answer, or of none; an answer that nothing older can be is
\* its own.
LEMMA ProgramHear ==
    ASSUME ProgramsInv, pc \in Waiting, NEW b \in BOOLEAN, NEW v \in Values,
           Hear(Reply(Register, b, v)),
           UNCHANGED <<actions, lastMode, switches, commands, moves, moved, cut>>,
           LinkTypeOK', late' \in BOOLEAN, late => late',
           ~late' /\ b => link' = <<>> /\ (ProgramAsks.op = "r" => ctl' = ctl /\ v = Mode),
           (\A i \in 1 .. Len(link) : link[i].op = "r") => ctl' = ctl /\ \A i \in 1 .. Len(link') : link'[i].op = "r"
    PROVE  ProgramsInv'
  <1>0. /\ ProgramTypes /\ ProgramFlags /\ OwnIsNewest /\ CommandsWrite /\ Reported /\ Writes /\ Shows
        /\ ServiceAssumption
    BY ServiceAssumption DEF ProgramsInv
  <1> DEFINE goal == IF job.on THEN ModeOf(job.kind) ELSE Off
  <1>1. Reply(Register, b, v).ok = b /\ Reply(Register, b, v).val = v
    BY DEF Reply
  <1>2. goal \in Values
    BY <1>0, ServiceAssumption DEF ServiceAssumption, ModeOf, Off
  <1>3. job' = job
    BY DEF Hear
  <1>4. CASE pc = "current"
    <2>1. /\ restored' = restored /\ tries' = 0
          /\ \/ ~b /\ pc' = "error" /\ UNCHANGED <<mode, target, old>>
             \/ b /\ pc' = "venting" /\ mode' = v /\ UNCHANGED <<target, old>>
             \/ /\ b /\ pc' = "transition" /\ target' = goal /\ old' = v /\ UNCHANGED mode
                /\ ~job.on => v = ModeOf(job.kind)
      BY <1>1, <1>4 DEF Hear, CurrentRead, ToPublish
    <2>2. ~restored /\ ProgramAsks.op = "r"
      BY <1>0, <1>4 DEF CommandsWrite, ProgramAsks, ReadOf
    <2>3. ProgramTypes'
      BY <1>0, <1>2, <1>3, <2>1 DEF ProgramTypes
    <2>4. ProgramFlags'
      BY <1>0, <2>1 DEF ProgramFlags
    <2>5. OwnIsNewest' /\ CommandsWrite'
      BY <2>1, <2>2 DEF OwnIsNewest, CommandsWrite, Waiting
    <2>6. Reported'
      BY <2>1, <2>2 DEF Reported, Mode
    <2>7. Writes'
      BY <1>3, <2>1, <2>2 DEF Writes, Mode
    <2>8. Shows'
      BY <1>0, <1>4, <2>1 DEF Shows
    <2>9. QED
      BY <2>3, <2>4, <2>5, <2>6, <2>7, <2>8 DEF ProgramsInv
  <1>5. CASE pc \in {"write", "restore"}
    <2>1. /\ UNCHANGED <<mode, target, old, tries, restored>>
          /\ pc' \in {"settle", "resettle"}
      BY <1>5 DEF Hear, Written, RolledBack
    <2>2. ~restored
      BY <1>0, <1>5 DEF CommandsWrite
    <2>3. ProgramTypes'
      BY <1>0, <1>3, <2>1 DEF ProgramTypes
    <2>4. ProgramFlags'
      BY <1>0, <2>1 DEF ProgramFlags
    <2>5. OwnIsNewest' /\ CommandsWrite' /\ Writes'
      BY <2>1, <2>2 DEF OwnIsNewest, CommandsWrite, Writes, Waiting
    <2>6. Reported'
      BY <2>1, <2>2 DEF Reported
    <2>8. Shows'
      BY <1>0, <1>5, <2>1 DEF Shows
    <2>9. QED
      BY <2>3, <2>4, <2>5, <2>6, <2>8 DEF ProgramsInv
  <1>6. CASE pc = "readback"
    <2>1. /\ UNCHANGED <<target, old, restored>>
          /\ \/ b /\ v = target /\ pc' = "venting" /\ mode' = target /\ UNCHANGED tries
             \/ pc' \in {"settle", "rollback"} /\ UNCHANGED mode /\ (tries' = tries \/ (tries < 2 /\ tries' = tries + 1))
      BY <1>1, <1>6 DEF Hear, ReadBack, ToPublish, Readbacks
    <2>2. ~restored /\ ProgramAsks.op = "r"
      BY <1>0, <1>6 DEF CommandsWrite, ProgramAsks, ReadOf
    <2>3. ProgramTypes'
      BY <1>0, <1>3, <2>1 DEF ProgramTypes
    <2>4. ProgramFlags'
      BY <1>0, <2>1 DEF ProgramFlags
    <2>5. OwnIsNewest' /\ CommandsWrite' /\ Writes'
      BY <2>1, <2>2 DEF OwnIsNewest, CommandsWrite, Writes, Waiting
    <2>6. Reported'
      BY <2>1, <2>2 DEF Reported, Mode
    <2>8. Shows'
      BY <1>0, <1>6, <2>1 DEF Shows
    <2>9. QED
      BY <2>3, <2>4, <2>5, <2>6, <2>8 DEF ProgramsInv
  <1>7. CASE pc = "verify"
    <2>1. /\ UNCHANGED <<mode, target, old, tries>>
          /\ pc' = "error" /\ restored' \in BOOLEAN /\ (restored' => b /\ v = old)
      <3>1. restored' = (b /\ v = old) /\ pc' = "error" /\ UNCHANGED <<mode, target, old, tries>>
        BY <1>1, <1>7 DEF Hear, Verified
      <3>2. QED
        BY <3>1
    <2>2. ~restored /\ ProgramAsks.op = "r"
      BY <1>0, <1>7 DEF CommandsWrite, ProgramAsks, ReadOf
    <2>3. ProgramTypes'
      BY <1>0, <1>3, <2>1 DEF ProgramTypes
    <2>4. ProgramFlags'
      BY <1>0, <2>1 DEF ProgramFlags
    <2>5. OwnIsNewest' /\ CommandsWrite' /\ Writes'
      BY <2>1, <2>2 DEF OwnIsNewest, CommandsWrite, Writes, Waiting
    <2>6. Reported'
      BY <2>1, <2>2 DEF Reported, Mode
    <2>8. Shows'
      BY <1>0, <1>7, <2>1 DEF Shows
    <2>9. QED
      BY <2>3, <2>4, <2>5, <2>6, <2>8 DEF ProgramsInv
  <1>8. CASE pc = "poll"
    <2>1. /\ UNCHANGED <<target, old, tries, restored>>
          /\ \/ pc' \in {"error", "loop"} /\ UNCHANGED mode
             \/ b /\ pc' = "venting" /\ mode' = v
      BY <1>1, <1>8 DEF Hear, Polled, ToPublish
    <2>2. job' = NoJob
      BY <1>0, <1>3, <1>8 DEF CommandsWrite
    <2>3. ProgramTypes'
      BY <1>0, <1>3, <2>1 DEF ProgramTypes
    <2>4. ProgramFlags'
      BY <1>0, <2>1 DEF ProgramFlags
    <2>5. OwnIsNewest' /\ CommandsWrite' /\ Writes'
      BY <1>0, <2>1, <2>2 DEF OwnIsNewest, CommandsWrite, Writes, Waiting
    <2>6. Reported'
      BY <1>0, <2>1, <2>2 DEF Reported, ProgramFlags, Mode
    <2>8. Shows'
      BY <1>0, <1>8, <2>1 DEF Shows
    <2>9. QED
      BY <2>3, <2>4, <2>5, <2>6, <2>8 DEF ProgramsInv
  <1>9. QED
    BY <1>4, <1>5, <1>6, <1>7, <1>8 DEF Waiting

\* An answer, to the thread or to nobody.
LEMMA ProgramAnswer ==
    ASSUME ProgramsInv, Answer
    PROVE  ProgramsInv'
  <1>0. /\ ProgramTypes /\ ProgramFlags /\ OwnIsNewest /\ CommandsWrite /\ Reported /\ Writes /\ Shows
    BY DEF ProgramsInv
  <1>1. PICK b \in BOOLEAN, v \in Values :
           /\ Serve(Reply(Register, b, v))
           /\ IF pc \in Waiting
              THEN Hear(Reply(Register, b, v)) /\ late' = (late \/ link' # <<>>)
              ELSE UNCHANGED <<pc, job, mode, target, old, tries, restored, late>>
           /\ UNCHANGED <<actions, lastMode, switches, commands, moves, moved, cut>>
    BY DEF Answer, work, count
  <1>2. /\ link # <<>> /\ link' = Tail(link) /\ LinkTypeOK'
        /\ Head(link).op = "r" => ctl' = ctl /\ (b => v = Mode)
        /\ link' = <<>> => Len(link) = 1 /\ Head(link) = link[Len(link)]
        /\ (\A i \in 1 .. Len(link) : link[i].op = "r") => ctl' = ctl /\ \A i \in 1 .. Len(link') : link'[i].op = "r"
    BY <1>0, <1>1, ProgramServe
  <1>3. CASE pc \in Waiting
    <2>1. late' = (late \/ link' # <<>>)
      BY <1>1, <1>3
    <2>2. late' \in BOOLEAN /\ (late => late') /\ (~late' => link' = <<>>)
      BY <2>1
    <2>3. ~late' => ProgramAsks = Head(link)
      BY <1>0, <1>2, <1>3, <2>2 DEF OwnIsNewest
    <2>4. QED
      BY <1>1, <1>2, <1>3, <2>3, ProgramHear
  <1>4. CASE pc \notin Waiting
    <2>1. UNCHANGED <<pc, job, mode, target, old, tries, restored, late, actions, lastMode, switches, commands, moves, moved, cut>>
      BY <1>1, <1>4
    <2>2. ProgramTypes'
      BY <1>0, <1>2, <2>1 DEF ProgramTypes
    <2>3. ProgramFlags' /\ CommandsWrite' /\ Shows'
      BY <1>0, <2>1 DEF ProgramFlags, CommandsWrite, Shows
    <2>4. OwnIsNewest' /\ Writes'
      BY <1>0, <1>2, <1>4, <2>1 DEF OwnIsNewest, Writes, Waiting
    <2>5. Reported'
      BY <1>0, <1>2, <2>1 DEF Reported, Mode
    <2>6. QED
      BY <2>2, <2>3, <2>4, <2>5 DEF ProgramsInv
  <1>5. QED
    BY <1>3, <1>4

\* No answer in time.
LEMMA ProgramTimeOut ==
    ASSUME ProgramsInv, TimeOut
    PROVE  ProgramsInv'
  <1>0. /\ ProgramTypes /\ ProgramFlags /\ OwnIsNewest /\ CommandsWrite /\ Reported /\ Writes /\ Shows
    BY DEF ProgramsInv
  <1>1. /\ pc \in Waiting
        /\ UNCHANGED <<link, ctl, actions, lastMode, switches, commands, moves, moved, late, cut>>
        /\ LinkTypeOK'
    BY <1>0, LinkAssumption DEF TimeOut, GiveUp, Fault, count, ProgramTypes, LinkTypeOK
  <1>2. CASE pc = "restore"
    <2>1. pc' = "error" /\ UNCHANGED <<job, mode, target, old, tries, restored>>
      BY <1>2 DEF TimeOut, work
    <2>2. ProgramTypes' /\ ProgramFlags' /\ OwnIsNewest'
      BY <1>0, <1>1, <2>1 DEF ProgramTypes, ProgramFlags, OwnIsNewest, Waiting
    <2>3. CommandsWrite' /\ Reported'
      BY <1>0, <1>1, <1>2, <2>1 DEF CommandsWrite, Reported
    <2>4. Writes' /\ Shows'
      BY <1>0, <1>1, <1>2, <2>1 DEF Writes, Shows
    <2>5. QED
      BY <2>2, <2>3, <2>4 DEF ProgramsInv
  <1>3. CASE pc # "restore"
    <2>1. /\ Hear(Reply(Register, FALSE, 0))
          /\ 0 \in Values
      BY <1>3, LinkAssumption DEF TimeOut, Failure, ReadOf, LinkAssumption
    <2>2. late' \in BOOLEAN
      BY <1>0, <1>1 DEF ProgramFlags
    <2>3. QED
      BY <1>1, <2>1, <2>2, ProgramHear
  <1>4. QED
    BY <1>2, <1>3

\* A command is taken, and its register read.
LEMMA ProgramTake ==
    ASSUME ProgramsInv, Take
    PROVE  ProgramsInv'
  <1>0. /\ ProgramTypes /\ ProgramFlags /\ OwnIsNewest /\ CommandsWrite /\ Reported /\ Writes /\ Shows
    BY DEF ProgramsInv
  <1>1. /\ Send("loop", "current", ReadOf(Register))
        /\ actions # <<>> /\ job' = Head(actions) /\ actions' = Tail(actions)
        /\ moved' = FALSE /\ late' = FALSE /\ restored' = FALSE
        /\ UNCHANGED <<mode, target, old, tries>>
    BY DEF Take
  <1>2. /\ pc = "loop" /\ pc' = "current" /\ UNCHANGED <<ctl, faults, lastMode, switches, commands, moves, cut>>
        /\ LinkTypeOK' /\ link'[Len(link')] = ReadOf(Register)
    BY <1>0, <1>1, ProgramRequests, ProgramSend
  <1>3. /\ job' \in Commands /\ actions' \in Seq(Commands) /\ Len(actions') <= QueueSize
    <2>1. actions \in Seq(Commands) /\ Len(actions) <= QueueSize /\ actions # <<>>
      BY <1>0, <1>1 DEF ProgramTypes
    <2>2. Len(Tail(actions)) = Len(actions) - 1 /\ Len(actions) \in Nat /\ QueueSize \in Nat
      BY <2>1, ServiceAssumption DEF ServiceAssumption
    <2>3. QED
      BY <1>1, <2>1, <2>2, QueueEnds
  <1>4. ProgramTypes'
    BY <1>0, <1>1, <1>2, <1>3 DEF ProgramTypes, Waiting
  <1>5. ProgramFlags' /\ OwnIsNewest' /\ CommandsWrite'
    BY <1>0, <1>1, <1>2 DEF ProgramFlags, OwnIsNewest, CommandsWrite, ProgramAsks
  <1>6. Reported' /\ Writes' /\ Shows'
    BY <1>0, <1>1, <1>2 DEF Reported, Writes, Shows
  <1>7. QED
    BY <1>4, <1>5, <1>6 DEF ProgramsInv

\* The register is read between the commands, and after one.
LEMMA ProgramPoll ==
    ASSUME ProgramsInv, Poll
    PROVE  ProgramsInv'
  <1>0. /\ ProgramTypes /\ ProgramFlags /\ OwnIsNewest /\ CommandsWrite /\ Reported /\ Writes /\ Shows
    BY DEF ProgramsInv
  <1>1. PICK from \in {"loop", "after"} : Send(from, "poll", ReadOf(Register))
    BY DEF Poll
  <1>2. job' = NoJob /\ UNCHANGED <<actions, mode, target, old, tries, moved, late, restored>>
    BY DEF Poll
  <1>3. /\ pc = from /\ pc' = "poll" /\ UNCHANGED <<ctl, faults, lastMode, switches, commands, moves, cut>>
        /\ LinkTypeOK' /\ link'[Len(link')] = ReadOf(Register)
        /\ (\A i \in 1 .. Len(link) : link[i].op = "r") => \A i \in 1 .. Len(link') : link'[i].op = "r"
    BY <1>0, <1>1, ProgramRequests, ProgramSend
  <1>4. ProgramTypes'
    BY <1>0, <1>2, <1>3 DEF ProgramTypes, Waiting
  <1>5. ProgramFlags' /\ OwnIsNewest' /\ CommandsWrite'
    BY <1>0, <1>2, <1>3 DEF ProgramFlags, OwnIsNewest, CommandsWrite, ProgramAsks
  <1>6. Reported' /\ Writes' /\ Shows'
    BY <1>0, <1>2, <1>3 DEF Reported, Writes, Shows, Mode
  <1>7. QED
    BY <1>4, <1>5, <1>6 DEF ProgramsInv

\* The other requests of a command.
LEMMA ProgramSendMore ==
    ASSUME ProgramsInv, SendMore
    PROVE  ProgramsInv'
  <1>0. /\ ProgramTypes /\ ProgramFlags /\ OwnIsNewest /\ CommandsWrite /\ Reported /\ Writes /\ Shows
    BY DEF ProgramsInv
  <1>1. PICK from \in {"transition", "settle", "rollback", "resettle"}, to \in {"write", "readback", "restore", "verify"},
             r \in LinkRequests :
           /\ Send(from, to, r)
           /\ from = "transition" <=> to = "write"
           /\ r = IF to = "write" THEN WriteOf(Register, target)
                  ELSE IF to = "restore" THEN WriteOf(Register, old)
                  ELSE ReadOf(Register)
    BY <1>0, ProgramRequests DEF SendMore
  <1>2. UNCHANGED <<actions, job, mode, target, old, tries, moved, late, restored>>
    BY DEF SendMore, work
  <1>3. /\ pc = from /\ pc' = to /\ UNCHANGED <<ctl, faults, lastMode, switches, commands, moves, cut>>
        /\ LinkTypeOK' /\ link'[Len(link')] = r
        /\ link = <<>> => Len(link') = 1
    BY <1>0, <1>1, ProgramSend
  <1>4. ProgramTypes'
    BY <1>0, <1>2, <1>3 DEF ProgramTypes, Waiting
  <1>5. ProgramFlags' /\ OwnIsNewest' /\ CommandsWrite'
    BY <1>0, <1>1, <1>2, <1>3 DEF ProgramFlags, OwnIsNewest, CommandsWrite, ProgramAsks
  <1>6. Reported'
    BY <1>0, <1>2, <1>3 DEF Reported, CommandsWrite
  <1>7. Writes'
    BY <1>0, <1>1, <1>2, <1>3 DEF Writes, Mode
  <1>8. Shows'
    BY <1>0, <1>2, <1>3 DEF Shows
  <1>9. QED
    BY <1>4, <1>5, <1>6, <1>7, <1>8 DEF ProgramsInv

\* A request or an answer is lost.
LEMMA ProgramLost ==
    ASSUME ProgramsInv, Lost
    PROVE  ProgramsInv'
  <1>0. /\ ProgramTypes /\ ProgramFlags /\ OwnIsNewest /\ CommandsWrite /\ Reported /\ Writes /\ Shows
    BY DEF ProgramsInv
  <1>1. /\ Lose
        /\ UNCHANGED <<pc, actions, job, mode, target, old, tries, lastMode, switches, commands, moves, moved, late, restored, cut>>
    BY DEF Lost, work, count, seen
  <1>2. LinkTypeOK /\ Lose
    BY <1>0, <1>1 DEF ProgramTypes
  <1>3. /\ link # <<>> /\ link' = Tail(link) /\ LinkTypeOK'
        /\ Head(link).op = "r" => ctl' = ctl
    BY <1>2, LoseFacts
  <1>4. link \in Seq(LinkRequests)
    BY <1>2 DEF LinkTypeOK
  <1>5. /\ link' # <<>> => link'[Len(link')] = link[Len(link)]
        /\ \A i \in 1 .. Len(link') : i + 1 \in 1 .. Len(link) /\ link'[i] = link[i + 1]
        /\ 1 \in 1 .. Len(link) /\ Head(link) = link[1]
        /\ Len(link) = 1 => link' = <<>>
    BY <1>3, <1>4, QueueEnds
  <1>6. ProgramTypes'
    BY <1>0, <1>1, <1>3 DEF ProgramTypes, LinkTypeOK, LinkRequests
  <1>7. ProgramFlags' /\ CommandsWrite' /\ Shows'
    BY <1>0, <1>1 DEF ProgramFlags, CommandsWrite, Shows
  <1>8. OwnIsNewest'
    BY <1>0, <1>1, <1>3, <1>5 DEF OwnIsNewest, ProgramAsks
  <1>9. Reported'
    BY <1>0, <1>1, <1>3, <1>5 DEF Reported, Mode
  <1>10. Writes'
    BY <1>0, <1>1, <1>3, <1>5 DEF Writes, Mode
  <1>11. QED
    BY <1>6, <1>7, <1>8, <1>9, <1>10 DEF ProgramsInv

\* The service programs start within the invariant.
LEMMA ProgramInit ==
    ASSUME Init
    PROVE  ProgramsInv
  <1>1. ProgramTypes
    <2>1. LinkTypeOK /\ 0 \in 0 .. MaxCommands /\ 0 \in 0 .. MaxMoves
      BY LinkAssumption, ServiceAssumption DEF Init, LinkInit, LinkTypeOK
    <2>2. actions \in Seq(Commands) /\ Len(actions) <= QueueSize
      BY ServiceAssumption DEF Init, ServiceAssumption
    <2>3. switches \subseteq Kinds /\ 0 \in Values /\ 0 \in 0 .. 2
      BY LinkAssumption DEF Init, Kinds, LinkAssumption
    <2>4. QED
      BY <2>1, <2>2, <2>3 DEF Init, ProgramTypes, Off
  <1>0. ProgramFlags
    BY DEF Init, ProgramFlags
  <1>2. OwnIsNewest /\ CommandsWrite /\ Reported /\ Writes /\ Shows
    BY DEF Init, OwnIsNewest, CommandsWrite, Reported, Writes, Shows, Waiting
  <1>3. QED
    BY <1>0, <1>1, <1>2 DEF ProgramsInv

\* Every step of the service programs keeps it.
LEMMA ProgramNext ==
    ASSUME ProgramsInv, [Next]_vars
    PROVE  ProgramsInv'
  <1>1. CASE Service
    BY <1>1, ProgramTake, ProgramPoll, ProgramSendMore, ProgramAnswer, ProgramTimeOut,
       ProgramPublishState, ProgramPublishError, ProgramRestart
       DEF Service
  <1>2. CASE \E c \in Commands : Command(c)
    BY <1>2, ProgramCommand
  <1>3. CASE \E m \in Values : Move(m)
    BY <1>3, ProgramMove
  <1>4. CASE Lost \/ PublishFails \/ Kill
    BY <1>4, ProgramLost, ProgramPublishFails, ProgramKill
  <1>5. CASE UNCHANGED vars
    <2>1. UNCHANGED <<link, ctl, faults, pc, actions, job, mode, target, old, tries, lastMode, switches, commands, moves,
                      moved, late, restored, cut>>
      BY <1>5 DEF vars, linkVars, work, count, seen
    <2>2. ProgramTypes' /\ ProgramFlags' /\ OwnIsNewest' /\ CommandsWrite'
      BY <2>1
         DEF ProgramsInv, ProgramTypes, LinkTypeOK, ProgramFlags, OwnIsNewest, CommandsWrite,
             ProgramAsks
    <2>3. Reported' /\ Writes' /\ Shows'
      BY <2>1 DEF ProgramsInv, Reported, Writes, Shows, Mode
    <2>4. QED
      BY <2>2, <2>3 DEF ProgramsInv
  <1>6. QED
    BY <1>1, <1>2, <1>3, <1>4, <1>5 DEF Next

\* The invariant of the service programs.
LEMMA ProgramsSpecInv ==
    Spec => []ProgramsInv
  <1>1. Init => ProgramsInv
    BY ProgramInit
  <1>2. ProgramsInv /\ [Next]_vars => ProgramsInv'
    BY ProgramNext
  <1>3. QED
    BY <1>1, <1>2, PTL DEF Spec

\* What the service says of the register is true, in its reports and in its switches
\* (ServiceInv): for every number of commands, faults and moves of the mode.
THEOREM ServiceSafe ==
    Spec => []ServiceInv
  <1>1. ASSUME ProgramsInv PROVE ServiceInv
    <2>0. ProgramTypes /\ ProgramFlags /\ Reported /\ Shows /\ CommandsWrite
      BY <1>1 DEF ProgramsInv
    <2>1. TypeOK
      <3>1. {mode, target, old} \subseteq Values /\ {moved, late, restored, cut} \subseteq BOOLEAN
        BY <2>0 DEF ProgramTypes, ProgramFlags
      <3>2. QED
        BY <2>0, <3>1 DEF ProgramTypes, TypeOK, Readbacks
    <2>2. ReportIsTrue
      BY <2>0 DEF Reported, ReportIsTrue
    <2>3. SwitchesShowLastMode
      BY <2>0 DEF Shows, ProgramTypes, SwitchesShowLastMode
    <2>4. QED
      BY <2>1, <2>2, <2>3 DEF ServiceInv
  <1>2. QED
    BY <1>1, ProgramsSpecInv, PTL

\* An OFF never ends the other program (apply_action), however the commands, answers
\* and losses mix.
THEOREM OffEndsItsOwn ==
    Spec => OffEndsOnlyItsOwn
  <1> DEFINE Ending == /\ Mode # Off /\ Mode' = Off
                       /\ pc = "write" /\ ~job.on /\ link' # link /\ ~moved /\ ~late
  <1>1. ASSUME ProgramsInv, [Next]_vars, Ending
        PROVE  Mode = ModeOf(job.kind)
    <2>1. link # <<>>
      BY <1>1
         DEF vars, linkVars, Next, Service, Take, Poll, SendMore, Send, Answer, Serve, TimeOut,
             PublishState, PublishError, Restart, Command, Move, Lost, Lose, PublishFails, Kill
    <2>2. QED
      BY <1>1, <2>1 DEF ProgramsInv, Writes
  <1>2. ProgramsInv /\ [Next]_vars
        => [Ending => Mode = ModeOf(job.kind)]_vars
    BY <1>1
  <1>3. QED
    BY <1>2, ProgramsSpecInv, PTL DEF Spec, OffEndsOnlyItsOwn

=============================================================================
