------------------------- MODULE MaintenanceProofs --------------------------
(***************************************************************************)
(* Proofs about what an operator starts.  The maintenance: sessions        *)
(* exclude each other, what an operation reports is true, and a request is *)
(* not carried out twice.  The canary sessions, at the end: they start     *)
(* clean, are supervised, and their recovery reports the truth.            *)
(***************************************************************************)
EXTENDS Maintenance, CanarySession, QueueLemmas

-----------------------------------------------------------------------------
\* What an answer tells: whose it is, what a read says, and what it does to the
\* controller.
LEMMA ServeFacts ==
    ASSUME LinkTypeOK, NEW a, NEW b \in BOOLEAN, NEW v \in Values, Serve(Reply(a, b, v))
    PROVE  /\ link # <<>> /\ link' = Tail(link) /\ LinkTypeOK'
           /\ Head(link) \in LinkRequests /\ a = Head(link).addr
           /\ \/ ctl' = ctl
              \/ Head(link).op = "w" /\ ctl' = [ctl EXCEPT ![Head(link).addr] = Head(link).val]
           /\ Head(link).op = "r" => ctl' = ctl /\ (b => v = ctl[a])
  <1>0. LinkAssumption /\ link # <<>> /\ link' = Tail(link)
    BY LinkAssumption DEF Serve
  <1>1. link \in Seq(LinkRequests) /\ ctl \in [Datapoints -> Values] /\ faults \in 0 .. MaxFaults
    BY DEF LinkTypeOK
  <1>2. PICK r \in LinkRequests : r = Head(link)
    BY <1>0, <1>1, QueueEnds
  <1>3. r.addr \in Datapoints /\ r.val \in Values /\ r.op \in {"r", "w"}
    BY DEF LinkRequests
  <1>4. Applied(r) = ctl \/ (r.op = "w" /\ Applied(r) = [ctl EXCEPT ![r.addr] = r.val])
    BY <1>1, <1>3 DEF Applied
  <1>5. Applied(r) \in [Datapoints -> Values] /\ (r.op = "r" => Applied(r) = ctl)
    BY <1>1, <1>3, <1>4 DEF Applied
  <1>6. /\ Reply(a, b, v).addr = a /\ Reply(a, b, v).ok = b /\ Reply(a, b, v).val = v
        /\ Failure(r).addr = r.addr /\ Failure(r).ok = FALSE
    BY DEF Reply, Failure
  <1>7. \/ Reply(a, b, v) \in Successes(r) /\ ctl' = Applied(r) /\ UNCHANGED faults
        \/ Reply(a, b, v) \in Successes(r) /\ r.op = "w" /\ UNCHANGED ctl /\ Fault
        \/ Reply(a, b, v) = Failure(r) /\ ctl' \in {ctl, Applied(r)} /\ Fault
    BY <1>2 DEF Serve
  <1>8. Reply(a, b, v) \in Successes(r) => a = r.addr /\ (r.op = "r" => v = ctl[r.addr])
    BY <1>3, <1>6 DEF Successes, Reply
  <1>9. Reply(a, b, v) = Failure(r) => a = r.addr /\ b = FALSE
    BY <1>6
  <1>10. ctl' \in {ctl, Applied(r)} /\ faults' \in 0 .. MaxFaults
    BY <1>0, <1>1, <1>7 DEF Fault, LinkAssumption
  <1>11. LinkTypeOK'
    BY <1>0, <1>1, <1>5, <1>10, QueueEnds DEF LinkTypeOK
  <1>12. QED
    BY <1>0, <1>2, <1>4, <1>7, <1>8, <1>9, <1>11

\* A lost request was carried out or not.
LEMMA LoseFacts ==
    ASSUME LinkTypeOK, Lose
    PROVE  /\ link # <<>> /\ link' = Tail(link) /\ LinkTypeOK'
           /\ Head(link) \in LinkRequests
           /\ \/ ctl' = ctl
              \/ Head(link).op = "w" /\ ctl' = [ctl EXCEPT ![Head(link).addr] = Head(link).val]
  <1>0. LinkAssumption /\ link # <<>> /\ link' = Tail(link)
    BY LinkAssumption DEF Lose
  <1>1. link \in Seq(LinkRequests) /\ ctl \in [Datapoints -> Values] /\ faults \in 0 .. MaxFaults
    BY DEF LinkTypeOK
  <1>2. PICK r \in LinkRequests : r = Head(link)
    BY <1>0, <1>1, QueueEnds
  <1>3. r.addr \in Datapoints /\ r.val \in Values /\ r.op \in {"r", "w"}
    BY DEF LinkRequests
  <1>4. Applied(r) = ctl \/ (r.op = "w" /\ Applied(r) = [ctl EXCEPT ![r.addr] = r.val])
    BY <1>1, <1>3 DEF Applied
  <1>5. Applied(r) \in [Datapoints -> Values]
    BY <1>1, <1>3, <1>4 DEF Applied
  <1>6. ctl' \in {ctl, Applied(r)} /\ faults' \in 0 .. MaxFaults
    BY <1>0, <1>1, <1>2 DEF Lose, Fault, LinkAssumption
  <1>7. LinkTypeOK'
    BY <1>0, <1>1, <1>5, <1>6, QueueEnds DEF LinkTypeOK
  <1>8. QED
    BY <1>0, <1>2, <1>4, <1>6, <1>7
-----------------------------------------------------------------------------
\* The maintenance.  Every process but the one in session has nothing under way.
UpkeepTypes ==
    /\ LinkTypeOK
    /\ lock \in Processes \cup {"free"}
    /\ step \in [Processes -> Steps \cup {"closed", "end"}]
    /\ waits \in [Processes -> BOOLEAN]
    /\ job \in [Processes -> Jobs \cup {NoJob, Snapshot}]
    /\ old \in [Processes -> Values]
    /\ aborted \in [Processes -> BOOLEAN]
    /\ code \in [Processes -> Codes]
    /\ shot \in [Processes -> Values \cup {Unset}]
UpkeepServes ==
    /\ api \in {"start", "initial", "loop", "request", "down"}
    /\ step["api"] = "closed" <=> api \in {"start", "loop", "down"}
    /\ id \in Ids \cup {"none"} /\ (api = "request" => id \in Ids)
    /\ actions \in Seq(Items) /\ Len(actions) <= QueueSize
    /\ staged \in Values \cup {Unset}
    /\ requests \in 0 .. MaxRequests /\ calls \in 0 .. MaxCalls
UpkeepFlags == moved \in BOOLEAN /\ late \in BOOLEAN /\ left \in BOOLEAN /\ dirty \in BOOLEAN

\* One session at a time, and what each of its steps belongs to.
Sessions ==
    /\ \A p \in Processes :
        /\ step[p] \in Steps => lock = p
        /\ lock = p => step[p] # "closed"
        /\ waits[p] => step[p] \in Steps
        /\ step[p] = "end" /\ lock # p => code[p] \in {"refused", "busy"}
        /\ step[p] \in {"current", "refBefore", "write", "readback", "unwrite", "reread", "refAfter"} => job[p].kind = "set"
        /\ step[p] \in {"before", "one", "readOne", "zero", "readZero"} => job[p].kind = "reset"
    /\ lock = "free" => ~moved /\ ~late

\* The newest request is the one that is waited for.
WaitsForNewest ==
    \A p \in Processes : waits[p] /\ link # <<>> => link[Len(link)] = RequestOf(p)

OnlyReads(queue) == \A i \in 1 .. Len(queue) : queue[i].op = "r"

\* Once a value was read back it stays, with nothing but reads under way.
ReadBackHolds ==
    \A p \in Processes : lock = p /\ ~moved /\ ~late =>
        /\ job[p].kind = "set" /\ (step[p] \in {"refAfter", "after"} \/ (step[p] = "end" /\ code[p] = "ok"))
           => ctl[Setting] = job[p].val /\ OnlyReads(link)
        /\ step[p] = "end" /\ code[p] = "restored" => ctl[Setting] = old[p] /\ OnlyReads(link)
        /\ job[p].kind = "reset" /\ (step[p] = "after" \/ (step[p] = "end" /\ code[p] \in {"ok", "aborted"}))
           => ctl[State] = 0 /\ OnlyReads(link)

\* Nothing sets the reset's datapoint to 1.
Harmless(queue) ==
    \A i \in 1 .. Len(queue) : queue[i].op = "w" /\ queue[i].addr = State => queue[i].val # 1

\* A process is in the middle of a reset, or has failed to end it.
Resetting(p) ==
    step[p] \in {"one", "readOne", "zero", "readZero"} \/ (step[p] = "end" /\ lock = p /\ code[p] = "unsafe")

NoneHalfReset ==
    ~left /\ ~late /\ (\A p \in Processes : ~Resetting(p)) => ctl[State] # 1 /\ Harmless(link)

\* What the user staged is marked as such; a service that starts has nothing staged.
StagedIsDirty ==
    /\ wish # Unset => staged = wish /\ dirty
    /\ api \in {"start", "initial", "down"} => wish = Unset

\* The ids finished last are those that have a result.
CacheKnows ==
    /\ recent \in Seq(Ids) /\ Len(recent) <= CacheSize /\ done = recent
    /\ results \in [Ids -> Codes \cup {"none"}]
    /\ \A k \in 1 .. Len(recent) : results[recent[k]] # "none"

UpkeepInv ==
    /\ UpkeepTypes /\ UpkeepServes /\ UpkeepFlags /\ Sessions /\ WaitsForNewest /\ ReadBackHolds /\ NoneHalfReset
    /\ StagedIsDirty /\ CacheKnows

\* The oldest request is gone, and did to the controller what a write does at the most.
Drains ==
    /\ link # <<>> /\ link' = Tail(link) /\ LinkTypeOK'
    /\ OnlyReads(link) => ctl' = ctl /\ OnlyReads(link')
    /\ Harmless(link) /\ ctl[State] # 1 => ctl'[State] # 1 /\ Harmless(link')
    /\ link' # <<>> => link'[Len(link')] = link[Len(link)]
    /\ link' = <<>> => Head(link) = link[Len(link)]

\* A request that was answered or lost is gone from the link.
LEMMA DrainFacts ==
    ASSUME State \in Datapoints, LinkTypeOK, link # <<>>, link' = Tail(link), LinkTypeOK',
           ctl' = ctl \/ (Head(link).op = "w" /\ ctl' = [ctl EXCEPT ![Head(link).addr] = Head(link).val])
    PROVE  Drains
  <1> DEFINE r == Head(link)
  <1>1. link \in Seq(LinkRequests) /\ ctl \in [Datapoints -> Values]
    BY DEF LinkTypeOK
  <1>2. /\ link' # <<>> => link'[Len(link')] = link[Len(link)]
        /\ link' = <<>> => r = link[Len(link)]
        /\ \A i \in 1 .. Len(link') : i + 1 \in 1 .. Len(link) /\ link'[i] = link[i + 1]
        /\ 1 \in 1 .. Len(link) /\ r = link[1]
    BY <1>1, QueueEnds
  <1>3. ctl' = ctl \/ (r.op = "w" /\ ctl' = [ctl EXCEPT ![r.addr] = r.val])
    OBVIOUS
  <1> HIDE DEF r
  <1>4. OnlyReads(link) => ctl' = ctl /\ OnlyReads(link')
    BY <1>2, <1>3 DEF OnlyReads
  <1>5. ASSUME Harmless(link), ctl[State] # 1 PROVE ctl'[State] # 1 /\ Harmless(link')
    <2>1. r.op = "w" /\ r.addr = State => r.val # 1
      BY <1>2, <1>5 DEF Harmless
    <2>2. Harmless(link')
      BY <1>2, <1>5 DEF Harmless
    <2>3. QED
      BY <1>1, <1>3, <1>5, <2>1, <2>2
  <1>6. LinkTypeOK'
    BY DEF LinkTypeOK, LinkRequests
  <1>7. QED
    BY <1>2, <1>4, <1>5, <1>6 DEF Drains, r

\* A kind of job has the steps of its operation only, and its value is one of a datapoint.
LEMMA UpkeepJobs ==
    ASSUME LinkAssumption, NEW j \in Jobs \cup {NoJob, Snapshot}
    PROVE  j.val \in Values /\ (j \in Jobs \cup {Snapshot} => j.kind \in {"status", "set", "reset"})
  <1>1. Jobs \subseteq JobSet /\ 0 \in Values
    BY MaintenanceAssumption DEF MaintenanceAssumption, LinkAssumption
  <1>2. CASE j \in Jobs
    BY <1>1, <1>2 DEF JobSet
  <1>3. CASE j \in {NoJob, Snapshot}
    <2>1. j = NoJob \/ j.kind = "status"
      BY <1>3 DEF Snapshot
    <2>2. NoJob \in Jobs => NoJob.kind \in {"status", "set", "reset"}
      BY <1>1 DEF JobSet
    <2>3. NoJob = Snapshot => FALSE
      BY DEF NoJob, Snapshot
    <2>4. QED
      BY <1>1, <1>3, <2>1, <2>2, <2>3 DEF NoJob, Snapshot
  <1>4. QED
    BY <1>2, <1>3

\* The requests of a process are requests; what writes 0x5724 is the reset.
LEMMA UpkeepRequests ==
    ASSUME LinkAssumption, UpkeepTypes,
           NEW p \in Processes, step[p] \in Steps
    PROVE  /\ RequestOf(p) \in LinkRequests
           /\ step[p] \in {"current", "readback", "reread", "before", "after"} =>
                  RequestOf(p).op = "r" /\ RequestOf(p).addr = Setting
           /\ step[p] \in {"refBefore", "refAfter"} => RequestOf(p).op = "r"
           /\ step[p] \in {"readOne", "readZero"} =>
                  RequestOf(p).op = "r" /\ RequestOf(p).addr = State
           /\ step[p] # "one" /\ RequestOf(p).op = "w" /\ RequestOf(p).addr = State =>
                  RequestOf(p).val # 1
  <1>1. /\ {Setting, State, Reference} \subseteq Datapoints /\ {0, 1} \subseteq Values
        /\ Setting # State
    BY MaintenanceAssumption DEF MaintenanceAssumption, LinkAssumption, Setting, State
  <1>2. job[p].val \in Values /\ old[p] \in Values
    BY UpkeepJobs DEF UpkeepTypes
  <1>3. \A a \in Datapoints, v \in Values :
           /\ ReadOf(a) \in LinkRequests /\ ReadOf(a).op = "r" /\ ReadOf(a).addr = a
           /\ WriteOf(a, v) \in LinkRequests /\ WriteOf(a, v).op = "w"
           /\ WriteOf(a, v).addr = a /\ WriteOf(a, v).val = v
    BY <1>1 DEF ReadOf, WriteOf, LinkRequests
  <1>4. CASE step[p] \in {"current", "readback", "reread", "before", "after"}
    BY <1>1, <1>3, <1>4 DEF RequestOf
  <1>5. CASE step[p] \in {"refBefore", "refAfter"}
    BY <1>1, <1>3, <1>5 DEF RequestOf
  <1>6. CASE step[p] = "write"
    BY <1>1, <1>2, <1>3, <1>6 DEF RequestOf
  <1>7. CASE step[p] = "unwrite"
    BY <1>1, <1>2, <1>3, <1>7 DEF RequestOf
  <1>8. CASE step[p] \in {"readOne", "readZero"}
    BY <1>1, <1>3, <1>8 DEF RequestOf
  <1>9. CASE step[p] = "one"
    BY <1>1, <1>3, <1>9 DEF RequestOf
  <1>10. CASE step[p] = "zero"
    BY <1>1, <1>3, <1>10 DEF RequestOf
  <1>11. QED
    BY <1>4, <1>5, <1>6, <1>7, <1>8, <1>9, <1>10 DEF Steps

\* An item of the queue is a request or a staged value.
LEMMA UpkeepItems ==
    ASSUME UpkeepServes, actions # <<>>
    PROVE  /\ Tail(actions) \in Seq(Items) /\ Len(Tail(actions)) <= QueueSize
           /\ "job" \in DOMAIN Head(actions) => Head(actions).id \in Ids /\ Head(actions).job \in Jobs
           /\ "stage" \in DOMAIN Head(actions) => Head(actions).stage \in Values
  <1>1. actions \in Seq(Items) /\ Len(actions) <= QueueSize /\ QueueSize \in Nat
    BY MaintenanceAssumption DEF UpkeepServes, MaintenanceAssumption
  <1>2. Head(actions) \in Items /\ Tail(actions) \in Seq(Items)
    BY <1>1, QueueEnds
  <1>3. Len(Tail(actions)) <= QueueSize
    BY <1>1
  <1>4. CASE Head(actions) \in [id : Ids, job : Jobs]
    BY <1>2, <1>3, <1>4
  <1>5. CASE Head(actions) \in [stage : Staged]
    BY <1>2, <1>3, <1>5, MaintenanceAssumption DEF MaintenanceAssumption
  <1>6. QED
    BY <1>2, <1>4, <1>5 DEF Items

\* The newest results are those of the ids of the list.
LEMMA LatestFacts ==
    ASSUME NEW ids \in Seq(Ids), Len(ids) <= CacheSize, NEW i \in Ids
    PROVE  /\ Latest(ids, i) \in Seq(Ids) /\ Len(Latest(ids, i)) <= CacheSize
           /\ \A k \in 1 .. Len(Latest(ids, i)) :
                 Latest(ids, i)[k] = i \/ \E n \in 1 .. Len(ids) : Latest(ids, i)[k] = ids[n]
  <1> DEFINE longer == IF i \in {ids[k] : k \in DOMAIN ids} THEN ids ELSE Append(ids, i)
  <1>0. CacheSize \in Nat /\ CacheSize > 0
    BY MaintenanceAssumption DEF MaintenanceAssumption
  <1>1. /\ longer \in Seq(Ids) /\ Len(longer) <= CacheSize + 1
        /\ \A k \in 1 .. Len(longer) : longer[k] = i \/ \E n \in 1 .. Len(ids) : longer[k] = ids[n]
    <2>1. CASE i \in {ids[k] : k \in DOMAIN ids}
      BY <1>0, <2>1
    <2>2. CASE i \notin {ids[k] : k \in DOMAIN ids}
      BY <1>0, <2>2
    <2>3. QED
      BY <2>1, <2>2
  <1>2. Latest(ids, i) = IF Len(longer) > CacheSize THEN Tail(longer) ELSE longer
    BY DEF Latest
  <1> HIDE DEF longer
  <1>3. CASE Len(longer) > CacheSize
    <2>1. longer # <<>>
      BY <1>0, <1>3
    <2>2. /\ Tail(longer) \in Seq(Ids) /\ Len(Tail(longer)) = Len(longer) - 1
          /\ \A k \in 1 .. Len(Tail(longer)) : k + 1 \in 1 .. Len(longer) /\ Tail(longer)[k] = longer[k + 1]
      BY <1>1, <2>1, QueueEnds
    <2>3. QED
      BY <1>0, <1>1, <1>2, <1>3, <2>2
  <1>4. CASE ~(Len(longer) > CacheSize)
    BY <1>0, <1>1, <1>2, <1>4
  <1>5. QED
    BY <1>3, <1>4

\* What an answer tells.
LEMMA UpkeepServe ==
    ASSUME UpkeepTypes, NEW a \in Datapoints, NEW b \in BOOLEAN, NEW v \in Values, Serve(Reply(a, b, v))
    PROVE  Drains /\ Head(link).addr = a /\ (Head(link).op = "r" => ctl' = ctl /\ (b => v = ctl[a]))
  <1>0. LinkTypeOK /\ Serve(Reply(a, b, v))
    BY DEF UpkeepTypes
  <1>1. link # <<>> /\ link' = Tail(link) /\ LinkTypeOK'
    BY <1>0, ServeFacts
  <1>2. ctl' = ctl \/ (Head(link).op = "w" /\ ctl' = [ctl EXCEPT ![Head(link).addr] = Head(link).val])
    BY <1>0, ServeFacts
  <1>3. Head(link).addr = a /\ (Head(link).op = "r" => ctl' = ctl /\ (b => v = ctl[a]))
    BY <1>0, ServeFacts
  <1>4. Drains
    BY <1>0, <1>1, <1>2, DrainFacts, MaintenanceAssumption DEF MaintenanceAssumption
  <1>5. QED
    BY <1>3, <1>4

\* A request or an answer is lost.
LEMMA UpkeepLose ==
    ASSUME UpkeepTypes, Lose
    PROVE  Drains
  <1>0. LinkTypeOK /\ Lose
    BY DEF UpkeepTypes
  <1>1. link # <<>> /\ link' = Tail(link) /\ LinkTypeOK'
    BY <1>0, LoseFacts
  <1>2. ctl' = ctl \/ (Head(link).op = "w" /\ ctl' = [ctl EXCEPT ![Head(link).addr] = Head(link).val])
    BY <1>0, LoseFacts
  <1>3. QED
    BY <1>0, <1>1, <1>2, DrainFacts, MaintenanceAssumption DEF MaintenanceAssumption

\* Where a step comes from, and what it takes to end.
ComesFrom(p, s, c, value) ==
    \/ s = "refBefore" /\ step[p] = "current"
    \/ s = "write"     /\ step[p] = "refBefore"
    \/ s = "readback"  /\ step[p] = "write"
    \/ s = "unwrite"   /\ step[p] = "readback"
    \/ s = "reread"    /\ step[p] = "unwrite"
    \/ s = "refAfter"  /\ step[p] = "readback" /\ value = job[p].val
    \/ s = "one"       /\ step[p] = "before"
    \/ s = "readOne"   /\ step[p] = "one"
    \/ s = "zero"      /\ step[p] \in {"one", "readOne"}
    \/ s = "readZero"  /\ step[p] = "zero"
    \/ s = "after"     /\ step[p] = "current" /\ value # Unset /\ value = job[p].val
    \/ s = "after"     /\ step[p] = "refAfter"
    \/ s = "after"     /\ step[p] = "readZero" /\ value = 0
    \/ s = "end" /\ c \in {"failed", "refused"} /\ step[p] \in {"current", "refBefore", "refAfter", "before", "after"}
    \/ s = "end" /\ c = "ok"         /\ step[p] = "after"
    \/ s = "end" /\ c = "restored"   /\ step[p] = "reread" /\ value = old[p]
    \/ s = "end" /\ c = "unverified" /\ step[p] = "reread"
    \/ s = "end" /\ c = "aborted"    /\ step[p] = "readZero" /\ value = 0
    \/ s = "end" /\ c = "unsafe"     /\ step[p] = "readZero"

\* What an operation does with an answer or with none.
LEMMA UpkeepTurn ==
    ASSUME UpkeepTypes, NEW p \in Processes, step[p] \in Steps,
           NEW value \in Values \cup {Unset}, NEW answered \in BOOLEAN, Hears(p, value, answered)
    PROVE  /\ waits' = [waits EXCEPT ![p] = FALSE] /\ job' = job
           /\ \E s \in Steps \cup {"end"}, c \in Codes :
                 /\ step' = [step EXCEPT ![p] = s] /\ code' = [code EXCEPT ![p] = c]
                 /\ ComesFrom(p, s, c, value)
           /\ old' = old \/ (step[p] = "current" /\ value \in Values /\ old' = [old EXCEPT ![p] = value])
           /\ aborted' \in [Processes -> BOOLEAN]
           /\ shot' \in [Processes -> Values \cup {Unset}]
  <1>0. /\ waits' = [waits EXCEPT ![p] = FALSE]
        /\ \/ ReadStep(p, value) \/ VerifyStep(p, value) \/ WriteStep(p)
           \/ ResetStep(p, value, answered)
    BY DEF Hears
  <1>1. /\ code \in [Processes -> Codes] /\ aborted \in [Processes -> BOOLEAN]
        /\ shot \in [Processes -> Values \cup {Unset}]
    BY DEF UpkeepTypes
  <1>2. code[p] \in Codes /\ code = [code EXCEPT ![p] = code[p]]
    BY <1>1
  <1> DEFINE Turned(s, c) == /\ step' = [step EXCEPT ![p] = s] /\ code' = [code EXCEPT ![p] = c]
                             /\ ComesFrom(p, s, c, value)
             Turns == \E s \in Steps \cup {"end"}, c \in Codes : Turned(s, c)
  <1>3. ASSUME NEW s \in Steps, Goes(p, s), ComesFrom(p, s, code[p], value) PROVE Turns
    <2>1. Turned(s, code[p])
      BY <1>2, <1>3 DEF Goes
    <2>2. QED
      BY <1>2, <2>1
  <1>4. ASSUME NEW c \in Codes, Ends(p, c), ComesFrom(p, "end", c, value) PROVE Turns
    <2>1. Turned("end", c)
      BY <1>4 DEF Ends
    <2>2. QED
      BY <2>1
  <1> HIDE DEF Turns
  <1>5. /\ {"current", "refBefore", "write", "readback", "unwrite", "reread", "refAfter",
            "before", "one", "readOne", "zero", "readZero", "after"} = Steps
        /\ {"ok", "busy", "refused", "failed", "restored", "unverified", "aborted", "unsafe"} = Codes
    BY DEF Steps, Codes
  <1>6. CASE ReadStep(p, value)
    <2>1. CASE step[p] = "current"
      <3>1. \/ Ends(p, "failed") /\ Keeps(p)
            \/ value # Unset /\ value = job[p].val /\ Goes(p, "after") /\ Keeps(p)
            \/ Ends(p, "refused") /\ Keeps(p)
            \/ /\ value # Unset /\ Goes(p, "refBefore") /\ old' = [old EXCEPT ![p] = value]
               /\ UNCHANGED <<job, aborted, shot>>
        BY <1>6, <2>1 DEF ReadStep
      <3>2. Turns
        BY <1>3, <1>4, <1>5, <2>1, <3>1 DEF ComesFrom
      <3>3. QED
        BY <1>0, <1>1, <2>1, <3>1, <3>2 DEF Keeps, Turns
    <2>2. CASE step[p] \in {"refBefore", "refAfter", "before"}
      <3>1. /\ Keeps(p)
            /\ \/ Ends(p, "failed")
               \/ step[p] = "refBefore" /\ Goes(p, "write")
               \/ step[p] = "refAfter"  /\ Goes(p, "after")
               \/ step[p] = "before"    /\ Goes(p, "one")
        BY <1>6, <2>2 DEF ReadStep
      <3>2. Turns
        BY <1>3, <1>4, <1>5, <2>2, <3>1 DEF ComesFrom
      <3>3. QED
        BY <1>0, <1>1, <3>1, <3>2 DEF Keeps, Turns
    <2>3. CASE step[p] = "after"
      <3>1. \/ Ends(p, "failed") /\ Keeps(p)
            \/ Ends(p, "ok") /\ shot' = [shot EXCEPT ![p] = value] /\ UNCHANGED <<job, old, aborted>>
        BY <1>6, <2>3 DEF ReadStep
      <3>2. Turns
        BY <1>4, <1>5, <2>3, <3>1 DEF ComesFrom
      <3>3. QED
        BY <1>0, <1>1, <3>1, <3>2 DEF Keeps, Turns
    <2>4. QED
      BY <1>6, <2>1, <2>2, <2>3 DEF ReadStep
  <1>7. CASE VerifyStep(p, value)
    <2>1. /\ Keeps(p)
          /\ \/ step[p] = "readback" /\ value = job[p].val /\ Goes(p, "refAfter")
             \/ step[p] = "readback" /\ Goes(p, "unwrite")
             \/ step[p] = "reread" /\ value = old[p] /\ Ends(p, "restored")
             \/ step[p] = "reread" /\ Ends(p, "unverified")
      BY <1>7 DEF VerifyStep
    <2>2. Turns
      BY <1>3, <1>4, <1>5, <2>1 DEF ComesFrom
    <2>3. QED
      BY <1>0, <1>1, <2>1, <2>2 DEF Keeps, Turns
  <1>8. CASE WriteStep(p)
    <2>1. Turns
      BY <1>3, <1>5, <1>8 DEF WriteStep, ComesFrom
    <2>2. QED
      BY <1>0, <1>1, <1>8, <2>1 DEF WriteStep, Keeps, Turns
  <1>9. CASE ResetStep(p, value, answered)
    <2>1. \/ step[p] = "one" /\ (Goes(p, "readOne") \/ Goes(p, "zero"))
          \/ step[p] = "readOne" /\ Goes(p, "zero")
          \/ step[p] = "readZero" /\ \/ Ends(p, "unsafe")
                                     \/ value = 0 /\ (Ends(p, "aborted") \/ Goes(p, "after"))
      BY <1>9 DEF ResetStep
    <2>2. Turns
      BY <1>3, <1>4, <1>5, <2>1 DEF ComesFrom
    <2>3. /\ job' = job /\ old' = old /\ shot' = shot
          /\ \/ aborted' = aborted
             \/ aborted' = [aborted EXCEPT ![p] = ~answered]
             \/ aborted' = [aborted EXCEPT ![p] = (value # 1)]
      BY <1>9 DEF ResetStep, Keeps
    <2>4. (~answered) \in BOOLEAN /\ (value # 1) \in BOOLEAN
      OBVIOUS
    <2>5. aborted' \in [Processes -> BOOLEAN]
      BY <1>1, <2>3, <2>4
    <2>6. QED
      BY <1>0, <1>1, <2>2, <2>3, <2>5 DEF Turns
  <1>10. QED
    BY <1>0, <1>6, <1>7, <1>8, <1>9

\* The oldest request is gone and nobody hears of it.
LEMMA UpkeepDrained ==
    ASSUME UpkeepInv, Drains,
           UNCHANGED <<step, waits, job, old, aborted, code, shot, late>>,
           UNCHANGED <<lock, api, id, actions, recent, results, staged, dirty, requests, calls, moved, left, wish, done>>
    PROVE  UpkeepInv'
  <1>0. /\ UpkeepTypes /\ UpkeepServes /\ UpkeepFlags /\ Sessions /\ WaitsForNewest /\ ReadBackHolds /\ NoneHalfReset
        /\ StagedIsDirty /\ CacheKnows
    BY DEF UpkeepInv
  <1>1. UpkeepTypes' /\ UpkeepServes' /\ UpkeepFlags' /\ Sessions' /\ StagedIsDirty' /\ CacheKnows'
    BY <1>0 DEF Drains, UpkeepTypes, UpkeepServes, UpkeepFlags, Sessions, StagedIsDirty, CacheKnows
  <1>2. WaitsForNewest'
    BY <1>0 DEF Drains, WaitsForNewest, RequestOf
  <1>3. ReadBackHolds'
    BY <1>0 DEF Drains, ReadBackHolds
  <1>4. NoneHalfReset'
    BY <1>0 DEF Drains, NoneHalfReset, Resetting
  <1>5. QED
    BY <1>1, <1>2, <1>3, <1>4 DEF UpkeepInv

\* A request or an answer is lost.
LEMMA UpkeepLost ==
    ASSUME UpkeepInv, Lost
    PROVE  UpkeepInv'
  <1>1. UpkeepTypes
    BY DEF UpkeepInv
  <1>2. /\ Lose
        /\ UNCHANGED <<step, waits, job, old, aborted, code, shot, late>>
        /\ UNCHANGED <<lock, api, id, actions, recent, results, staged, dirty, requests, calls, moved, left, wish, done>>
    BY DEF Lost, session, cache, stage, count, seen
  <1>3. QED
    BY <1>1, <1>2, UpkeepLose, UpkeepDrained


\* An answer that nothing older can be is the own one.
LEMMA UpkeepHear ==
    ASSUME UpkeepInv, NEW p \in Processes, waits[p],
           NEW value \in Values \cup {Unset}, NEW answered \in BOOLEAN, Hears(p, value, answered),
           LinkTypeOK', late' \in BOOLEAN, ~late' => ~late,
           UNCHANGED <<lock, api, id, actions, recent, results, staged, dirty, requests, calls, moved, left, wish, done>>,
           OnlyReads(link) => ctl' = ctl /\ OnlyReads(link'),
           Harmless(link) /\ ctl[State] # 1 => ctl'[State] # 1 /\ Harmless(link'),
           ~answered => value = Unset,
           answered /\ ~late' => link' = <<>>,
           answered /\ ~late' /\ RequestOf(p).op = "r" =>
               ctl' = ctl /\ value \in {Unset, ctl[RequestOf(p).addr]}
    PROVE  UpkeepInv'
  <1>0. /\ UpkeepTypes /\ UpkeepServes /\ UpkeepFlags /\ Sessions /\ WaitsForNewest /\ ReadBackHolds /\ NoneHalfReset
        /\ StagedIsDirty /\ CacheKnows /\ LinkAssumption
    BY LinkAssumption DEF UpkeepInv
  <1>1. step[p] \in Steps /\ lock = p /\ "free" \notin Processes /\ "api" \in Processes
    BY <1>0 DEF Sessions, Processes
  <1>2. \A q \in Processes \ {p} : ~waits[q] /\ step[q] \notin Steps /\ ~Resetting(q)
    BY <1>0, <1>1 DEF Sessions, Resetting, Steps
  <1>3. /\ waits' = [waits EXCEPT ![p] = FALSE] /\ job' = job
        /\ \E s \in Steps \cup {"end"}, c \in Codes :
              /\ step' = [step EXCEPT ![p] = s] /\ code' = [code EXCEPT ![p] = c]
              /\ ComesFrom(p, s, c, value)
        /\ old' = old \/ (step[p] = "current" /\ value \in Values /\ old' = [old EXCEPT ![p] = value])
        /\ aborted' \in [Processes -> BOOLEAN]
        /\ shot' \in [Processes -> Values \cup {Unset}]
    BY <1>0, <1>1, UpkeepTurn
  <1>4. PICK s \in Steps \cup {"end"}, c \in Codes :
              /\ step' = [step EXCEPT ![p] = s] /\ code' = [code EXCEPT ![p] = c]
              /\ ComesFrom(p, s, c, value)
    BY <1>3
  <1>5. /\ step'[p] = s /\ code'[p] = c /\ s # "closed" /\ step[p] # "closed" /\ step[p] # "end"
        /\ \A q \in Processes \ {p} : step'[q] = step[q] /\ code'[q] = code[q] /\ ~waits'[q] /\ old'[q] = old[q]
        /\ step' \in [Processes -> Steps \cup {"closed", "end"}]
        /\ code' \in [Processes -> Codes]
        /\ waits' \in [Processes -> BOOLEAN] /\ ~waits'[p]
        /\ old' \in [Processes -> Values] /\ (step[p] # "current" => old' = old)
    BY <1>0, <1>1, <1>2, <1>3, <1>4 DEF UpkeepTypes, Steps
  <1>6. /\ job[p].val \in Values /\ old[p] \in Values /\ 0 \in Values /\ Unset \notin Values
    BY <1>0, UpkeepJobs, MaintenanceAssumption DEF UpkeepTypes, LinkAssumption, MaintenanceAssumption
  <1>7. /\ step[p] \in {"current", "refBefore", "write", "readback", "unwrite", "reread", "refAfter"} => job[p].kind = "set"
        /\ step[p] \in {"before", "one", "readOne", "zero", "readZero"} => job[p].kind = "reset"
    BY <1>0 DEF Sessions
  <1>8. /\ step[p] \in {"current", "readback", "reread", "before", "after"} =>
                  RequestOf(p).op = "r" /\ RequestOf(p).addr = Setting
        /\ step[p] = "readZero" => RequestOf(p).op = "r" /\ RequestOf(p).addr = State
    BY <1>0, <1>1, UpkeepRequests
  <1>9. OnlyReads(<<>>) /\ Harmless(<<>>)
    BY DEF OnlyReads, Harmless
  \* What was read is there, with nothing under way.
  <1>10. ASSUME value # Unset, ~late', RequestOf(p).op = "r"
         PROVE  ctl'[RequestOf(p).addr] = value /\ OnlyReads(link') /\ Harmless(link')
    BY <1>9, <1>10
  <1>11. UpkeepTypes' /\ UpkeepServes' /\ UpkeepFlags'
    <2>1. UpkeepTypes'
      BY <1>0, <1>3, <1>5 DEF UpkeepTypes
    <2>2. step["api"] = "closed" <=> step'["api"] = "closed"
      BY <1>1, <1>5
    <2>3. QED
      BY <1>0, <2>1, <2>2 DEF UpkeepServes, UpkeepFlags
  <1>12. Sessions'
    <2>1. /\ s \in {"current", "refBefore", "write", "readback", "unwrite", "reread", "refAfter"} => job[p].kind = "set"
          /\ s \in {"before", "one", "readOne", "zero", "readZero"} => job[p].kind = "reset"
      BY <1>4, <1>7 DEF ComesFrom
    <2>2. QED
      BY <1>0, <1>1, <1>3, <1>5, <2>1 DEF Sessions
  <1>13. WaitsForNewest'
    BY <1>5 DEF WaitsForNewest
  <1>14. ReadBackHolds'
    <2>1. SUFFICES ASSUME ~moved', ~late'
                   PROVE  /\ job[p].kind = "set" /\ (s \in {"refAfter", "after"} \/ (s = "end" /\ c = "ok"))
                             => ctl'[Setting] = job[p].val /\ OnlyReads(link')
                          /\ s = "end" /\ c = "restored" => ctl'[Setting] = old'[p] /\ OnlyReads(link')
                          /\ job[p].kind = "reset" /\ (s = "after" \/ (s = "end" /\ c \in {"ok", "aborted"}))
                             => ctl'[State] = 0 /\ OnlyReads(link')
      BY <1>1, <1>3, <1>5 DEF ReadBackHolds
    <2>2. /\ job[p].kind = "set" /\ step[p] \in {"refAfter", "after"}
             => ctl'[Setting] = job[p].val /\ OnlyReads(link')
          /\ job[p].kind = "reset" /\ step[p] = "after" => ctl'[State] = 0 /\ OnlyReads(link')
      BY <1>0, <1>1, <2>1 DEF ReadBackHolds
    <2>3. s = "after" \/ s = "refAfter" \/ (s = "end" /\ c \in {"ok", "restored", "aborted"}) =>
             \/ step[p] \in {"current", "readback"} /\ s \in {"after", "refAfter"} /\ value = job[p].val
             \/ step[p] = "readZero" /\ value = 0 /\ s \in {"after", "end"} /\ c # "restored"
             \/ step[p] = "readZero" /\ value = 0 /\ s = "after"
             \/ step[p] = "reread" /\ value = old[p] /\ s = "end" /\ c = "restored"
             \/ step[p] = "refAfter" /\ s = "after"
             \/ step[p] = "after" /\ s = "end" /\ c = "ok"
      BY <1>4 DEF ComesFrom
    <2>4. step[p] \in {"current", "readback"} /\ value = job[p].val => ctl'[Setting] = job[p].val /\ OnlyReads(link')
      BY <1>6, <1>8, <1>10, <2>1
    <2>5. step[p] = "readZero" /\ value = 0 => ctl'[State] = 0 /\ OnlyReads(link')
      BY <1>6, <1>8, <1>10, <2>1
    <2>6. step[p] = "reread" /\ value = old[p] => ctl'[Setting] = old'[p] /\ OnlyReads(link')
      BY <1>5, <1>6, <1>8, <1>10, <2>1
    <2>7. QED
      BY <1>7, <2>2, <2>3, <2>4, <2>5, <2>6
  <1>15. NoneHalfReset'
    <2>1. SUFFICES ASSUME ~left', ~late', ~Resetting(p)'
                   PROVE  ctl'[State] # 1 /\ Harmless(link')
      BY DEF NoneHalfReset
    <2>2. CASE step[p] \in {"one", "readOne", "zero", "readZero"}
      <3>1. step[p] = "readZero" /\ value = 0
        BY <1>1, <1>4, <1>5, <2>1, <2>2 DEF ComesFrom, Resetting
      <3>2. QED
        BY <1>6, <1>8, <1>10, <2>1, <3>1
    <2>3. CASE step[p] \notin {"one", "readOne", "zero", "readZero"}
      <3>1. \A q \in Processes : ~Resetting(q)
        BY <1>2, <1>5, <2>3 DEF Resetting
      <3>2. QED
        BY <1>0, <2>1, <3>1 DEF NoneHalfReset
    <2>4. QED
      BY <2>2, <2>3
  <1>16. StagedIsDirty' /\ CacheKnows'
    BY <1>0 DEF StagedIsDirty, CacheKnows
  <1>17. QED
    BY <1>11, <1>12, <1>13, <1>14, <1>15, <1>16 DEF UpkeepInv

\* An answer, to the process that waits for its address or to nobody.
LEMMA UpkeepAnswer ==
    ASSUME UpkeepInv, Answer
    PROVE  UpkeepInv'
  <1>0. /\ UpkeepTypes /\ UpkeepServes /\ UpkeepFlags /\ Sessions /\ WaitsForNewest /\ ReadBackHolds /\ NoneHalfReset
        /\ StagedIsDirty /\ CacheKnows
    BY DEF UpkeepInv
  <1>a. PICK a \in Datapoints, b \in BOOLEAN, v \in Values :
           LET reply == Reply(a, b, v)
               ear   == {p \in Processes : waits[p] /\ RequestOf(p).addr = a}
           IN  /\ Serve(reply)
               /\ \/ ear = {} /\ UNCHANGED <<session, late>>
                  \/ \E p \in ear, value \in Meanings(Head(link), reply) :
                        Hears(p, value, TRUE) /\ late' = (late \/ link' # <<>>)
               /\ UNCHANGED <<lock, api, id, actions, cache, stage, count, moved, left, wish, done>>
    BY DEF Answer
  <1>1. /\ Serve(Reply(a, b, v))
        /\ \/ UNCHANGED <<step, waits, job, old, aborted, code, shot, late>>
           \/ \E p \in {q \in Processes : waits[q] /\ RequestOf(q).addr = a},
                 value \in Meanings(Head(link), Reply(a, b, v)) :
                 Hears(p, value, TRUE) /\ late' = (late \/ link' # <<>>)
        /\ UNCHANGED <<lock, api, id, actions, recent, results, staged, dirty, requests, calls, moved, left, wish, done>>
    BY <1>a DEF session, cache, stage, count
  <1>2. Drains /\ Head(link).addr = a /\ (Head(link).op = "r" => ctl' = ctl /\ (b => v = ctl[a]))
    BY <1>0, <1>1, UpkeepServe
  <1>3. CASE UNCHANGED <<step, waits, job, old, aborted, code, shot, late>>
    BY <1>0, <1>1, <1>2, <1>3, UpkeepDrained
  <1>4. ASSUME NEW p \in Processes, waits[p], RequestOf(p).addr = a,
               NEW value \in Meanings(Head(link), Reply(a, b, v)),
               Hears(p, value, TRUE), late' = (late \/ link' # <<>>)
        PROVE  UpkeepInv'
    <2>1. late' \in BOOLEAN /\ (~late' => ~late /\ link' = <<>>)
      BY <1>4
    <2>2. value \in Values \cup {Unset} /\ (Head(link).op = "r" => value \in {Unset, ctl[a]})
      BY <1>2, <1>4 DEF Meanings, Reply
    <2>3. link' = <<>> => Head(link) = RequestOf(p)
      BY <1>0, <1>2, <1>4 DEF Drains, WaitsForNewest
    <2>4. ~late' /\ RequestOf(p).op = "r" => ctl' = ctl /\ value \in {Unset, ctl[RequestOf(p).addr]}
      BY <1>2, <1>4, <2>1, <2>2, <2>3
    <2>5. /\ LinkTypeOK'
          /\ OnlyReads(link) => ctl' = ctl /\ OnlyReads(link')
          /\ Harmless(link) /\ ctl[State] # 1 => ctl'[State] # 1 /\ Harmless(link')
      BY <1>2 DEF Drains
    <2>6. QED
      BY <1>1, <1>4, <2>2, <2>4, <2>5, UpkeepHear
  <1>5. QED
    BY <1>1, <1>3, <1>4

\* No answer in time.
LEMMA UpkeepTimeOut ==
    ASSUME UpkeepInv, NEW p \in Processes, TimeOut(p)
    PROVE  UpkeepInv'
  <1>1. /\ waits[p] /\ Hears(p, Unset, FALSE)
        /\ UNCHANGED <<link, ctl, lock, api, id, actions, recent, results, staged, dirty, requests, calls,
                       moved, late, left, wish, done>>
        /\ faults' = faults \/ (faults < MaxFaults /\ faults' = faults + 1)
    BY DEF TimeOut, GiveUp, Fault, cache, stage, count, seen
  <1>2. UpkeepTypes /\ UpkeepFlags
    BY DEF UpkeepInv
  <1>3. LinkTypeOK'
    <2>1. faults' \in 0 .. MaxFaults
      BY <1>1, <1>2, LinkAssumption DEF UpkeepTypes, LinkTypeOK, LinkAssumption
    <2>2. QED
      BY <1>1, <1>2, <2>1 DEF UpkeepTypes, LinkTypeOK
  <1>4. late' \in BOOLEAN /\ (~late' => ~late)
    BY <1>1, <1>2 DEF UpkeepFlags
  <1>5. /\ OnlyReads(link) => ctl' = ctl /\ OnlyReads(link')
        /\ Harmless(link) /\ ctl[State] # 1 => ctl'[State] # 1 /\ Harmless(link')
    BY <1>1 DEF OnlyReads, Harmless
  <1>6. Unset \in Values \cup {Unset} /\ FALSE \in BOOLEAN
    OBVIOUS
  <1>7. QED
    BY <1>1, <1>3, <1>4, UpkeepHear

\* A session is opened, or refused.
LEMMA UpkeepOpen ==
    ASSUME UpkeepInv, NEW p \in Processes, step[p] = "closed",
           NEW j \in Jobs \cup {Snapshot}, Open(p, j), UNCHANGED <<link, ctl, faults, left>>
    PROVE  /\ UpkeepTypes' /\ moved' \in BOOLEAN /\ late' \in BOOLEAN /\ Sessions' /\ WaitsForNewest' /\ ReadBackHolds' /\ NoneHalfReset'
           /\ step'[p] # "closed" /\ \A q \in Processes \ {p} : step'[q] = step[q]
  <1>0. /\ UpkeepTypes /\ UpkeepServes /\ UpkeepFlags /\ Sessions /\ WaitsForNewest /\ ReadBackHolds /\ NoneHalfReset
    BY DEF UpkeepInv
  <1>1. /\ job' = [job EXCEPT ![p] = j] /\ UNCHANGED <<waits, old, aborted, shot, moved, late>>
        /\ \/ Ends(p, "refused") /\ lock' = lock
           \/ lock # "free" /\ Ends(p, "busy") /\ lock' = lock
           \/ lock = "free" /\ lock' = p /\ Goes(p, FirstStep(j))
    BY DEF Open
  <1>2. j.kind \in {"status", "set", "reset"}
    BY UpkeepJobs, LinkAssumption
  <1>3. /\ j.kind = "status" => FirstStep(j) = "after"
        /\ j.kind = "set" => FirstStep(j) = "current"
        /\ j.kind = "reset" => FirstStep(j) = "before"
    BY DEF FirstStep
  <1>4. /\ "free" \notin Processes /\ p # "free" /\ lock # p /\ ~waits[p]
        /\ job \in [Processes -> Jobs \cup {NoJob, Snapshot}]
        /\ step \in [Processes -> Steps \cup {"closed", "end"}]
        /\ code \in [Processes -> Codes]
        /\ lock = "free" => \A q \in Processes : step[q] \notin Steps
    BY <1>0 DEF UpkeepTypes, Sessions, Processes, Steps
  <1>5. /\ job' \in [Processes -> Jobs \cup {NoJob, Snapshot}] /\ job'[p] = j
        /\ \A q \in Processes \ {p} : step'[q] = step[q] /\ code'[q] = code[q] /\ job'[q] = job[q]
        /\ step' \in [Processes -> Steps \cup {"closed", "end"}]
        /\ code' \in [Processes -> Codes]
        /\ \/ step'[p] = "end" /\ code'[p] \in {"refused", "busy"} /\ lock' = lock
           \/ /\ lock = "free" /\ lock' = p
              /\ \/ step'[p] = "after" /\ j.kind = "status"
                 \/ step'[p] = "current" /\ j.kind = "set"
                 \/ step'[p] = "before" /\ j.kind = "reset"
    BY <1>1, <1>2, <1>3, <1>4 DEF Ends, Goes, Steps, Codes
  <1>6. UpkeepTypes'
    <2>1. lock' \in Processes \cup {"free"}
      BY <1>0, <1>5 DEF UpkeepTypes
    <2>2. LinkTypeOK'
      BY <1>0 DEF UpkeepTypes, LinkTypeOK
    <2>3. QED
      BY <1>0, <1>1, <1>5, <2>1, <2>2 DEF UpkeepTypes
  <1>7. moved' \in BOOLEAN /\ late' \in BOOLEAN
    BY <1>0, <1>1 DEF UpkeepFlags
  <1>8. Sessions'
    <2>1. \A q \in Processes : step'[q] \in Steps => lock' = q
      BY <1>0, <1>4, <1>5 DEF Sessions, Steps
    <2>2. \A q \in Processes : /\ lock' = q => step'[q] # "closed"
                               /\ waits'[q] => step'[q] \in Steps
      BY <1>0, <1>1, <1>4, <1>5 DEF Sessions
    <2>3. \A q \in Processes : step'[q] = "end" /\ lock' # q => code'[q] \in {"refused", "busy"}
      BY <1>0, <1>4, <1>5 DEF Sessions
    <2>4. \A q \in Processes :
             /\ step'[q] \in {"current", "refBefore", "write", "readback", "unwrite", "reread", "refAfter"} => job'[q].kind = "set"
             /\ step'[q] \in {"before", "one", "readOne", "zero", "readZero"} => job'[q].kind = "reset"
      BY <1>0, <1>5 DEF Sessions
    <2>5. lock' = "free" => ~moved' /\ ~late'
      BY <1>0, <1>1, <1>4, <1>5 DEF Sessions
    <2>6. QED
      BY <2>1, <2>2, <2>3, <2>4, <2>5 DEF Sessions
  <1>9. WaitsForNewest'
    <2>1. SUFFICES ASSUME NEW q \in Processes, waits'[q], link' # <<>>
                   PROVE  link'[Len(link')] = RequestOf(q)'
      BY DEF WaitsForNewest
    <2>2. q # p /\ waits[q] /\ link' = link
      BY <1>1, <1>4, <2>1
    <2>3. step'[q] = step[q] /\ job'[q] = job[q] /\ old'[q] = old[q]
      BY <1>1, <1>5, <2>2
    <2>4. RequestOf(q)' = RequestOf(q)
      BY <2>3 DEF RequestOf
    <2>5. QED
      BY <1>0, <2>1, <2>2, <2>4 DEF WaitsForNewest
  <1>10. ReadBackHolds'
    BY <1>0, <1>1, <1>4, <1>5 DEF ReadBackHolds
  <1>11. NoneHalfReset'
    <2>1. \A q \in Processes : Resetting(q) => Resetting(q)'
      BY <1>4, <1>5 DEF Resetting
    <2>2. QED
      BY <1>0, <1>1, <2>1 DEF NoneHalfReset
  <1>12. QED
    BY <1>5, <1>6, <1>7, <1>8, <1>9, <1>10, <1>11

\* A session that ended is closed.
LEMMA UpkeepClose ==
    ASSUME UpkeepInv, NEW p \in Processes, step[p] = "end", Close(p)
    PROVE  /\ UpkeepTypes' /\ moved' \in BOOLEAN /\ late' \in BOOLEAN /\ left' \in BOOLEAN
           /\ Sessions' /\ WaitsForNewest' /\ ReadBackHolds' /\ NoneHalfReset'
           /\ step'[p] = "closed" /\ \A q \in Processes \ {p} : step'[q] = step[q]
  <1>0. /\ UpkeepTypes /\ UpkeepServes /\ UpkeepFlags /\ Sessions /\ WaitsForNewest /\ ReadBackHolds /\ NoneHalfReset
    BY DEF UpkeepInv
  <1>1. /\ lock' = IF lock = p THEN "free" ELSE lock
        /\ step' = [step EXCEPT ![p] = "closed"] /\ job' = [job EXCEPT ![p] = NoJob] /\ old' = [old EXCEPT ![p] = 0]
        /\ code' = [code EXCEPT ![p] = "ok"] /\ shot' = [shot EXCEPT ![p] = Unset]
        /\ aborted' = [aborted EXCEPT ![p] = FALSE]
        /\ UNCHANGED <<link, ctl, faults, waits, requests, calls>>
    BY DEF Close, linkVars, count
  <1>2. left' = (left \/ code[p] \in {"unverified", "unsafe"} \/ (late /\ lock = p))
    BY DEF Close
  <1>3. moved' = (moved /\ lock # p) /\ late' = (late /\ lock # p)
    BY DEF Close
  <1>4. /\ left' \in BOOLEAN /\ (~left' => ~left /\ code[p] # "unsafe" /\ (lock = p => ~late))
        /\ moved' \in BOOLEAN /\ late' \in BOOLEAN
        /\ lock # p => (moved' <=> moved) /\ (late' <=> late)
        /\ lock = p => ~moved' /\ ~late'
    BY <1>2, <1>3
  <1>5. "free" \notin Processes /\ 0 \in Values /\ ~waits[p]
    BY <1>0, LinkAssumption DEF Processes, LinkAssumption, Sessions, Steps
  <1>6. UpkeepTypes'
    <2>1. LinkTypeOK' /\ lock' \in Processes \cup {"free"}
      BY <1>0, <1>1 DEF UpkeepTypes, LinkTypeOK
    <2>2. QED
      BY <1>0, <1>1, <1>5, <2>1 DEF UpkeepTypes, Codes
  <1>7. /\ step'[p] = "closed" /\ lock' # p
        /\ \A q \in Processes \ {p} :
              step'[q] = step[q] /\ code'[q] = code[q] /\ job'[q] = job[q] /\ old'[q] = old[q] /\ (lock' = q <=> lock = q)
    BY <1>0, <1>1, <1>5 DEF UpkeepTypes
  <1>8. Sessions'
    <2>1. \A q \in Processes :
            /\ step'[q] \in Steps => lock' = q
            /\ lock' = q => step'[q] # "closed"
            /\ waits'[q] => step'[q] \in Steps
            /\ step'[q] = "end" /\ lock' # q => code'[q] \in {"refused", "busy"}
      BY <1>0, <1>1, <1>5, <1>7 DEF Sessions, Steps
    <2>2. \A q \in Processes :
             /\ step'[q] \in {"current", "refBefore", "write", "readback", "unwrite", "reread", "refAfter"} => job'[q].kind = "set"
             /\ step'[q] \in {"before", "one", "readOne", "zero", "readZero"} => job'[q].kind = "reset"
      BY <1>0, <1>7 DEF Sessions
    <2>3. lock' = "free" => ~moved' /\ ~late'
      BY <1>0, <1>1, <1>4 DEF Sessions
    <2>4. QED
      BY <2>1, <2>2, <2>3 DEF Sessions
  <1>9. WaitsForNewest'
    <2>1. SUFFICES ASSUME NEW q \in Processes, waits'[q], link' # <<>>
                   PROVE  link'[Len(link')] = RequestOf(q)'
      BY DEF WaitsForNewest
    <2>2. q # p /\ waits[q] /\ link' = link
      BY <1>1, <1>5, <2>1
    <2>3. step'[q] = step[q] /\ job'[q] = job[q] /\ old'[q] = old[q]
      BY <1>1, <1>7, <2>2
    <2>4. RequestOf(q)' = RequestOf(q)
      BY <2>3 DEF RequestOf
    <2>5. QED
      BY <1>0, <2>1, <2>2, <2>4 DEF WaitsForNewest
  <1>10. ReadBackHolds'
    BY <1>0, <1>1, <1>4, <1>7 DEF ReadBackHolds
  <1>11. NoneHalfReset'
    <2>1. SUFFICES ASSUME ~left', ~late', \A q \in Processes : ~Resetting(q)'
                   PROVE  ctl'[State] # 1 /\ Harmless(link')
      BY DEF NoneHalfReset
    <2>2. \A q \in Processes : ~Resetting(q)
      BY <1>4, <1>7, <2>1 DEF Resetting
    <2>3. ~left /\ ~late
      BY <1>4, <2>1
    <2>4. QED
      BY <1>0, <1>1, <2>2, <2>3 DEF NoneHalfReset
  <1>12. QED
    BY <1>4, <1>6, <1>7, <1>8, <1>9, <1>10, <1>11

\* The request of a step is sent.
LEMMA UpkeepAsk ==
    ASSUME UpkeepInv, NEW p \in Processes, Ask(p)
    PROVE  UpkeepInv'
  <1>0. /\ UpkeepTypes /\ UpkeepServes /\ UpkeepFlags /\ Sessions /\ WaitsForNewest /\ ReadBackHolds /\ NoneHalfReset
        /\ StagedIsDirty /\ CacheKnows /\ LinkAssumption
    BY LinkAssumption DEF UpkeepInv
  <1>1. /\ step[p] \in Steps /\ link' = Append(link, RequestOf(p)) /\ waits' = [waits EXCEPT ![p] = TRUE]
        /\ UNCHANGED <<ctl, faults, lock, step, job, old, aborted, code, shot, api, id, actions, recent, results,
                       staged, dirty, requests, calls, moved, late, left, wish, done>>
    BY DEF Ask, cache, stage, count, seen
  <1> DEFINE r == RequestOf(p)
  <1>2. /\ r \in LinkRequests
        /\ step[p] \in {"refAfter", "after"} => r.op = "r"
        /\ step[p] # "one" /\ r.op = "w" /\ r.addr = State => r.val # 1
    BY <1>0, <1>1, UpkeepRequests
  <1>3. link \in Seq(LinkRequests) /\ link' = Append(link, r) /\ r' = r
    BY <1>0, <1>1 DEF UpkeepTypes, LinkTypeOK, RequestOf
  <1> HIDE DEF r
  <1>4. /\ link' \in Seq(LinkRequests) /\ link'[Len(link')] = r
        /\ \A i \in 1 .. Len(link') : (i \in 1 .. Len(link) /\ link'[i] = link[i]) \/ link'[i] = r
    BY <1>2, <1>3, QueueNewest
  <1>5. lock = p /\ \A q \in Processes \ {p} : ~waits[q]
    BY <1>0, <1>1 DEF Sessions
  <1>6. UpkeepTypes' /\ UpkeepServes' /\ UpkeepFlags' /\ Sessions' /\ StagedIsDirty' /\ CacheKnows'
    <2>1. LinkTypeOK'
      BY <1>0, <1>1, <1>4 DEF UpkeepTypes, LinkTypeOK
    <2>2. waits' \in [Processes -> BOOLEAN] /\ \A q \in Processes \ {p} : waits'[q] = waits[q]
      BY <1>0, <1>1 DEF UpkeepTypes
    <2>3. UpkeepTypes' /\ UpkeepServes' /\ UpkeepFlags' /\ StagedIsDirty' /\ CacheKnows'
      BY <1>0, <1>1, <2>1, <2>2
         DEF UpkeepTypes, UpkeepServes, UpkeepFlags, StagedIsDirty, CacheKnows
    <2>4. Sessions'
      BY <1>0, <1>1, <2>2 DEF Sessions
    <2>5. QED
      BY <2>3, <2>4
  <1>7. WaitsForNewest'
    <2>1. SUFFICES ASSUME NEW q \in Processes, waits'[q] PROVE link'[Len(link')] = RequestOf(q)'
      BY DEF WaitsForNewest
    <2>2. q = p
      BY <1>0, <1>1, <1>5, <2>1 DEF UpkeepTypes
    <2>3. QED
      BY <1>3, <1>4, <2>2 DEF r
  <1>8. ReadBackHolds'
    <2>1. step[p] \in {"refAfter", "after"} /\ OnlyReads(link) => OnlyReads(link')
      BY <1>2, <1>4 DEF OnlyReads
    <2>2. step[p] # "end"
      BY <1>1 DEF Steps
    <2>3. QED
      BY <1>0, <1>1, <1>5, <2>1, <2>2 DEF ReadBackHolds
  <1>9. NoneHalfReset'
    <2>1. ~Resetting(p) /\ Harmless(link) => Harmless(link')
      BY <1>2, <1>4 DEF Harmless, Resetting
    <2>2. \A q \in Processes : Resetting(q)' = Resetting(q)
      BY <1>1 DEF Resetting
    <2>3. QED
      BY <1>0, <1>1, <2>1, <2>2 DEF NoneHalfReset
  <1>10. QED
    BY <1>6, <1>7, <1>8, <1>9 DEF UpkeepInv

\* What only the thread of the service does leaves the sessions alone.
LEMMA UpkeepAside ==
    ASSUME UpkeepInv,
           UNCHANGED <<link, ctl, faults, lock, step, waits, job, old, aborted, code, shot, moved, late, left>>
    PROVE  UpkeepTypes' /\ Sessions' /\ WaitsForNewest' /\ ReadBackHolds' /\ NoneHalfReset'
  <1>0. UpkeepTypes /\ Sessions /\ WaitsForNewest /\ ReadBackHolds /\ NoneHalfReset
    BY DEF UpkeepInv
  <1>1. UpkeepTypes' /\ Sessions'
    BY <1>0 DEF UpkeepTypes, LinkTypeOK, Sessions
  <1>2. WaitsForNewest'
    BY <1>0 DEF WaitsForNewest, RequestOf
  <1>3. ReadBackHolds'
    BY <1>0 DEF ReadBackHolds
  <1>4. NoneHalfReset'
    BY <1>0 DEF NoneHalfReset, Resetting
  <1>5. QED
    BY <1>1, <1>2, <1>3, <1>4

\* A request or a staged value arrives.
LEMMA UpkeepReceive ==
    ASSUME UpkeepInv, NEW item \in Items, Receive(item)
    PROVE  UpkeepInv'
  <1>0. UpkeepServes /\ UpkeepFlags /\ StagedIsDirty /\ CacheKnows
    BY DEF UpkeepInv
  <1>1. /\ UNCHANGED <<link, ctl, faults, lock, step, waits, job, old, aborted, code, shot, api, id, recent, results,
                       staged, dirty, calls, moved, late, left, wish, done>>
        /\ requests < MaxRequests /\ requests' = requests + 1
        /\ actions' = IF Len(actions) < QueueSize THEN Append(actions, item) ELSE actions
    BY DEF Receive, linkVars, session, cache, stage, seen
  <1>2. requests' \in 0 .. MaxRequests
    BY <1>0, <1>1, MaintenanceAssumption DEF UpkeepServes, MaintenanceAssumption
  <1>3. actions' \in Seq(Items) /\ Len(actions') <= QueueSize
    BY <1>0, <1>1, MaintenanceAssumption DEF UpkeepServes, MaintenanceAssumption
  <1>4. UpkeepServes'
    BY <1>0, <1>1, <1>2, <1>3 DEF UpkeepServes
  <1>5. UpkeepTypes' /\ Sessions' /\ WaitsForNewest' /\ ReadBackHolds' /\ NoneHalfReset'
    BY <1>1, UpkeepAside
  <1>6. UpkeepFlags' /\ StagedIsDirty' /\ CacheKnows'
    BY <1>0, <1>1 DEF UpkeepFlags, StagedIsDirty, CacheKnows
  <1>7. QED
    BY <1>4, <1>5, <1>6 DEF UpkeepInv

\* The service starts with a snapshot.
LEMMA UpkeepInitial ==
    ASSUME UpkeepInv, Initial
    PROVE  UpkeepInv'
  <1>0. UpkeepServes /\ UpkeepFlags /\ StagedIsDirty /\ CacheKnows
    BY DEF UpkeepInv
  <1>1. /\ api = "start" /\ api' = "initial" /\ Open("api", Snapshot)
        /\ UNCHANGED <<link, ctl, faults, id, actions, recent, results, staged, dirty, requests, calls, left, wish, done>>
    BY DEF Initial, linkVars, cache, stage, count
  <1>2. "api" \in Processes /\ step["api"] = "closed"
    BY <1>0, <1>1 DEF Processes, UpkeepServes
  <1>3. /\ UpkeepTypes' /\ moved' \in BOOLEAN /\ late' \in BOOLEAN /\ Sessions' /\ WaitsForNewest' /\ ReadBackHolds'
        /\ NoneHalfReset' /\ step'["api"] # "closed"
    BY <1>1, <1>2, UpkeepOpen
  <1>4. UpkeepServes' /\ UpkeepFlags' /\ StagedIsDirty' /\ CacheKnows'
    BY <1>0, <1>1, <1>3 DEF UpkeepServes, UpkeepFlags, StagedIsDirty, CacheKnows
  <1>5. QED
    BY <1>3, <1>4 DEF UpkeepInv

\* The first snapshot is there, or is left out.
LEMMA UpkeepInitialDone ==
    ASSUME UpkeepInv, InitialDone
    PROVE  UpkeepInv'
  <1>0. UpkeepTypes /\ UpkeepServes /\ UpkeepFlags /\ StagedIsDirty /\ CacheKnows
    BY DEF UpkeepInv
  <1>1. /\ api = "initial" /\ step["api"] = "end" /\ api' = "loop" /\ Close("api")
        /\ \/ staged' = shot["api"] /\ dirty' = FALSE
           \/ staged' = staged /\ dirty' = dirty
        /\ UNCHANGED <<id, actions, recent, results, requests, calls, wish, done>>
    BY DEF InitialDone, Sync, cache, stage, Close, count
  <1>2. "api" \in Processes
    BY DEF Processes
  <1>3. /\ UpkeepTypes' /\ moved' \in BOOLEAN /\ late' \in BOOLEAN /\ left' \in BOOLEAN
        /\ Sessions' /\ WaitsForNewest' /\ ReadBackHolds' /\ NoneHalfReset' /\ step'["api"] = "closed"
    BY <1>1, <1>2, UpkeepClose
  <1>4. UpkeepServes' /\ UpkeepFlags'
    BY <1>0, <1>1, <1>2, <1>3 DEF UpkeepTypes, UpkeepServes, UpkeepFlags
  <1>5. StagedIsDirty' /\ CacheKnows'
    BY <1>0, <1>1 DEF StagedIsDirty, CacheKnows
  <1>6. QED
    BY <1>3, <1>4, <1>5 DEF UpkeepInv

\* A request is taken; one that has a result is answered from the cache.
LEMMA UpkeepTakeRequest ==
    ASSUME UpkeepInv, TakeRequest
    PROVE  UpkeepInv'
  <1>0. UpkeepServes /\ UpkeepFlags /\ StagedIsDirty /\ CacheKnows
    BY DEF UpkeepInv
  <1>1. /\ api = "loop" /\ actions # <<>> /\ "job" \in DOMAIN Head(actions) /\ actions' = Tail(actions)
        /\ \/ UNCHANGED <<lock, step, waits, job, old, aborted, code, shot, api, id, moved, late>>
           \/ api' = "request" /\ id' = Head(actions).id /\ Open("api", Head(actions).job)
        /\ UNCHANGED <<link, ctl, faults, recent, results, staged, dirty, requests, calls, left, wish, done>>
    BY DEF TakeRequest, linkVars, session, cache, stage, count
  <1>2. /\ Tail(actions) \in Seq(Items) /\ Len(Tail(actions)) <= QueueSize
        /\ Head(actions).id \in Ids /\ Head(actions).job \in Jobs
    BY <1>0, <1>1, UpkeepItems
  <1>3. StagedIsDirty' /\ CacheKnows'
    BY <1>0, <1>1 DEF StagedIsDirty, CacheKnows
  <1>4. CASE UNCHANGED <<lock, step, waits, job, old, aborted, code, shot, api, id, moved, late>>
    <2>1. UpkeepServes'
      BY <1>0, <1>1, <1>2, <1>4 DEF UpkeepServes
    <2>2. UpkeepTypes' /\ Sessions' /\ WaitsForNewest' /\ ReadBackHolds' /\ NoneHalfReset'
      BY <1>1, <1>4, UpkeepAside
    <2>3. UpkeepFlags'
      BY <1>0, <1>1, <1>4 DEF UpkeepFlags
    <2>4. QED
      BY <1>3, <2>1, <2>2, <2>3 DEF UpkeepInv
  <1>5. CASE api' = "request" /\ id' = Head(actions).id /\ Open("api", Head(actions).job)
    <2>1. "api" \in Processes /\ step["api"] = "closed"
      BY <1>0, <1>1 DEF Processes, UpkeepServes
    <2>2. /\ UpkeepTypes' /\ moved' \in BOOLEAN /\ late' \in BOOLEAN /\ Sessions' /\ WaitsForNewest' /\ ReadBackHolds'
          /\ NoneHalfReset' /\ step'["api"] # "closed"
      BY <1>1, <1>2, <1>5, <2>1, UpkeepOpen
    <2>3. UpkeepServes' /\ UpkeepFlags'
      BY <1>0, <1>1, <1>2, <1>5, <2>2 DEF UpkeepServes, UpkeepFlags
    <2>4. QED
      BY <1>3, <2>2, <2>3 DEF UpkeepInv
  <1>6. QED
    BY <1>1, <1>4, <1>5

\* A value is staged.
LEMMA UpkeepTakeStage ==
    ASSUME UpkeepInv, TakeStage
    PROVE  UpkeepInv'
  <1>0. UpkeepServes /\ UpkeepFlags /\ StagedIsDirty /\ CacheKnows
    BY DEF UpkeepInv
  <1>1. /\ api = "loop" /\ actions # <<>> /\ "stage" \in DOMAIN Head(actions) /\ actions' = Tail(actions)
        /\ staged' = Head(actions).stage /\ dirty' = TRUE /\ wish' = Head(actions).stage
        /\ UNCHANGED <<link, ctl, faults, lock, step, waits, job, old, aborted, code, shot, api, id, recent, results,
                       requests, calls, moved, late, left, done>>
    BY DEF TakeStage, linkVars, session, cache, count
  <1>2. /\ Tail(actions) \in Seq(Items) /\ Len(Tail(actions)) <= QueueSize
        /\ Head(actions).stage \in Values
    BY <1>0, <1>1, UpkeepItems
  <1>3. UpkeepServes' /\ UpkeepFlags' /\ StagedIsDirty'
    BY <1>0, <1>1, <1>2 DEF UpkeepServes, UpkeepFlags, StagedIsDirty
  <1>4. UpkeepTypes' /\ Sessions' /\ WaitsForNewest' /\ ReadBackHolds' /\ NoneHalfReset'
    BY <1>1, UpkeepAside
  <1>5. CacheKnows'
    BY <1>0, <1>1 DEF CacheKnows
  <1>6. QED
    BY <1>3, <1>4, <1>5 DEF UpkeepInv

\* A result is remembered.
LEMMA UpkeepConclude ==
    ASSUME UpkeepInv, Conclude
    PROVE  UpkeepInv'
  <1>0. UpkeepTypes /\ UpkeepServes /\ UpkeepFlags /\ StagedIsDirty /\ CacheKnows
    BY DEF UpkeepInv
  <1>1. /\ api = "request" /\ step["api"] = "end" /\ api' = "loop" /\ id' = "none" /\ Close("api")
        /\ Cache(id, code["api"]) /\ done' = Latest(done, id)
        /\ UNCHANGED <<actions, requests, calls>>
    BY DEF Conclude, Close, count
  <1>2. "api" \in Processes /\ id \in Ids /\ code["api"] \in Codes
    BY <1>0, <1>1 DEF Processes, UpkeepServes, UpkeepTypes
  <1>3. /\ UpkeepTypes' /\ moved' \in BOOLEAN /\ late' \in BOOLEAN /\ left' \in BOOLEAN
        /\ Sessions' /\ WaitsForNewest' /\ ReadBackHolds' /\ NoneHalfReset' /\ step'["api"] = "closed"
    BY <1>1, <1>2, UpkeepClose
  <1>4. /\ \/ staged' = shot["api"] /\ dirty' = FALSE
           \/ staged' = staged /\ dirty' = dirty
        /\ wish' = Unset \/ (wish' = wish /\ (dirty => staged' = staged /\ dirty' = dirty))
    BY DEF Conclude, Sync, stage
  <1>5. UpkeepServes' /\ UpkeepFlags'
    BY <1>0, <1>1, <1>2, <1>3, <1>4 DEF UpkeepTypes, UpkeepServes, UpkeepFlags
  <1>6. StagedIsDirty'
    BY <1>0, <1>1, <1>4 DEF StagedIsDirty
  <1>7. CacheKnows'
    <2>1. /\ recent' = Latest(recent, id) /\ done' = recent'
          /\ results' = [k \in Ids |-> IF k = id THEN code["api"]
                                       ELSE IF k \in {recent'[n] : n \in DOMAIN recent'} THEN results[k] ELSE "none"]
      BY <1>0, <1>1 DEF Cache, CacheKnows
    <2> DEFINE latest == Latest(recent, id)
    <2>a. recent \in Seq(Ids) /\ Len(recent) <= CacheSize
      BY <1>0 DEF CacheKnows
    <2>b. /\ latest \in Seq(Ids) /\ Len(latest) <= CacheSize
          /\ \A k \in 1 .. Len(latest) : latest[k] = id \/ \E n \in 1 .. Len(recent) : latest[k] = recent[n]
      BY <1>2, <2>a, LatestFacts
    <2>2. /\ recent' \in Seq(Ids) /\ Len(recent') <= CacheSize
          /\ \A k \in 1 .. Len(recent') : recent'[k] = id \/ \E n \in 1 .. Len(recent) : recent'[k] = recent[n]
      BY <2>1, <2>b
    <2>3. results' \in [Ids -> Codes \cup {"none"}]
      BY <1>0, <1>2, <2>1 DEF CacheKnows
    <2>4. ASSUME NEW k \in 1 .. Len(recent') PROVE results'[recent'[k]] # "none"
      <3>1. recent'[k] \in Ids /\ recent'[k] \in {recent'[n] : n \in DOMAIN recent'}
        BY <2>2
      <3>2. "none" \notin Codes
        BY DEF Codes
      <3>3. CASE recent'[k] = id
        BY <1>2, <2>1, <3>1, <3>2, <3>3
      <3>4. CASE recent'[k] # id
        <4>1. results'[recent'[k]] = results[recent'[k]]
          BY <2>1, <3>1, <3>4
        <4>2. QED
          BY <1>0, <2>2, <3>4, <4>1 DEF CacheKnows
      <3>5. QED
        BY <3>3, <3>4
    <2>5. QED
      BY <2>1, <2>2, <2>3, <2>4 DEF CacheKnows
  <1>8. QED
    BY <1>3, <1>5, <1>6, <1>7 DEF UpkeepInv

\* The command line is called.
LEMMA UpkeepCall ==
    ASSUME UpkeepInv, NEW j \in Jobs, Call(j)
    PROVE  UpkeepInv'
  <1>0. UpkeepServes /\ UpkeepFlags /\ StagedIsDirty /\ CacheKnows
    BY DEF UpkeepInv
  <1>1. /\ step["cli"] = "closed" /\ calls < MaxCalls /\ calls' = calls + 1 /\ Open("cli", j)
        /\ UNCHANGED <<link, ctl, faults, api, id, actions, recent, results, staged, dirty, requests, left, wish, done>>
    BY DEF Call, linkVars, cache, stage
  <1>2. "cli" \in Processes /\ "api" \in Processes \ {"cli"} /\ j \in Jobs \cup {Snapshot}
    BY DEF Processes
  <1>3. /\ UpkeepTypes' /\ moved' \in BOOLEAN /\ late' \in BOOLEAN /\ Sessions' /\ WaitsForNewest' /\ ReadBackHolds'
        /\ NoneHalfReset' /\ step'["api"] = step["api"]
    BY <1>1, <1>2, UpkeepOpen
  <1>4. calls' \in 0 .. MaxCalls
    BY <1>0, <1>1, MaintenanceAssumption DEF UpkeepServes, MaintenanceAssumption
  <1>5. UpkeepServes' /\ UpkeepFlags' /\ StagedIsDirty' /\ CacheKnows'
    BY <1>0, <1>1, <1>3, <1>4 DEF UpkeepServes, UpkeepFlags, StagedIsDirty, CacheKnows
  <1>6. QED
    BY <1>3, <1>5 DEF UpkeepInv

\* The command line ends.
LEMMA UpkeepCallDone ==
    ASSUME UpkeepInv, CallDone
    PROVE  UpkeepInv'
  <1>0. UpkeepServes /\ UpkeepFlags /\ StagedIsDirty /\ CacheKnows
    BY DEF UpkeepInv
  <1>1. /\ step["cli"] = "end" /\ Close("cli")
        /\ UNCHANGED <<api, id, actions, recent, results, staged, dirty, requests, calls, wish, done>>
    BY DEF CallDone, cache, stage, Close, count
  <1>2. "cli" \in Processes /\ "api" \in Processes \ {"cli"}
    BY DEF Processes
  <1>3. /\ UpkeepTypes' /\ moved' \in BOOLEAN /\ late' \in BOOLEAN /\ left' \in BOOLEAN
        /\ Sessions' /\ WaitsForNewest' /\ ReadBackHolds' /\ NoneHalfReset' /\ step'["api"] = step["api"]
    BY <1>1, <1>2, UpkeepClose
  <1>4. UpkeepServes' /\ UpkeepFlags' /\ StagedIsDirty' /\ CacheKnows'
    BY <1>0, <1>1, <1>3 DEF UpkeepServes, UpkeepFlags, StagedIsDirty, CacheKnows
  <1>5. QED
    BY <1>3, <1>4 DEF UpkeepInv

\* Somebody changes a datapoint.
LEMMA UpkeepMove ==
    ASSUME UpkeepInv, NEW a \in Datapoints, NEW v \in Values, Move(a, v)
    PROVE  UpkeepInv'
  <1>0. /\ UpkeepTypes /\ UpkeepServes /\ UpkeepFlags /\ Sessions /\ WaitsForNewest /\ ReadBackHolds /\ NoneHalfReset
        /\ StagedIsDirty /\ CacheKnows
    BY DEF UpkeepInv
  <1>1. /\ faults < MaxFaults /\ faults' = faults + 1 /\ ctl' = [ctl EXCEPT ![a] = v]
        /\ UNCHANGED <<link, lock, step, waits, job, old, aborted, code, shot, api, id, actions, recent, results,
                       staged, dirty, requests, calls, late, wish, done>>
    BY DEF Move, Fault, session, cache, stage, count
  <1>2. moved' \in BOOLEAN /\ (~moved' => lock = "free")
    BY DEF Move
  <1>3. left' \in BOOLEAN /\ (~left' => ~left /\ a # State) /\ (lock = "free" => ~moved')
    BY DEF Move
  <1>4. LinkTypeOK'
    <2>1. faults' \in 0 .. MaxFaults
      BY <1>0, <1>1, LinkAssumption DEF UpkeepTypes, LinkTypeOK, LinkAssumption
    <2>2. QED
      BY <1>0, <1>1, <2>1 DEF UpkeepTypes, LinkTypeOK
  <1>5. UpkeepTypes' /\ UpkeepServes' /\ UpkeepFlags' /\ StagedIsDirty' /\ CacheKnows'
    BY <1>0, <1>1, <1>2, <1>3, <1>4
       DEF UpkeepTypes, UpkeepServes, UpkeepFlags, StagedIsDirty, CacheKnows
  <1>6. Sessions'
    BY <1>0, <1>1, <1>3 DEF Sessions
  <1>7. WaitsForNewest'
    BY <1>0, <1>1 DEF WaitsForNewest, RequestOf
  <1>8. ReadBackHolds'
    BY <1>1, <1>2 DEF ReadBackHolds, Processes
  <1>9. NoneHalfReset'
    <2>1. ~left' => ctl'[State] = ctl[State]
      BY <1>0, <1>1, <1>3, MaintenanceAssumption DEF UpkeepTypes, LinkTypeOK, MaintenanceAssumption
    <2>2. QED
      BY <1>0, <1>1, <1>3, <2>1 DEF NoneHalfReset, Resetting
  <1>10. QED
    BY <1>5, <1>6, <1>7, <1>8, <1>9 DEF UpkeepInv

\* A process is killed.
LEMMA UpkeepKill ==
    ASSUME UpkeepInv, NEW p \in Processes, Kill(p)
    PROVE  UpkeepInv'
  <1>0. /\ UpkeepTypes /\ UpkeepServes /\ UpkeepFlags /\ Sessions /\ WaitsForNewest /\ ReadBackHolds /\ NoneHalfReset
        /\ StagedIsDirty /\ CacheKnows
    BY DEF UpkeepInv
  <1>1. /\ lock' = IF lock = p THEN "free" ELSE lock
        /\ step' = [step EXCEPT ![p] = "closed"] /\ waits' = [waits EXCEPT ![p] = FALSE]
        /\ job' = [job EXCEPT ![p] = NoJob] /\ old' = [old EXCEPT ![p] = 0]
        /\ code' = [code EXCEPT ![p] = "ok"] /\ shot' = [shot EXCEPT ![p] = Unset]
        /\ aborted' = [aborted EXCEPT ![p] = FALSE]
        /\ faults < MaxFaults /\ faults' = faults + 1
        /\ UNCHANGED <<link, ctl, requests, calls>>
    BY DEF Kill, Fault, count
  <1>2. left' = (left \/ lock = p)
    BY DEF Kill
  <1>3. moved' = (moved /\ lock # p) /\ late' = (late /\ lock # p)
    BY DEF Kill
  <1>a. \/ /\ p = "api" /\ api' = "down" /\ id' = "none" /\ actions' = <<>>
           /\ recent' = <<>> /\ results' = [i \in Ids |-> "none"]
           /\ staged' = Unset /\ dirty' = FALSE /\ wish' = Unset /\ done' = <<>>
        \/ p # "api" /\ UNCHANGED <<api, id, actions, recent, results, staged, dirty, wish, done>>
    BY DEF Kill, cache, stage
  <1>4. /\ left' \in BOOLEAN /\ (~left' => ~left /\ lock # p)
        /\ moved' \in BOOLEAN /\ late' \in BOOLEAN
        /\ lock # p => (moved' <=> moved) /\ (late' <=> late)
        /\ lock = p => ~moved' /\ ~late'
    BY <1>2, <1>3
  <1>5. "free" \notin Processes /\ "api" \in Processes /\ 0 \in Values
    BY LinkAssumption DEF Processes, LinkAssumption
  <1>6. UpkeepTypes'
    <2>1. faults' \in 0 .. MaxFaults
      BY <1>0, <1>1, LinkAssumption DEF UpkeepTypes, LinkTypeOK, LinkAssumption
    <2>2. LinkTypeOK' /\ lock' \in Processes \cup {"free"}
      BY <1>0, <1>1, <2>1 DEF UpkeepTypes, LinkTypeOK
    <2>3. QED
      BY <1>0, <1>1, <1>5, <2>2 DEF UpkeepTypes, Codes
  <1>7. /\ step'[p] = "closed" /\ lock' # p /\ ~waits'[p]
        /\ \A q \in Processes \ {p} :
              /\ step'[q] = step[q] /\ code'[q] = code[q] /\ job'[q] = job[q] /\ old'[q] = old[q] /\ waits'[q] = waits[q]
              /\ lock' = q <=> lock = q
    BY <1>0, <1>1, <1>5 DEF UpkeepTypes
  <1>8. Sessions'
    <2>1. \A q \in Processes :
            /\ step'[q] \in Steps => lock' = q
            /\ lock' = q => step'[q] # "closed"
            /\ waits'[q] => step'[q] \in Steps
            /\ step'[q] = "end" /\ lock' # q => code'[q] \in {"refused", "busy"}
      BY <1>0, <1>7 DEF Sessions, Steps
    <2>2. \A q \in Processes :
             /\ step'[q] \in {"current", "refBefore", "write", "readback", "unwrite", "reread", "refAfter"} => job'[q].kind = "set"
             /\ step'[q] \in {"before", "one", "readOne", "zero", "readZero"} => job'[q].kind = "reset"
      BY <1>0, <1>7 DEF Sessions
    <2>3. lock' = "free" => ~moved' /\ ~late'
      BY <1>0, <1>1, <1>4 DEF Sessions
    <2>4. QED
      BY <2>1, <2>2, <2>3 DEF Sessions
  <1>9. WaitsForNewest'
    <2>1. SUFFICES ASSUME NEW q \in Processes, waits'[q], link' # <<>>
                   PROVE  link'[Len(link')] = RequestOf(q)'
      BY DEF WaitsForNewest
    <2>2. waits[q] /\ step'[q] = step[q] /\ job'[q] = job[q] /\ old'[q] = old[q]
      BY <1>7, <2>1
    <2>3. RequestOf(q)' = RequestOf(q)
      BY <2>2 DEF RequestOf
    <2>4. QED
      BY <1>0, <1>1, <2>1, <2>2, <2>3 DEF WaitsForNewest
  <1>10. ReadBackHolds'
    BY <1>0, <1>1, <1>4, <1>7 DEF ReadBackHolds
  <1>11. NoneHalfReset'
    <2>1. SUFFICES ASSUME ~left', ~late', \A q \in Processes : ~Resetting(q)'
                   PROVE  ctl'[State] # 1 /\ Harmless(link')
      BY DEF NoneHalfReset
    <2>2. ~left /\ ~late /\ lock # p
      BY <1>4, <2>1
    <2>3. ~Resetting(p)
      BY <1>0, <2>2 DEF Resetting, Sessions, Steps
    <2>4. \A q \in Processes : ~Resetting(q)
      BY <1>7, <2>1, <2>3 DEF Resetting
    <2>5. QED
      BY <1>0, <1>1, <2>2, <2>4 DEF NoneHalfReset
  <1>12. UpkeepServes' /\ UpkeepFlags' /\ StagedIsDirty' /\ CacheKnows'
    <2>1. CASE p = "api"
      <3>1. /\ <<>> \in Seq(Items) /\ Len(<<>>) = 0 /\ <<>> \in Seq(Ids)
            /\ QueueSize \in Nat /\ CacheSize \in Nat
        BY MaintenanceAssumption DEF MaintenanceAssumption
      <3>a. actions' \in Seq(Items) /\ Len(actions') <= QueueSize
        BY <1>a, <2>1, <3>1
      <3>b. step'["api"] = "closed"
        BY <1>7, <2>1
      <3>c. requests' \in 0 .. MaxRequests /\ calls' \in 0 .. MaxCalls
        BY <1>0, <1>1 DEF UpkeepServes
      <3>2. UpkeepServes' /\ UpkeepFlags' /\ StagedIsDirty'
        BY <1>4, <1>a, <2>1, <3>a, <3>b, <3>c DEF UpkeepServes, UpkeepFlags, StagedIsDirty
      <3>3. CacheKnows'
        BY <1>a, <2>1, <3>1 DEF CacheKnows
      <3>4. QED
        BY <3>2, <3>3
    <2>2. CASE p # "api"
      BY <1>0, <1>1, <1>4, <1>a, <2>2 DEF UpkeepServes, UpkeepFlags, StagedIsDirty, CacheKnows
    <2>3. QED
      BY <2>1, <2>2
  <1>13. QED
    BY <1>6, <1>8, <1>9, <1>10, <1>11, <1>12 DEF UpkeepInv

\* systemd starts the service again.
LEMMA UpkeepRestart ==
    ASSUME UpkeepInv, Restart
    PROVE  UpkeepInv'
  <1>0. UpkeepServes /\ UpkeepFlags /\ StagedIsDirty /\ CacheKnows
    BY DEF UpkeepInv
  <1>1. /\ api = "down" /\ api' = "start"
        /\ UNCHANGED <<link, ctl, faults, lock, step, waits, job, old, aborted, code, shot, moved, late, left>>
        /\ UNCHANGED <<id, actions, recent, results, staged, dirty, requests, calls, wish, done>>
    BY DEF Restart, linkVars, session, cache, stage, count, seen
  <1>2. UpkeepServes' /\ UpkeepFlags' /\ StagedIsDirty' /\ CacheKnows'
    BY <1>0, <1>1 DEF UpkeepServes, UpkeepFlags, StagedIsDirty, CacheKnows
  <1>3. UpkeepTypes' /\ Sessions' /\ WaitsForNewest' /\ ReadBackHolds' /\ NoneHalfReset'
    BY <1>1, UpkeepAside
  <1>4. QED
    BY <1>2, <1>3 DEF UpkeepInv

\* Nothing is under way at first.
LEMMA UpkeepInit ==
    ASSUME Init
    PROVE  UpkeepInv
  <1>1. /\ link = <<>> /\ faults = 0 /\ ctl \in [Datapoints -> Values] /\ ctl[State] = 0
        /\ lock = "free" /\ step = [p \in Processes |-> "closed"] /\ waits = [p \in Processes |-> FALSE]
        /\ job = [p \in Processes |-> NoJob] /\ old = [p \in Processes |-> 0]
        /\ aborted = [p \in Processes |-> FALSE] /\ code = [p \in Processes |-> "ok"]
        /\ shot = [p \in Processes |-> Unset]
    BY DEF Init, LinkInit
  <1>2. /\ api = "start" /\ id = "none" /\ actions = <<>> /\ recent = <<>> /\ results = [i \in Ids |-> "none"]
        /\ staged = Unset /\ dirty = FALSE /\ requests = 0 /\ calls = 0
        /\ moved = FALSE /\ late = FALSE /\ left = FALSE /\ wish = Unset /\ done = <<>>
    BY DEF Init
  <1>3. /\ <<>> \in Seq(Items) /\ Len(<<>>) = 0 /\ <<>> \in Seq(Ids) /\ <<>> \in Seq(LinkRequests)
        /\ QueueSize \in Nat /\ CacheSize \in Nat /\ MaxRequests \in Nat /\ MaxCalls \in Nat /\ MaxFaults \in Nat
        /\ 0 \in Values /\ "api" \in Processes /\ "free" \notin Processes
    BY LinkAssumption, MaintenanceAssumption DEF MaintenanceAssumption, LinkAssumption, Processes
  <1>4. UpkeepTypes
    BY <1>1, <1>3 DEF UpkeepTypes, LinkTypeOK, Codes
  <1>5. UpkeepServes /\ UpkeepFlags /\ StagedIsDirty /\ CacheKnows
    <2>1. actions \in Seq(Items) /\ Len(actions) <= QueueSize /\ step["api"] = "closed"
      BY <1>1, <1>2, <1>3
    <2>2. requests \in 0 .. MaxRequests /\ calls \in 0 .. MaxCalls
      BY <1>2, <1>3
    <2>3. recent \in Seq(Ids) /\ Len(recent) <= CacheSize
      BY <1>2, <1>3
    <2>4. UpkeepServes
      BY <1>2, <2>1, <2>2 DEF UpkeepServes
    <2>5. UpkeepFlags /\ StagedIsDirty
      BY <1>2 DEF UpkeepFlags, StagedIsDirty
    <2>6. results \in [Ids -> Codes \cup {"none"}] /\ (\A k \in 1 .. Len(recent) : results[recent[k]] # "none")
      BY <1>2, <1>3
    <2>7. CacheKnows
      BY <1>2, <2>3, <2>6 DEF CacheKnows
    <2>8. QED
      BY <2>4, <2>5, <2>7
  <1>6. Sessions /\ WaitsForNewest /\ ReadBackHolds
    BY <1>1, <1>2, <1>3 DEF Sessions, WaitsForNewest, ReadBackHolds, Steps
  <1>7. NoneHalfReset
    BY <1>1 DEF NoneHalfReset, Harmless
  <1>8. QED
    BY <1>4, <1>5, <1>6, <1>7 DEF UpkeepInv

\* Every step keeps the invariant.
LEMMA UpkeepNext ==
    ASSUME UpkeepInv, [Next]_vars
    PROVE  UpkeepInv'
  <1>1. CASE Works
    BY <1>1, UpkeepAsk, UpkeepTimeOut, UpkeepAnswer, UpkeepInitial, UpkeepInitialDone,
       UpkeepTakeRequest, UpkeepTakeStage, UpkeepConclude, UpkeepCallDone, UpkeepRestart
       DEF Works
  <1>2. CASE \/ \E item \in Items : Receive(item)
             \/ \E j \in Jobs : Call(j)
    BY <1>2, UpkeepReceive, UpkeepCall
  <1>3. CASE \/ \E a \in Datapoints, v \in Values : Move(a, v)
             \/ \E p \in Processes : Kill(p)
             \/ Lost
    BY <1>3, UpkeepMove, UpkeepKill, UpkeepLost
  <1>4. CASE UNCHANGED vars
    <2>1. /\ UNCHANGED <<link, ctl, faults, lock, step, waits, job, old, aborted, code, shot, moved, late, left>>
          /\ UNCHANGED <<api, id, actions, recent, results, staged, dirty, requests, calls, wish, done>>
      BY <1>4 DEF vars, linkVars, session, cache, stage, count, seen
    <2>2. UpkeepServes' /\ UpkeepFlags' /\ StagedIsDirty' /\ CacheKnows'
      BY <2>1 DEF UpkeepInv, UpkeepServes, UpkeepFlags, StagedIsDirty, CacheKnows
    <2>3. QED
      BY <2>1, <2>2, UpkeepAside DEF UpkeepInv
  <1>5. QED
    BY <1>1, <1>2, <1>3, <1>4 DEF Next

\* The invariant of the maintenance.
LEMMA UpkeepSpecInv ==
    Spec => []UpkeepInv
  <1>1. Init => UpkeepInv
    BY UpkeepInit
  <1>2. UpkeepInv /\ [Next]_vars => UpkeepInv'
    BY UpkeepNext
  <1>3. QED
    BY <1>1, <1>2, PTL DEF Spec

\* Two processes share the registers, one after the other, and neither leaves a reset half
\* done nor takes the user's value away (MaintenanceInv): for every set of jobs, every
\* queue and cache, any number of requests, calls and faults.
THEOREM MaintenanceSafe ==
    Spec => []MaintenanceInv
  <1>1. ASSUME UpkeepInv PROVE MaintenanceInv
    <2>0. /\ UpkeepTypes /\ UpkeepServes /\ UpkeepFlags /\ Sessions /\ NoneHalfReset /\ StagedIsDirty /\ CacheKnows
      BY <1>1 DEF UpkeepInv
    <2>1. TypeOK
      <3>1. \A p \in Processes : old[p] \in Values /\ shot[p] \in Values \cup {Unset}
        BY <2>0 DEF UpkeepTypes
      <3>2. \A i \in DOMAIN actions : actions[i] \in Items
        BY <2>0 DEF UpkeepServes
      <3>3. QED
        BY <2>0, <3>1, <3>2 DEF TypeOK, UpkeepTypes, UpkeepServes, UpkeepFlags, CacheKnows
    <2>2. OneSession
      BY <2>0 DEF Sessions, OneSession
    <2>3. NoHalfReset
      <3>1. lock = "free" => \A p \in Processes : ~Resetting(p)
        BY <2>0 DEF Sessions, Resetting, Steps, Processes
      <3>2. QED
        BY <2>0, <3>1 DEF NoneHalfReset, NoHalfReset
    <2>4. StagedValueIsKept
      BY <2>0 DEF StagedIsDirty, StagedValueIsKept
    <2>5. QED
      BY <2>1, <2>2, <2>3, <2>4 DEF MaintenanceInv
  <1>2. QED
    BY <1>1, UpkeepSpecInv, PTL

\* What an operation reports is true (OutcomeIsTrue).
THEOREM OutcomesAreTrue ==
    Spec => []OutcomeIsTrue
  <1>1. ASSUME UpkeepInv PROVE OutcomeIsTrue
    <2>1. Sessions /\ ReadBackHolds
      BY <1>1 DEF UpkeepInv
    <2>2. SUFFICES ASSUME NEW p \in Processes, step[p] = "end", ~moved, ~late
                   PROVE  /\ code[p] = "ok" /\ job[p].kind = "set" => ctl[Setting] = job[p].val
                          /\ code[p] = "restored" => ctl[Setting] = old[p]
                          /\ code[p] \in {"ok", "aborted"} /\ job[p].kind = "reset" => ctl[State] = 0
      BY DEF OutcomeIsTrue
    <2>3. code[p] \in {"ok", "restored", "aborted"} => lock = p
      BY <2>1, <2>2 DEF Sessions
    <2>4. QED
      BY <2>1, <2>2, <2>3 DEF ReadBackHolds
  <1>2. QED
    BY <1>1, UpkeepSpecInv, PTL

\* A request whose id is one of those finished last is not carried out again
\* (NoSecondExecution, the part of RequestsAreServed that is about steps).
THEOREM RequestsRunOnce ==
    Spec => NoSecondExecution
  <1>1. ASSUME UpkeepInv, [Next]_vars
        PROVE  [(api = "loop" /\ api' = "request") => (\A k \in DOMAIN done : done[k] # id')]_vars
    <2>1. SUFFICES ASSUME Next, api = "loop", api' = "request" PROVE \A k \in DOMAIN done : done[k] # id'
      BY <1>1
    <2>2. TakeRequest
      BY <2>1
         DEF Next, Works, Ask, TimeOut, Answer, Initial, InitialDone, TakeStage, Conclude, CallDone,
             Restart, Receive, Call, Move, Kill, Lost
    <2>3. results[id'] = "none"
      BY <2>1, <2>2 DEF TakeRequest
    <2>4. CacheKnows
      BY <1>1 DEF UpkeepInv
    <2>5. QED
      BY <2>3, <2>4 DEF CacheKnows
  <1>2. QED
    BY <1>1, UpkeepSpecInv, PTL DEF Spec, NoSecondExecution

-----------------------------------------------------------------------------
\* The canary sessions.  A command of a script belongs to a part of it, and the parts
\* follow one another; so the commands that are left tell what has been done.
UnitOps  == {"stop", "create", "fill", "start", "remove"}
Commands == (UnitOps \X Units) \cup ((Ops \ UnitOps) \X {"-"})
Left == ToSet(todo)

\* The part of the scripts a command belongs to, and the last part that may come
\* before it.
Part(op) ==
    CASE op \in {"drop extra", "drop manifest"} -> 1
      [] op = "stop" -> 2
      [] op \in {"provision", "create", "fill", "remove"} -> 3
      [] op = "reload" -> 4
      [] op = "go on" -> 5
      [] op \in {"start", "gfa", "clear", "check"} -> 6
      [] OTHER -> 7
LastPart(ph, op) ==
    IF op = "drop extra" THEN 0 ELSE IF ph = "worker" /\ op \in {"reload", "gfa"} THEN 7 ELSE Part(op)

InOrder(ph, commands) ==
    \A i, j \in DOMAIN commands : i < j => Part(commands[i][1]) <= LastPart(ph, commands[j][1])

Closing == { <<"go on", "-">>, <<"clear", "-">>, <<"check", "-">> }
Closes(commands) ==
    \A c \in Closing, i \in DOMAIN commands : Part(commands[i][1]) < Part(c[1]) => c \in ToSet(commands)

ScriptInv ==
    /\ todo \in Seq(Commands) /\ InOrder(phase, todo)
    /\ phase = "recovery" => Closes(todo)

\* Without an override the original runs, or nothing, or what is still being stopped.
PlainUnits ==
    \A u \in Units : \/ dropin[u] # "none" \/ runs[u] = "off" \/ u \in stopping
                     \/ runs[u] = "original" /\ loaded[u] = "original"

\* The producers are originals or copies, and a copy that crashes comes back as one.
WrappedProducers ==
    \A p \in Producers : loaded[p] # "auto" /\ (runs[p] = "shadow" => p \in stopping \/ loaded[p] = "shadow")

\* The activating override comes after the others and goes before them.
ExtraOnOverrides == extra # "none" => \A u \in Units : dropin[u] = "full"

\* A shadow session has nothing of the automatic mode.
ShadowStaysPlain ==
    phase # "none" /\ kind = "shadow" =>
        extra = "none" /\ manifest = "none" /\ runs[Main] # "auto" /\ loaded[Main] # "auto"

\* Until the recovery has taken it away, the automatic mode has its override.
AutoNeedsExtra ==
    phase = "worker" \/ (phase = "recovery" /\ <<"drop extra", "-">> \in Left) =>
        (runs[Main] = "auto" \/ loaded[Main] = "auto" => extra = "full")

\* The worker: what it has still to do, if not done.
WorkerClean == phase = "worker" => stopping = {} /\ ~errors /\ report = "none"
FillsToCome == phase = "worker" => \A u \in Units : <<"fill", u>> \in Left \/ dropin[u] = "full"
StartsFirst == phase = "worker" => \A u \in Units : <<"start", u>> \in Left => extra = "none"
NoAutoSteps ==
    phase = "worker" /\ kind = "shadow" =>
        /\ <<"enroll", "-">> \notin Left /\ <<"fill manifest", "-">> \notin Left
        /\ <<"create extra", "-">> \notin Left /\ <<"fill extra", "-">> \notin Left

\* The recovery: what it has still to do, if not done.
ErrorsShow ==
    phase = "recovery" =>
        /\ report = "none"
        /\ stopping # {} => errors
        /\ errors => <<"go on", "-">> \in Left \/ todo = Just("report")
        /\ errors => upset \/ \E u \in Units : dropin[u] = "torn"
DropsToCome ==
    phase = "recovery" =>
        /\ <<"drop extra", "-">> \in Left \/ extra = "none"
        /\ <<"drop manifest", "-">> \in Left \/ manifest \in {"none", "torn"}
StopsToCome ==
    phase = "recovery" =>
        \A u \in Units : \/ <<"stop", u>> \in Left \/ runs[u] = "off" \/ u \in stopping
                         \/ runs[u] = "original" /\ loaded[u] = "original"
RemovesToCome ==
    phase = "recovery" =>
        \A u \in Units : <<"remove", u>> \in Left \/ dropin[u] = "none" \/ (dropin[u] = "torn" /\ errors)
ReloadToCome ==
    phase = "recovery" =>
        <<"reload", "-">> \in Left \/ todo = Just("report") \/ \A u \in Units : loaded[u] = "original"
EndToCome ==
    phase = "recovery" /\ ~errors =>
        /\ <<"clear", "-">> \in Left \/ marker # "P300"
        /\ <<"check", "-">> \in Left \/ \A u \in Units : runs[u] # "off"

\* After the session: no automatic mode unless it was cut off; what a PASS says.
AutoIsOver ==
    phase = "none" =>
        killed \/ Main \in stopping \/ (runs[Main] # "auto" /\ (runs[Main] = "off" \/ loaded[Main] # "auto"))
PassStays ==
    phase = "none" /\ report = "PASS" =>
        /\ stopping = {} /\ extra = "none" /\ marker # "P300"
        /\ \A u \in Units : runs[u] = "original" /\ loaded[u] = "original" /\ dropin[u] = "none"

UnitsInv    == PlainUnits /\ WrappedProducers /\ ExtraOnOverrides /\ WindowOnlyWrapped
AutoInv     == ShadowStaysPlain /\ AutoNeedsExtra
WorkerInv   == WorkerClean /\ FillsToCome /\ StartsFirst /\ NoAutoSteps
RecoveryInv == ErrorsShow /\ DropsToCome /\ StopsToCome /\ RemovesToCome /\ ReloadToCome /\ EndToCome
AfterInv    == AutoIsOver /\ PassStays /\ EndsRestored

SupervisedInv == SessionTypeOK /\ ScriptInv /\ UnitsInv /\ AutoInv /\ WorkerInv /\ RecoveryInv /\ AfterInv

-----------------------------------------------------------------------------
\* The parts are numbers.
LEMMA PartNumbers ==
    \A op : /\ Part(op) \in Nat /\ Part(op) \in 1 .. 7
            /\ \A ph : LastPart(ph, op) \in Nat /\ (op # "drop extra" => Part(op) <= LastPart(ph, op))
  <1>1. \A op : Part(op) \in 1 .. 7
    BY DEF Part
  <1>2. \A op : Part(op) \in Nat
    BY <1>1
  <1>3. \A op, ph : LastPart(ph, op) \in Nat
    BY <1>2 DEF LastPart
  <1>4. ASSUME NEW op, NEW ph, op # "drop extra" PROVE Part(op) <= LastPart(ph, op)
    <2>1. LastPart(ph, op) \in {7, Part(op)}
      BY <1>4 DEF LastPart
    <2>2. Part(op) \in 1 .. 7
      BY <1>1
    <2>3. QED
      BY <2>1, <2>2
  <1>5. QED
    BY <1>1, <1>2, <1>3, <1>4

\* A run of a script: its commands are in order, and in the parts from a to b.
Run(ph, s, a, b) ==
    /\ s \in Seq(Commands) /\ InOrder(ph, s)
    /\ \A i \in DOMAIN s : a <= LastPart(ph, s[i][1]) /\ Part(s[i][1]) <= b

\* One run after the other, in later parts.
Joins(ph, s, t, a, b, c, d) ==
    Run(ph, s, a, b) /\ Run(ph, t, c, d) /\ {a, b, c, d} \subseteq Nat /\ a <= c /\ b <= c /\ b <= d
    => Run(ph, s \o t, a, d) /\ ToSet(s \o t) = ToSet(s) \cup ToSet(t)

\* Two runs make one.
LEMMA RunsInARow ==
    ASSUME NEW ph, NEW s, NEW t, NEW a, NEW b, NEW c, NEW d
    PROVE  Joins(ph, s, t, a, b, c, d)
  <1> SUFFICES ASSUME Run(ph, s, a, b), Run(ph, t, c, d), {a, b, c, d} \subseteq Nat, a <= c, b <= c, b <= d
               PROVE  Run(ph, s \o t, a, d) /\ ToSet(s \o t) = ToSet(s) \cup ToSet(t)
    BY DEF Joins
  <1>1. a \in Nat /\ b \in Nat /\ c \in Nat /\ d \in Nat
    OBVIOUS
  <1> DEFINE st == s \o t
  <1>2. /\ s \in Seq(Commands) /\ t \in Seq(Commands) /\ st \in Seq(Commands)
        /\ Len(s) \in Nat /\ Len(t) \in Nat /\ Len(st) = Len(s) + Len(t)
        /\ DOMAIN s = 1 .. Len(s) /\ DOMAIN t = 1 .. Len(t) /\ DOMAIN st = 1 .. Len(st)
    BY DEF Run
  <1>3. \A i \in 1 .. Len(st) : \/ i \in 1 .. Len(s) /\ st[i] = s[i]
                                \/ i - Len(s) \in 1 .. Len(t) /\ st[i] = t[i - Len(s)] /\ i > Len(s)
    BY <1>2
  <1>4. /\ \A i \in 1 .. Len(s) : i \in 1 .. Len(st) /\ st[i] = s[i]
        /\ \A i \in 1 .. Len(t) : i + Len(s) \in 1 .. Len(st) /\ st[i + Len(s)] = t[i]
    BY <1>2
  <1> HIDE DEF st
  <1>5. ToSet(st) = ToSet(s) \cup ToSet(t)
    <2>1. ASSUME NEW x \in ToSet(st) PROVE x \in ToSet(s) \cup ToSet(t)
      BY <1>2, <1>3, <2>1 DEF ToSet
    <2>2. ASSUME NEW x \in ToSet(s) PROVE x \in ToSet(st)
      BY <1>2, <1>4, <2>2 DEF ToSet
    <2>3. ASSUME NEW x \in ToSet(t) PROVE x \in ToSet(st)
      BY <1>2, <1>4, <2>3 DEF ToSet
    <2>4. QED
      BY <2>1, <2>2, <2>3
  <1>6. ASSUME NEW i \in 1 .. Len(st) PROVE a <= LastPart(ph, st[i][1]) /\ Part(st[i][1]) <= d
    <2>0. Part(st[i][1]) \in Nat /\ LastPart(ph, st[i][1]) \in Nat
      BY PartNumbers
    <2>1. CASE i \in 1 .. Len(s) /\ st[i] = s[i]
      <3>1. a <= LastPart(ph, s[i][1]) /\ Part(s[i][1]) <= b
        BY <1>2, <2>1 DEF Run
      <3>2. QED
        BY <1>1, <2>0, <2>1, <3>1
    <2>2. CASE i - Len(s) \in 1 .. Len(t) /\ st[i] = t[i - Len(s)]
      <3>1. c <= LastPart(ph, t[i - Len(s)][1]) /\ Part(t[i - Len(s)][1]) <= d
        BY <1>2, <2>2 DEF Run
      <3>2. QED
        BY <1>1, <2>0, <2>2, <3>1
    <2>3. QED
      BY <1>3, <2>1, <2>2
  <1>7. ASSUME NEW i \in 1 .. Len(st), NEW j \in 1 .. Len(st), i < j
        PROVE  Part(st[i][1]) <= LastPart(ph, st[j][1])
    <2>0. Part(st[i][1]) \in Nat /\ LastPart(ph, st[j][1]) \in Nat
      BY PartNumbers
    <2>1. CASE j \in 1 .. Len(s)
      <3>1. i \in 1 .. Len(s) /\ st[i] = s[i] /\ st[j] = s[j]
        BY <1>2, <1>4, <1>7, <2>1
      <3>2. QED
        BY <1>2, <1>7, <2>1, <3>1 DEF Run, InOrder
    <2>2. CASE i > Len(s)
      <3>1. /\ i - Len(s) \in 1 .. Len(t) /\ st[i] = t[i - Len(s)]
            /\ j - Len(s) \in 1 .. Len(t) /\ st[j] = t[j - Len(s)] /\ i - Len(s) < j - Len(s)
        <4>1. i \notin 1 .. Len(s) /\ j \notin 1 .. Len(s)
          BY <1>2, <1>7, <2>2
        <4>2. i \in Nat /\ j \in Nat
          BY <1>2
        <4>3. /\ i - Len(s) \in 1 .. Len(t) /\ st[i] = t[i - Len(s)]
              /\ j - Len(s) \in 1 .. Len(t) /\ st[j] = t[j - Len(s)]
          BY <1>3, <4>1
        <4>4. i - Len(s) < j - Len(s)
          BY <1>2, <1>7, <4>2
        <4>5. QED
          BY <4>3, <4>4
      <3>2. QED
        BY <1>2, <3>1 DEF Run, InOrder
    <2>3. CASE i \in 1 .. Len(s) /\ j > Len(s)
      <3>1. st[i] = s[i] /\ j - Len(s) \in 1 .. Len(t) /\ st[j] = t[j - Len(s)]
        <4>1. j \notin 1 .. Len(s)
          BY <1>2, <2>3
        <4>2. QED
          BY <1>3, <1>4, <2>3, <4>1
      <3>2. Part(s[i][1]) <= b /\ c <= LastPart(ph, t[j - Len(s)][1])
        BY <1>2, <2>3, <3>1 DEF Run
      <3>3. QED
        BY <1>1, <2>0, <3>1, <3>2
    <2>4. QED
      BY <1>2, <1>7, <2>1, <2>2, <2>3
  <1>8. Run(ph, st, a, d)
    BY <1>2, <1>6, <1>7 DEF Run, InOrder
  <1>9. QED
    BY <1>5, <1>8 DEF st

\* The same command of several units.
LEMMA EachRun ==
    ASSUME NEW ph, NEW op \in UnitOps, NEW us \in Seq(Units)
    PROVE  /\ Run(ph, Each(op, us), Part(op), Part(op))
           /\ ToSet(Each(op, us)) = {<<op, u>> : u \in ToSet(us)}
  <1> DEFINE s == Each(op, us)
  <1>1. DOMAIN us = 1 .. Len(us) /\ Len(us) \in Nat /\ \A i \in 1 .. Len(us) : us[i] \in Units
    OBVIOUS
  <1>2. s \in Seq(Commands) /\ DOMAIN s = 1 .. Len(us) /\ \A i \in 1 .. Len(us) : s[i] = <<op, us[i]>>
    BY <1>1 DEF Each, Commands
  <1> HIDE DEF s
  <1>3. \A i \in DOMAIN s : s[i][1] = op
    BY <1>2
  <1>4. Part(op) \in Nat /\ Part(op) <= LastPart(ph, op) /\ LastPart(ph, op) \in Nat
    <2>1. op # "drop extra"
      BY DEF UnitOps
    <2>2. QED
      BY <2>1, PartNumbers
  <1>5. Run(ph, s, Part(op), Part(op))
    BY <1>2, <1>3, <1>4 DEF Run, InOrder
  <1>6. ToSet(s) = {<<op, u>> : u \in ToSet(us)}
    BY <1>1, <1>2 DEF ToSet
  <1>7. QED
    BY <1>5, <1>6 DEF s

\* A command of no unit.
LEMMA JustRun ==
    ASSUME NEW ph, NEW op, op \in Ops \ UnitOps
    PROVE  /\ \A a, b \in Nat : a <= LastPart(ph, op) /\ Part(op) <= b => Run(ph, Just(op), a, b)
           /\ ToSet(Just(op)) = {<<op, "-">>}
  <1> DEFINE s == Just(op)
  <1>1. s \in Seq(Commands) /\ DOMAIN s = {1} /\ s[1] = <<op, "-">>
    BY DEF Just, Commands
  <1> HIDE DEF s
  <1>2. \A i \in DOMAIN s : s[i][1] = op
    BY <1>1
  <1>3. ASSUME NEW a \in Nat, NEW b \in Nat, a <= LastPart(ph, op), Part(op) <= b PROVE Run(ph, s, a, b)
    <2>1. \A i, j \in DOMAIN s : i = j
      BY <1>1
    <2>2. InOrder(ph, s)
      BY <1>1, <2>1 DEF InOrder
    <2>3. QED
      BY <1>1, <1>2, <1>3, <2>2 DEF Run
  <1>4. ToSet(s) = {<<op, "-">>}
    <2>1. ToSet(s) = {s[1]}
      BY <1>1 DEF ToSet
    <2>2. QED
      BY <1>1, <2>1
  <1>5. QED
    BY <1>3, <1>4 DEF s

\* The units are those of the scripts.
LEMMA UnitFacts ==
    /\ Overridden \in Seq(Units) /\ ToSet(Overridden) = Units
    /\ <<Timer>> \o Writers \o <<Main>> \in Seq(Units) /\ ToSet(<<Timer>> \o Writers \o <<Main>>) = Units
    /\ <<Timer>> \o Writers \in Seq(Units)
    /\ Writers \o <<Timer>> \in Seq(Units) /\ <<Main>> \in Seq(Units)
    /\ Main \in Units /\ Main \notin Producers /\ Producers \subseteq Units /\ Units = Producers \cup {Main}
  <1>1. /\ Writers \in Seq(STRING) /\ Len(Writers) \in Nat /\ DOMAIN Writers = 1 .. Len(Writers)
        /\ \A i \in 1 .. Len(Writers) : Writers[i] \in Units
        /\ \A u \in ToSet(Writers) : \E i \in 1 .. Len(Writers) : Writers[i] = u
        /\ Main \in Units /\ Timer \in Units /\ Units = ToSet(Writers) \cup {Main, Timer}
    BY CanaryAssumption DEF Units, Producers, ToSet
  <1>2. Writers \in Seq(Units)
    BY <1>1, CanaryAssumption, QueueOfMembers
  <1>3. /\ Main \notin Producers /\ Producers \subseteq Units /\ Units = Producers \cup {Main}
    BY CanaryAssumption DEF Producers, Units, Main, Timer
  <1>4. /\ Overridden \in Seq(Units) /\ ToSet(Overridden) = Units
    <2>1. /\ Overridden \in Seq(Units) /\ Len(Overridden) = Len(Writers) + 2
          /\ DOMAIN Overridden = 1 .. Len(Writers) + 2
          /\ Overridden[1] = Main /\ Overridden[Len(Writers) + 2] = Timer
          /\ \A i \in 1 .. Len(Writers) : Overridden[i + 1] = Writers[i]
      BY <1>1, <1>2 DEF Overridden
    <2>2. \A u \in Units : \E i \in 1 .. Len(Writers) + 2 : Overridden[i] = u
      BY <1>1, <2>1
    <2>3. QED
      BY <2>1, <2>2 DEF ToSet
  <1>5. <<Timer>> \o Writers \o <<Main>> \in Seq(Units) /\ ToSet(<<Timer>> \o Writers \o <<Main>>) = Units
    <2> DEFINE all == <<Timer>> \o Writers \o <<Main>>
    <2>1. /\ all \in Seq(Units) /\ Len(all) = Len(Writers) + 2 /\ DOMAIN all = 1 .. Len(Writers) + 2
          /\ all[1] = Timer /\ all[Len(Writers) + 2] = Main
          /\ \A i \in 1 .. Len(Writers) : all[i + 1] = Writers[i]
      <3> DEFINE first == <<Timer>> \o Writers
      <3>1. <<Timer>> \in Seq(Units) /\ <<Main>> \in Seq(Units)
        BY <1>1
      <3>2. /\ first \in Seq(Units) /\ Len(first) = Len(Writers) + 1
            /\ first[1] = Timer /\ \A i \in 1 .. Len(Writers) : first[i + 1] = Writers[i]
        BY <1>1, <1>2, <3>1
      <3> HIDE DEF first
      <3>3. /\ first \o <<Main>> \in Seq(Units) /\ Len(first \o <<Main>>) = Len(Writers) + 2
            /\ (first \o <<Main>>)[Len(Writers) + 2] = Main
            /\ \A i \in 1 .. Len(Writers) + 1 : (first \o <<Main>>)[i] = first[i]
        BY <1>1, <3>1, <3>2
      <3>4. all = first \o <<Main>>
        BY DEF first
      <3> HIDE DEF all
      <3>5. DOMAIN all = 1 .. Len(all)
        BY <3>3, <3>4
      <3>6. QED
        BY <1>1, <3>2, <3>3, <3>4, <3>5
    <2> HIDE DEF all
    <2>2. \A u \in Units : \E i \in 1 .. Len(Writers) + 2 : all[i] = u
      BY <1>1, <2>1
    <2>3. ToSet(all) = Units
      BY <2>1, <2>2 DEF ToSet
    <2>4. QED
      BY <2>1, <2>3 DEF all
  <1>6. <<Timer>> \o Writers \in Seq(Units) /\ Writers \o <<Timer>> \in Seq(Units) /\ <<Main>> \in Seq(Units)
    BY <1>1, <1>2
  <1>7. QED
    BY <1>1, <1>3, <1>4, <1>5, <1>6

\* The overrides are created and filled one by one.
LEMMA InstallRun ==
    ASSUME NEW ph \in {"worker"}
    PROVE  /\ Run(ph, Install, 3, 3)
           /\ \A u \in Units : <<"fill", u>> \in ToSet(Install)
           /\ \A c \in ToSet(Install) : c[1] \in {"create", "fill"}
  <1> DEFINE n == Len(Overridden)
  <1>1. /\ n \in Nat /\ DOMAIN Overridden = 1 .. n /\ \A i \in 1 .. n : Overridden[i] \in Units
        /\ \A u \in Units : \E i \in 1 .. n : Overridden[i] = u
    BY UnitFacts DEF ToSet
  <1>2. DOMAIN Install = 1 .. 2 * n
    BY DEF Install
  <1>3. ASSUME NEW i \in 1 .. 2 * n
        PROVE  \E op \in {"create", "fill"} : \E u \in Units : Install[i] = <<op, u>>
    <2>1. CASE i % 2 = 1
      <3>1. (i + 1) \div 2 \in 1 .. n /\ Install[i] = <<"create", Overridden[(i + 1) \div 2]>>
        BY <1>1, <2>1 DEF Install
      <3>2. QED
        BY <1>1, <3>1
    <2>2. CASE i % 2 # 1
      <3>1. i \div 2 \in 1 .. n /\ Install[i] = <<"fill", Overridden[i \div 2]>>
        BY <1>1, <2>2 DEF Install
      <3>2. QED
        BY <1>1, <3>1
    <2>3. QED
      BY <2>1, <2>2
  <1>4. ASSUME NEW i \in 1 .. n PROVE 2 * i \in 1 .. 2 * n /\ Install[2 * i] = <<"fill", Overridden[i]>>
    <2>1. 2 * i \in 1 .. 2 * n /\ (2 * i) % 2 = 0 /\ (2 * i) \div 2 = i
      BY <1>1
    <2>2. QED
      BY <1>1, <2>1 DEF Install
  <1>5. Install = [i \in 1 .. 2 * n |-> Install[i]] /\ 2 * n \in Nat
    BY <1>1 DEF Install
  <1> HIDE DEF n
  <1>6. \A i \in 1 .. 2 * n : Install[i] \in Commands /\ Install[i][1] \in {"create", "fill"}
    BY <1>3 DEF Commands, UnitOps
  <1>7. Install \in Seq(Commands)
    BY <1>5, <1>6
  <1>8. \A i \in DOMAIN Install : Part(Install[i][1]) = 3 /\ LastPart(ph, Install[i][1]) = 3
    <2>1. Part("create") = 3 /\ Part("fill") = 3 /\ LastPart(ph, "create") = 3 /\ LastPart(ph, "fill") = 3
      BY DEF Part, LastPart
    <2>2. QED
      BY <1>2, <1>6, <2>1
  <1>9. InOrder(ph, Install)
    BY <1>8 DEF InOrder
  <1>10. Run(ph, Install, 3, 3)
    BY <1>7, <1>8, <1>9 DEF Run
  <1>11. \A u \in Units : <<"fill", u>> \in ToSet(Install)
    BY <1>1, <1>2, <1>4 DEF ToSet
  <1>12. \A c \in ToSet(Install) : c[1] \in {"create", "fill"}
    BY <1>2, <1>6 DEF ToSet
  <1>13. QED
    BY <1>10, <1>11, <1>12

\* The commands of no unit, each a run of one.
LEMMA PlainCommands ==
    /\ \A op \in {"provision"} : Run("worker", Just(op), 3, 3) /\ ToSet(Just(op)) = {<<op, "-">>}
    /\ \A op \in {"reload"} : Run("worker", Just(op), 4, 4) /\ ToSet(Just(op)) = {<<op, "-">>}
    /\ \A op \in {"gfa", "check"} : Run("worker", Just(op), 6, 6) /\ ToSet(Just(op)) = {<<op, "-">>}
    /\ \A op \in {"enroll", "fill manifest", "attest", "create extra", "fill extra", "reload", "restart", "gfa", "watch",
                   "measure"} : Run("worker", Just(op), 7, 7) /\ ToSet(Just(op)) = {<<op, "-">>}
    /\ \A op \in {"drop extra"} : Run("recovery", Just(op), 0, 1) /\ ToSet(Just(op)) = {<<op, "-">>}
    /\ \A op \in {"drop manifest"} : Run("recovery", Just(op), 1, 1) /\ ToSet(Just(op)) = {<<op, "-">>}
    /\ \A op \in {"reload"} : Run("recovery", Just(op), 4, 4) /\ ToSet(Just(op)) = {<<op, "-">>}
    /\ \A op \in {"go on"} : Run("recovery", Just(op), 5, 5) /\ ToSet(Just(op)) = {<<op, "-">>}
    /\ \A op \in {"gfa", "clear", "check"} : Run("recovery", Just(op), 6, 6) /\ ToSet(Just(op)) = {<<op, "-">>}
    /\ \A op \in {"report"} : Run("recovery", Just(op), 7, 7) /\ ToSet(Just(op)) = {<<op, "-">>}
  <1>1. ASSUME NEW op, op \in {"provision", "gfa", "check", "drop manifest", "reload", "go on", "clear", "report"}, NEW ph
        PROVE  op \in Ops \ UnitOps /\ Part(op) \in Nat /\ Part(op) <= LastPart(ph, op) /\ Part(op) <= Part(op)
    <2>1. op \in Ops \ UnitOps
      BY <1>1 DEF Ops, UnitOps
    <2>2. Part(op) \in Nat /\ Part(op) <= LastPart(ph, op)
      BY <1>1, PartNumbers
    <2>3. Part(op) <= Part(op)
      BY <2>2
    <2>4. QED
      BY <2>1, <2>2, <2>3, Zenon
  <1>2. ASSUME NEW op, op \in {"enroll", "fill manifest", "attest", "create extra", "fill extra", "reload", "restart", "gfa",
                           "watch", "measure"}
        PROVE  op \in Ops \ UnitOps /\ 7 \in Nat /\ Part(op) <= 7 /\ 7 <= LastPart("worker", op)
    <2>1. op \in Ops \ UnitOps
      BY <1>2 DEF Ops, UnitOps
    <2>2. LastPart("worker", op) = 7
      <3>1. CASE op \in {"reload", "gfa"}
        BY <3>1 DEF LastPart
      <3>2. CASE op \notin {"reload", "gfa"}
        <4>1. Part(op) = 7
          BY <1>2, <3>2 DEF Part
        <4>2. QED
          BY <1>2, <3>2, <4>1 DEF LastPart
      <3>3. QED
        BY <3>1, <3>2
    <2>3. QED
      <3>1. Part(op) \in Nat /\ Part(op) <= 7
        <4>1. Part(op) \in 1 .. 7
          BY PartNumbers
        <4>2. QED
          BY <4>1
      <3>2. 7 <= LastPart("worker", op) /\ 7 \in Nat
        BY <2>2
      <3>3. QED
        BY <2>1, <3>1, <3>2, Zenon
  <1>3. /\ Part("provision") = 3 /\ Part("gfa") = 6 /\ Part("check") = 6 /\ Part("clear") = 6 /\ Part("report") = 7
        /\ Part("reload") = 4 /\ Part("go on") = 5 /\ Part("drop extra") = 1 /\ Part("drop manifest") = 1
    BY DEF Part
  <1>4. /\ LastPart("recovery", "drop extra") = 0 /\ 0 \in Nat /\ 0 <= 0 /\ 1 \in Nat /\ 1 <= 1
        /\ "drop extra" \in Ops \ UnitOps
    BY DEF LastPart, Ops, UnitOps
  <1>5. \A op \in {"provision"} : Run("worker", Just(op), 3, 3) /\ ToSet(Just(op)) = {<<op, "-">>}
    BY <1>1, <1>3, JustRun
  <1>6. \A op \in {"reload"} : Run("worker", Just(op), 4, 4) /\ ToSet(Just(op)) = {<<op, "-">>}
    BY <1>1, <1>3, JustRun
  <1>7. \A op \in {"gfa", "check"} : Run("worker", Just(op), 6, 6) /\ ToSet(Just(op)) = {<<op, "-">>}
    BY <1>1, <1>3, JustRun
  <1>8. \A op \in {"enroll", "fill manifest", "attest", "create extra", "fill extra", "reload", "restart",
                      "gfa", "watch", "measure"} : Run("worker", Just(op), 7, 7) /\ ToSet(Just(op)) = {<<op, "-">>}
    BY <1>2, JustRun, Zenon
  <1>9. \A op \in {"drop extra"} : Run("recovery", Just(op), 0, 1) /\ ToSet(Just(op)) = {<<op, "-">>}
    BY <1>3, <1>4, JustRun
  <1>10. \A op \in {"drop manifest"} : Run("recovery", Just(op), 1, 1) /\ ToSet(Just(op)) = {<<op, "-">>}
    BY <1>1, <1>3, JustRun
  <1>11. \A op \in {"reload"} : Run("recovery", Just(op), 4, 4) /\ ToSet(Just(op)) = {<<op, "-">>}
    BY <1>1, <1>3, JustRun
  <1>12. \A op \in {"go on"} : Run("recovery", Just(op), 5, 5) /\ ToSet(Just(op)) = {<<op, "-">>}
    BY <1>1, <1>3, JustRun
  <1>13. \A op \in {"gfa", "clear", "check"} : Run("recovery", Just(op), 6, 6) /\ ToSet(Just(op)) = {<<op, "-">>}
    BY <1>1, <1>3, JustRun
  <1>14. \A op \in {"report"} : Run("recovery", Just(op), 7, 7) /\ ToSet(Just(op)) = {<<op, "-">>}
    BY <1>1, <1>3, JustRun
  <1>15. QED
    BY <1>5, <1>6, <1>7, <1>8, <1>9, <1>10, <1>11, <1>12, <1>13, <1>14

\* The commands for several units.
LEMMA UnitCommands ==
    /\ \A ph : /\ Run(ph, Each("stop", <<Timer>> \o Writers \o <<Main>>), 2, 2)
               /\ Run(ph, Each("start", <<Main>>), 6, 6) /\ Run(ph, Each("start", Writers \o <<Timer>>), 6, 6)
               /\ Run(ph, Each("remove", Overridden), 3, 3)
    /\ ToSet(Each("stop", <<Timer>> \o Writers \o <<Main>>)) = {<<"stop", u>> : u \in Units}
    /\ ToSet(Each("remove", Overridden)) = {<<"remove", u>> : u \in Units}
    /\ \A c \in ToSet(Each("start", <<Main>>)) \cup ToSet(Each("start", Writers \o <<Timer>>)) : c[1] = "start"
  <1>1. /\ Part("stop") = 2 /\ Part("start") = 6 /\ Part("remove") = 3
        /\ "stop" \in UnitOps /\ "start" \in UnitOps /\ "remove" \in UnitOps
    BY DEF Part, UnitOps
  <1>2. /\ <<Timer>> \o Writers \o <<Main>> \in Seq(Units) /\ <<Main>> \in Seq(Units)
        /\ Writers \o <<Timer>> \in Seq(Units) /\ Overridden \in Seq(Units)
        /\ ToSet(<<Timer>> \o Writers \o <<Main>>) = Units /\ ToSet(Overridden) = Units
    BY UnitFacts
  <1>3. ASSUME NEW ph
        PROVE  /\ Run(ph, Each("stop", <<Timer>> \o Writers \o <<Main>>), 2, 2)
               /\ Run(ph, Each("start", <<Main>>), 6, 6) /\ Run(ph, Each("start", Writers \o <<Timer>>), 6, 6)
               /\ Run(ph, Each("remove", Overridden), 3, 3)
    <2>1. Run(ph, Each("stop", <<Timer>> \o Writers \o <<Main>>), Part("stop"), Part("stop"))
      BY <1>1, <1>2, EachRun, Zenon
    <2>2. Run(ph, Each("start", <<Main>>), Part("start"), Part("start"))
      BY <1>1, <1>2, EachRun, Zenon
    <2>3. Run(ph, Each("start", Writers \o <<Timer>>), Part("start"), Part("start"))
      BY <1>1, <1>2, EachRun, Zenon
    <2>4. Run(ph, Each("remove", Overridden), Part("remove"), Part("remove"))
      BY <1>1, <1>2, EachRun, Zenon
    <2>5. QED
      BY <1>1, <2>1, <2>2, <2>3, <2>4
  <1>4. /\ ToSet(Each("stop", <<Timer>> \o Writers \o <<Main>>)) = {<<"stop", u>> : u \in Units}
        /\ ToSet(Each("remove", Overridden)) = {<<"remove", u>> : u \in Units}
    BY <1>1, <1>2, EachRun
  <1>5. \A c \in ToSet(Each("start", <<Main>>)) \cup ToSet(Each("start", Writers \o <<Timer>>)) : c[1] = "start"
    <2>1. /\ ToSet(Each("start", <<Main>>)) = {<<"start", u>> : u \in ToSet(<<Main>>)}
          /\ ToSet(Each("start", Writers \o <<Timer>>)) = {<<"start", u>> : u \in ToSet(Writers \o <<Timer>>)}
      BY <1>1, <1>2, EachRun
    <2>2. \A U : \A c \in {<<"start", u>> : u \in U} : c[1] = "start"
      OBVIOUS
    <2>3. QED
      BY <2>1, <2>2
  <1>6. QED
    BY <1>3, <1>4, <1>5

\* The commands of the automatic mode.
AutoOps == {"enroll", "fill manifest", "create extra", "fill extra"}

\* The worker of a shadow session fills every override, and nothing of the automatic mode.
LEMMA ShadowRun ==
    /\ Run("worker", ShadowScript, 2, 6)
    /\ \A u \in Units : <<"fill", u>> \in ToSet(ShadowScript)
    /\ \A c \in ToSet(ShadowScript) : c[1] \notin AutoOps
  <1> DEFINE s1 == Each("stop", <<Timer>> \o Writers \o <<Main>>)
             s2 == s1 \o Just("provision")
             s3 == s2 \o Install
             s4 == s3 \o Just("reload")
             s5 == s4 \o Each("start", <<Main>>)
             s6 == s5 \o Just("gfa")
             s7 == s6 \o Each("start", Writers \o <<Timer>>)
             s8 == s7 \o Just("check")
             s9 == s8 \o Just("gfa")
  <1> HIDE DEF s1, s2, s3, s4, s5, s6, s7, s8, s9
  <1>1. Run("worker", Each("stop", <<Timer>> \o Writers \o <<Main>>), 2, 2)
    BY UnitCommands
  <1>2. Run("worker", Just("provision"), 3, 3)
    BY PlainCommands, Zenon
  <1>3. Run("worker", s2, 2, 3) /\ ToSet(s2) = ToSet(s1) \cup ToSet(Just("provision"))
    <2>1. Joins("worker", s1, Just("provision"), 2, 2, 3, 3)
      BY RunsInARow
    <2>2. {2, 2, 3, 3} \subseteq Nat /\ 2 <= 3 /\ 2 <= 3 /\ 2 <= 3
      OBVIOUS
    <2>3. Run("worker", s1 \o Just("provision"), 2, 3) /\ ToSet(s1 \o Just("provision")) = ToSet(s1) \cup ToSet(Just("provision"))
      BY <1>1, <1>2, <2>1, <2>2 DEF Joins, s1
    <2>4. QED
      BY <2>3 DEF s2
  <1>4. Run("worker", Install, 3, 3)
    BY InstallRun
  <1>5. Run("worker", s3, 2, 3) /\ ToSet(s3) = ToSet(s2) \cup ToSet(Install)
    <2>1. Joins("worker", s2, Install, 2, 3, 3, 3)
      BY RunsInARow
    <2>2. {2, 3, 3, 3} \subseteq Nat /\ 2 <= 3 /\ 3 <= 3 /\ 3 <= 3
      OBVIOUS
    <2>3. Run("worker", s2 \o Install, 2, 3) /\ ToSet(s2 \o Install) = ToSet(s2) \cup ToSet(Install)
      BY <1>3, <1>4, <2>1, <2>2 DEF Joins
    <2>4. QED
      BY <2>3 DEF s3
  <1>6. Run("worker", Just("reload"), 4, 4)
    BY PlainCommands, Zenon
  <1>7. Run("worker", s4, 2, 4) /\ ToSet(s4) = ToSet(s3) \cup ToSet(Just("reload"))
    <2>1. Joins("worker", s3, Just("reload"), 2, 3, 4, 4)
      BY RunsInARow
    <2>2. {2, 3, 4, 4} \subseteq Nat /\ 2 <= 4 /\ 3 <= 4 /\ 3 <= 4
      OBVIOUS
    <2>3. Run("worker", s3 \o Just("reload"), 2, 4) /\ ToSet(s3 \o Just("reload")) = ToSet(s3) \cup ToSet(Just("reload"))
      BY <1>5, <1>6, <2>1, <2>2 DEF Joins
    <2>4. QED
      BY <2>3 DEF s4
  <1>8. Run("worker", Each("start", <<Main>>), 6, 6)
    BY UnitCommands
  <1>9. Run("worker", s5, 2, 6) /\ ToSet(s5) = ToSet(s4) \cup ToSet(Each("start", <<Main>>))
    <2>1. Joins("worker", s4, Each("start", <<Main>>), 2, 4, 6, 6)
      BY RunsInARow
    <2>2. {2, 4, 6, 6} \subseteq Nat /\ 2 <= 6 /\ 4 <= 6 /\ 4 <= 6
      OBVIOUS
    <2>3. Run("worker", s4 \o Each("start", <<Main>>), 2, 6) /\ ToSet(s4 \o Each("start", <<Main>>)) = ToSet(s4) \cup ToSet(Each("start", <<Main>>))
      BY <1>7, <1>8, <2>1, <2>2 DEF Joins
    <2>4. QED
      BY <2>3 DEF s5
  <1>10. Run("worker", Just("gfa"), 6, 6)
    BY PlainCommands, Zenon
  <1>11. Run("worker", s6, 2, 6) /\ ToSet(s6) = ToSet(s5) \cup ToSet(Just("gfa"))
    <2>1. Joins("worker", s5, Just("gfa"), 2, 6, 6, 6)
      BY RunsInARow
    <2>2. {2, 6, 6, 6} \subseteq Nat /\ 2 <= 6 /\ 6 <= 6 /\ 6 <= 6
      OBVIOUS
    <2>3. Run("worker", s5 \o Just("gfa"), 2, 6) /\ ToSet(s5 \o Just("gfa")) = ToSet(s5) \cup ToSet(Just("gfa"))
      BY <1>9, <1>10, <2>1, <2>2 DEF Joins
    <2>4. QED
      BY <2>3 DEF s6
  <1>12. Run("worker", Each("start", Writers \o <<Timer>>), 6, 6)
    BY UnitCommands
  <1>13. Run("worker", s7, 2, 6) /\ ToSet(s7) = ToSet(s6) \cup ToSet(Each("start", Writers \o <<Timer>>))
    <2>1. Joins("worker", s6, Each("start", Writers \o <<Timer>>), 2, 6, 6, 6)
      BY RunsInARow
    <2>2. {2, 6, 6, 6} \subseteq Nat /\ 2 <= 6 /\ 6 <= 6 /\ 6 <= 6
      OBVIOUS
    <2>3. Run("worker", s6 \o Each("start", Writers \o <<Timer>>), 2, 6) /\ ToSet(s6 \o Each("start", Writers \o <<Timer>>)) = ToSet(s6) \cup ToSet(Each("start", Writers \o <<Timer>>))
      BY <1>11, <1>12, <2>1, <2>2 DEF Joins
    <2>4. QED
      BY <2>3 DEF s7
  <1>14. Run("worker", Just("check"), 6, 6)
    BY PlainCommands, Zenon
  <1>15. Run("worker", s8, 2, 6) /\ ToSet(s8) = ToSet(s7) \cup ToSet(Just("check"))
    <2>1. Joins("worker", s7, Just("check"), 2, 6, 6, 6)
      BY RunsInARow
    <2>2. {2, 6, 6, 6} \subseteq Nat /\ 2 <= 6 /\ 6 <= 6 /\ 6 <= 6
      OBVIOUS
    <2>3. Run("worker", s7 \o Just("check"), 2, 6) /\ ToSet(s7 \o Just("check")) = ToSet(s7) \cup ToSet(Just("check"))
      BY <1>13, <1>14, <2>1, <2>2 DEF Joins
    <2>4. QED
      BY <2>3 DEF s8
  <1>16. Run("worker", Just("gfa"), 6, 6)
    BY PlainCommands, Zenon
  <1>17. Run("worker", s9, 2, 6) /\ ToSet(s9) = ToSet(s8) \cup ToSet(Just("gfa"))
    <2>1. Joins("worker", s8, Just("gfa"), 2, 6, 6, 6)
      BY RunsInARow
    <2>2. {2, 6, 6, 6} \subseteq Nat /\ 2 <= 6 /\ 6 <= 6 /\ 6 <= 6
      OBVIOUS
    <2>3. Run("worker", s8 \o Just("gfa"), 2, 6) /\ ToSet(s8 \o Just("gfa")) = ToSet(s8) \cup ToSet(Just("gfa"))
      BY <1>15, <1>16, <2>1, <2>2 DEF Joins
    <2>4. QED
      BY <2>3 DEF s9
  <1>18. s9 = ShadowScript
    BY DEF ShadowScript, s1, s2, s3, s4, s5, s6, s7, s8, s9
  <1>19. \A c \in ToSet(Each("stop", <<Timer>> \o Writers \o <<Main>>)) \cup ToSet(Each("start", <<Main>>))
             \cup ToSet(Each("start", Writers \o <<Timer>>)) : c[1] \notin AutoOps
    <2>1. \A c \in ToSet(Each("stop", <<Timer>> \o Writers \o <<Main>>)) : c[1] = "stop"
      BY UnitCommands
    <2>2. QED
      BY <2>1, UnitCommands DEF AutoOps
  <1>20. \A op \in {"provision", "reload", "gfa", "check"} : \A c \in ToSet(Just(op)) : c[1] \notin AutoOps
    <2>1. \A op \in {"provision", "reload", "gfa", "check"} : ToSet(Just(op)) = {<<op, "-">>} /\ op \notin AutoOps
      BY PlainCommands DEF AutoOps
    <2>2. QED
      BY <2>1
  <1>21. \A c \in ToSet(Install) : c[1] \notin AutoOps
    BY InstallRun DEF AutoOps
  <1>22. \A u \in Units : <<"fill", u>> \in ToSet(s9)
    BY <1>3, <1>5, <1>7, <1>9, <1>11, <1>13, <1>15, <1>17, InstallRun
  <1>23. \A c \in ToSet(s9) : c[1] \notin AutoOps
    BY <1>3, <1>5, <1>7, <1>9, <1>11, <1>13, <1>15, <1>17, <1>19, <1>20, <1>21 DEF s1
  <1>24. QED
    BY <1>17, <1>18, <1>22, <1>23

\* What the automatic mode adds comes last.
LEMMA AutoRun == Run("worker", AutoScript, 7, 7)
  <1> DEFINE s1 == Just("enroll")
             s2 == s1 \o Just("fill manifest")
             s3 == s2 \o Just("attest")
             s4 == s3 \o Just("create extra")
             s5 == s4 \o Just("fill extra")
             s6 == s5 \o Just("reload")
             s7 == s6 \o Just("restart")
             s8 == s7 \o Just("gfa")
             s9 == s8 \o Just("watch")
             s10 == s9 \o Just("gfa")
  <1> HIDE DEF s1, s2, s3, s4, s5, s6, s7, s8, s9, s10
  <1>1. Run("worker", Just("enroll"), 7, 7)
    BY PlainCommands, Zenon
  <1>2. Run("worker", Just("fill manifest"), 7, 7)
    BY PlainCommands, Zenon
  <1>3. Run("worker", s2, 7, 7) /\ ToSet(s2) = ToSet(s1) \cup ToSet(Just("fill manifest"))
    <2>1. Joins("worker", s1, Just("fill manifest"), 7, 7, 7, 7)
      BY RunsInARow
    <2>2. {7, 7, 7, 7} \subseteq Nat /\ 7 <= 7 /\ 7 <= 7 /\ 7 <= 7
      OBVIOUS
    <2>3. Run("worker", s1 \o Just("fill manifest"), 7, 7) /\ ToSet(s1 \o Just("fill manifest")) = ToSet(s1) \cup ToSet(Just("fill manifest"))
      BY <1>1, <1>2, <2>1, <2>2 DEF Joins, s1
    <2>4. QED
      BY <2>3 DEF s2
  <1>4. Run("worker", Just("attest"), 7, 7)
    BY PlainCommands, Zenon
  <1>5. Run("worker", s3, 7, 7) /\ ToSet(s3) = ToSet(s2) \cup ToSet(Just("attest"))
    <2>1. Joins("worker", s2, Just("attest"), 7, 7, 7, 7)
      BY RunsInARow
    <2>2. {7, 7, 7, 7} \subseteq Nat /\ 7 <= 7 /\ 7 <= 7 /\ 7 <= 7
      OBVIOUS
    <2>3. Run("worker", s2 \o Just("attest"), 7, 7) /\ ToSet(s2 \o Just("attest")) = ToSet(s2) \cup ToSet(Just("attest"))
      BY <1>3, <1>4, <2>1, <2>2 DEF Joins
    <2>4. QED
      BY <2>3 DEF s3
  <1>6. Run("worker", Just("create extra"), 7, 7)
    BY PlainCommands, Zenon
  <1>7. Run("worker", s4, 7, 7) /\ ToSet(s4) = ToSet(s3) \cup ToSet(Just("create extra"))
    <2>1. Joins("worker", s3, Just("create extra"), 7, 7, 7, 7)
      BY RunsInARow
    <2>2. {7, 7, 7, 7} \subseteq Nat /\ 7 <= 7 /\ 7 <= 7 /\ 7 <= 7
      OBVIOUS
    <2>3. Run("worker", s3 \o Just("create extra"), 7, 7) /\ ToSet(s3 \o Just("create extra")) = ToSet(s3) \cup ToSet(Just("create extra"))
      BY <1>5, <1>6, <2>1, <2>2 DEF Joins
    <2>4. QED
      BY <2>3 DEF s4
  <1>8. Run("worker", Just("fill extra"), 7, 7)
    BY PlainCommands, Zenon
  <1>9. Run("worker", s5, 7, 7) /\ ToSet(s5) = ToSet(s4) \cup ToSet(Just("fill extra"))
    <2>1. Joins("worker", s4, Just("fill extra"), 7, 7, 7, 7)
      BY RunsInARow
    <2>2. {7, 7, 7, 7} \subseteq Nat /\ 7 <= 7 /\ 7 <= 7 /\ 7 <= 7
      OBVIOUS
    <2>3. Run("worker", s4 \o Just("fill extra"), 7, 7) /\ ToSet(s4 \o Just("fill extra")) = ToSet(s4) \cup ToSet(Just("fill extra"))
      BY <1>7, <1>8, <2>1, <2>2 DEF Joins
    <2>4. QED
      BY <2>3 DEF s5
  <1>10. Run("worker", Just("reload"), 7, 7)
    BY PlainCommands, Zenon
  <1>11. Run("worker", s6, 7, 7) /\ ToSet(s6) = ToSet(s5) \cup ToSet(Just("reload"))
    <2>1. Joins("worker", s5, Just("reload"), 7, 7, 7, 7)
      BY RunsInARow
    <2>2. {7, 7, 7, 7} \subseteq Nat /\ 7 <= 7 /\ 7 <= 7 /\ 7 <= 7
      OBVIOUS
    <2>3. Run("worker", s5 \o Just("reload"), 7, 7) /\ ToSet(s5 \o Just("reload")) = ToSet(s5) \cup ToSet(Just("reload"))
      BY <1>9, <1>10, <2>1, <2>2 DEF Joins
    <2>4. QED
      BY <2>3 DEF s6
  <1>12. Run("worker", Just("restart"), 7, 7)
    BY PlainCommands, Zenon
  <1>13. Run("worker", s7, 7, 7) /\ ToSet(s7) = ToSet(s6) \cup ToSet(Just("restart"))
    <2>1. Joins("worker", s6, Just("restart"), 7, 7, 7, 7)
      BY RunsInARow
    <2>2. {7, 7, 7, 7} \subseteq Nat /\ 7 <= 7 /\ 7 <= 7 /\ 7 <= 7
      OBVIOUS
    <2>3. Run("worker", s6 \o Just("restart"), 7, 7) /\ ToSet(s6 \o Just("restart")) = ToSet(s6) \cup ToSet(Just("restart"))
      BY <1>11, <1>12, <2>1, <2>2 DEF Joins
    <2>4. QED
      BY <2>3 DEF s7
  <1>14. Run("worker", Just("gfa"), 7, 7)
    BY PlainCommands, Zenon
  <1>15. Run("worker", s8, 7, 7) /\ ToSet(s8) = ToSet(s7) \cup ToSet(Just("gfa"))
    <2>1. Joins("worker", s7, Just("gfa"), 7, 7, 7, 7)
      BY RunsInARow
    <2>2. {7, 7, 7, 7} \subseteq Nat /\ 7 <= 7 /\ 7 <= 7 /\ 7 <= 7
      OBVIOUS
    <2>3. Run("worker", s7 \o Just("gfa"), 7, 7) /\ ToSet(s7 \o Just("gfa")) = ToSet(s7) \cup ToSet(Just("gfa"))
      BY <1>13, <1>14, <2>1, <2>2 DEF Joins
    <2>4. QED
      BY <2>3 DEF s8
  <1>16. Run("worker", Just("watch"), 7, 7)
    BY PlainCommands, Zenon
  <1>17. Run("worker", s9, 7, 7) /\ ToSet(s9) = ToSet(s8) \cup ToSet(Just("watch"))
    <2>1. Joins("worker", s8, Just("watch"), 7, 7, 7, 7)
      BY RunsInARow
    <2>2. {7, 7, 7, 7} \subseteq Nat /\ 7 <= 7 /\ 7 <= 7 /\ 7 <= 7
      OBVIOUS
    <2>3. Run("worker", s8 \o Just("watch"), 7, 7) /\ ToSet(s8 \o Just("watch")) = ToSet(s8) \cup ToSet(Just("watch"))
      BY <1>15, <1>16, <2>1, <2>2 DEF Joins
    <2>4. QED
      BY <2>3 DEF s9
  <1>18. Run("worker", Just("gfa"), 7, 7)
    BY PlainCommands, Zenon
  <1>19. Run("worker", s10, 7, 7) /\ ToSet(s10) = ToSet(s9) \cup ToSet(Just("gfa"))
    <2>1. Joins("worker", s9, Just("gfa"), 7, 7, 7, 7)
      BY RunsInARow
    <2>2. {7, 7, 7, 7} \subseteq Nat /\ 7 <= 7 /\ 7 <= 7 /\ 7 <= 7
      OBVIOUS
    <2>3. Run("worker", s9 \o Just("gfa"), 7, 7) /\ ToSet(s9 \o Just("gfa")) = ToSet(s9) \cup ToSet(Just("gfa"))
      BY <1>17, <1>18, <2>1, <2>2 DEF Joins
    <2>4. QED
      BY <2>3 DEF s10
  <1>20. s10 = AutoScript
    BY DEF AutoScript, s1, s2, s3, s4, s5, s6, s7, s8, s9, s10
  <1>21. QED
    BY <1>19, <1>20

\* The whole script of a worker.
LEMMA WorkerRun ==
    ASSUME NEW k \in {"shadow", "auto"}
    PROVE  /\ WorkerScript(k) \in Seq(Commands) /\ InOrder("worker", WorkerScript(k))
           /\ \A u \in Units : <<"fill", u>> \in ToSet(WorkerScript(k))
           /\ k = "shadow" => \A c \in ToSet(WorkerScript(k)) : c[1] \notin AutoOps
  <1> DEFINE middle == IF k = "auto" THEN AutoScript ELSE <<>>
  <1>1. Run("worker", middle, 7, 7) /\ (k = "shadow" => ToSet(middle) = {})
    <2>1. CASE k = "auto"
      BY <2>1, AutoRun
    <2>2. CASE k = "shadow"
      BY <2>2 DEF Run, InOrder, ToSet
    <2>3. QED
      BY <2>1, <2>2
  <1> HIDE DEF middle
  <1>2. 2 \in Nat /\ 6 \in Nat /\ 7 \in Nat /\ 2 <= 7 /\ 6 <= 7 /\ 7 <= 7
    OBVIOUS
  <1>3. Run("worker", ShadowScript \o middle, 2, 7) /\ ToSet(ShadowScript \o middle) = ToSet(ShadowScript) \cup ToSet(middle)
    <2>1. Joins("worker", ShadowScript, middle, 2, 6, 7, 7)
      BY <1>2, RunsInARow
    <2>2. QED
      BY <1>1, <2>1, ShadowRun DEF Joins
  <1>4. Run("worker", Just("measure"), 7, 7) /\ ToSet(Just("measure")) = {<<"measure", "-">>}
    BY PlainCommands, Zenon
  <1> DEFINE all == ShadowScript \o middle
  <1> HIDE DEF all
  <1>5. Run("worker", all \o Just("measure"), 2, 7) /\ ToSet(all \o Just("measure")) = ToSet(all) \cup ToSet(Just("measure"))
    <2>1. Joins("worker", all, Just("measure"), 2, 7, 7, 7)
      BY <1>2, RunsInARow
    <2>2. QED
      BY <1>3, <1>4, <2>1 DEF Joins, all
  <1>6. WorkerScript(k) = all \o Just("measure")
    BY DEF WorkerScript, all, middle
  <1>7. "measure" \notin AutoOps
    BY DEF AutoOps
  <1>8. ToSet(WorkerScript(k)) = ToSet(ShadowScript) \cup ToSet(middle) \cup {<<"measure", "-">>}
    BY <1>3, <1>4, <1>5, <1>6 DEF all
  <1>9. WorkerScript(k) \in Seq(Commands) /\ InOrder("worker", WorkerScript(k))
    BY <1>5, <1>6 DEF Run
  <1>10. k = "shadow" => \A c \in ToSet(WorkerScript(k)) : c[1] \notin AutoOps
    BY <1>1, <1>7, <1>8, ShadowRun
  <1>11. QED
    BY <1>8, <1>9, <1>10, ShadowRun

\* The recovery stops every unit and removes every override.
LEMMA RecoveryRun ==
    ASSUME NEW k \in {"shadow", "auto"}
    PROVE  LET all == RecoveryScript(k)
           IN  /\ all \in Seq(Commands) /\ InOrder("recovery", all) /\ Closes(all)
               /\ \A u \in Units : <<"stop", u>> \in ToSet(all) /\ <<"remove", u>> \in ToSet(all)
               /\ <<"reload", "-">> \in ToSet(all) /\ Closing \subseteq ToSet(all)
               /\ k = "auto" => <<"drop extra", "-">> \in ToSet(all) /\ <<"drop manifest", "-">> \in ToSet(all)
               /\ k = "shadow" => <<"drop extra", "-">> \notin ToSet(all)
  <1> DEFINE first == IF k = "auto" THEN Just("drop extra") \o Just("drop manifest") ELSE <<>>
  <1>1. /\ Run("recovery", first, 0, 1)
        /\ k = "auto" => ToSet(first) = {<<"drop extra", "-">>, <<"drop manifest", "-">>}
        /\ k = "shadow" => ToSet(first) = {}
    <2>1. CASE k = "auto"
      <3>1. /\ Run("recovery", Just("drop extra"), 0, 1) /\ ToSet(Just("drop extra")) = {<<"drop extra", "-">>}
            /\ Run("recovery", Just("drop manifest"), 1, 1) /\ ToSet(Just("drop manifest")) = {<<"drop manifest", "-">>}
        BY PlainCommands, Zenon
      <3>0. 0 \in Nat /\ 1 \in Nat /\ 0 <= 1 /\ 1 <= 1
        OBVIOUS
      <3>2. first = Just("drop extra") \o Just("drop manifest")
        BY <2>1
      <3>3. /\ Run("recovery", first, 0, 1)
            /\ ToSet(first) = ToSet(Just("drop extra")) \cup ToSet(Just("drop manifest"))
        <4>1. Joins("recovery", Just("drop extra"), Just("drop manifest"), 0, 1, 1, 1)
          BY RunsInARow
        <4>2. {0, 1, 1, 1} \subseteq Nat
          BY <3>0
        <4>3. QED
          BY <3>0, <3>1, <3>2, <4>1, <4>2 DEF Joins
      <3>4. QED
        BY <2>1, <3>1, <3>3
    <2>2. CASE k = "shadow"
      BY <2>2 DEF Run, InOrder, ToSet
    <2>3. QED
      BY <2>1, <2>2
  <1> HIDE DEF first
  <1> DEFINE s1 == first
             s2 == s1 \o Each("stop", <<Timer>> \o Writers \o <<Main>>)
             s3 == s2 \o Each("remove", Overridden)
             s4 == s3 \o Just("reload")
             s5 == s4 \o Just("go on")
             s6 == s5 \o Each("start", <<Main>>)
             s7 == s6 \o Just("gfa")
             s8 == s7 \o Just("clear")
             s9 == s8 \o Each("start", Writers \o <<Timer>>)
             s10 == s9 \o Just("check")
             s11 == s10 \o Just("gfa")
             s12 == s11 \o Just("report")
  <1> HIDE DEF s1, s2, s3, s4, s5, s6, s7, s8, s9, s10, s11, s12
  <1>2. Run("recovery", first, 0, 1)
    BY <1>1
  <1>3. Run("recovery", Each("stop", <<Timer>> \o Writers \o <<Main>>), 2, 2)
    BY UnitCommands
  <1>4. Run("recovery", s2, 0, 2) /\ ToSet(s2) = ToSet(s1) \cup ToSet(Each("stop", <<Timer>> \o Writers \o <<Main>>))
    <2>1. Joins("recovery", s1, Each("stop", <<Timer>> \o Writers \o <<Main>>), 0, 1, 2, 2)
      BY RunsInARow
    <2>2. {0, 1, 2, 2} \subseteq Nat /\ 0 <= 2 /\ 1 <= 2 /\ 1 <= 2
      OBVIOUS
    <2>3. Run("recovery", s1 \o Each("stop", <<Timer>> \o Writers \o <<Main>>), 0, 2) /\ ToSet(s1 \o Each("stop", <<Timer>> \o Writers \o <<Main>>)) = ToSet(s1) \cup ToSet(Each("stop", <<Timer>> \o Writers \o <<Main>>))
      BY <1>2, <1>3, <2>1, <2>2 DEF Joins, s1
    <2>4. QED
      BY <2>3 DEF s2
  <1>5. Run("recovery", Each("remove", Overridden), 3, 3)
    BY UnitCommands
  <1>6. Run("recovery", s3, 0, 3) /\ ToSet(s3) = ToSet(s2) \cup ToSet(Each("remove", Overridden))
    <2>1. Joins("recovery", s2, Each("remove", Overridden), 0, 2, 3, 3)
      BY RunsInARow
    <2>2. {0, 2, 3, 3} \subseteq Nat /\ 0 <= 3 /\ 2 <= 3 /\ 2 <= 3
      OBVIOUS
    <2>3. Run("recovery", s2 \o Each("remove", Overridden), 0, 3) /\ ToSet(s2 \o Each("remove", Overridden)) = ToSet(s2) \cup ToSet(Each("remove", Overridden))
      BY <1>4, <1>5, <2>1, <2>2 DEF Joins
    <2>4. QED
      BY <2>3 DEF s3
  <1>7. Run("recovery", Just("reload"), 4, 4)
    BY PlainCommands, Zenon
  <1>8. Run("recovery", s4, 0, 4) /\ ToSet(s4) = ToSet(s3) \cup ToSet(Just("reload"))
    <2>1. Joins("recovery", s3, Just("reload"), 0, 3, 4, 4)
      BY RunsInARow
    <2>2. {0, 3, 4, 4} \subseteq Nat /\ 0 <= 4 /\ 3 <= 4 /\ 3 <= 4
      OBVIOUS
    <2>3. Run("recovery", s3 \o Just("reload"), 0, 4) /\ ToSet(s3 \o Just("reload")) = ToSet(s3) \cup ToSet(Just("reload"))
      BY <1>6, <1>7, <2>1, <2>2 DEF Joins
    <2>4. QED
      BY <2>3 DEF s4
  <1>9. Run("recovery", Just("go on"), 5, 5)
    BY PlainCommands, Zenon
  <1>10. Run("recovery", s5, 0, 5) /\ ToSet(s5) = ToSet(s4) \cup ToSet(Just("go on"))
    <2>1. Joins("recovery", s4, Just("go on"), 0, 4, 5, 5)
      BY RunsInARow
    <2>2. {0, 4, 5, 5} \subseteq Nat /\ 0 <= 5 /\ 4 <= 5 /\ 4 <= 5
      OBVIOUS
    <2>3. Run("recovery", s4 \o Just("go on"), 0, 5) /\ ToSet(s4 \o Just("go on")) = ToSet(s4) \cup ToSet(Just("go on"))
      BY <1>8, <1>9, <2>1, <2>2 DEF Joins
    <2>4. QED
      BY <2>3 DEF s5
  <1>11. Run("recovery", Each("start", <<Main>>), 6, 6)
    BY UnitCommands
  <1>12. Run("recovery", s6, 0, 6) /\ ToSet(s6) = ToSet(s5) \cup ToSet(Each("start", <<Main>>))
    <2>1. Joins("recovery", s5, Each("start", <<Main>>), 0, 5, 6, 6)
      BY RunsInARow
    <2>2. {0, 5, 6, 6} \subseteq Nat /\ 0 <= 6 /\ 5 <= 6 /\ 5 <= 6
      OBVIOUS
    <2>3. Run("recovery", s5 \o Each("start", <<Main>>), 0, 6) /\ ToSet(s5 \o Each("start", <<Main>>)) = ToSet(s5) \cup ToSet(Each("start", <<Main>>))
      BY <1>10, <1>11, <2>1, <2>2 DEF Joins
    <2>4. QED
      BY <2>3 DEF s6
  <1>13. Run("recovery", Just("gfa"), 6, 6)
    BY PlainCommands, Zenon
  <1>14. Run("recovery", s7, 0, 6) /\ ToSet(s7) = ToSet(s6) \cup ToSet(Just("gfa"))
    <2>1. Joins("recovery", s6, Just("gfa"), 0, 6, 6, 6)
      BY RunsInARow
    <2>2. {0, 6, 6, 6} \subseteq Nat /\ 0 <= 6 /\ 6 <= 6 /\ 6 <= 6
      OBVIOUS
    <2>3. Run("recovery", s6 \o Just("gfa"), 0, 6) /\ ToSet(s6 \o Just("gfa")) = ToSet(s6) \cup ToSet(Just("gfa"))
      BY <1>12, <1>13, <2>1, <2>2 DEF Joins
    <2>4. QED
      BY <2>3 DEF s7
  <1>15. Run("recovery", Just("clear"), 6, 6)
    BY PlainCommands, Zenon
  <1>16. Run("recovery", s8, 0, 6) /\ ToSet(s8) = ToSet(s7) \cup ToSet(Just("clear"))
    <2>1. Joins("recovery", s7, Just("clear"), 0, 6, 6, 6)
      BY RunsInARow
    <2>2. {0, 6, 6, 6} \subseteq Nat /\ 0 <= 6 /\ 6 <= 6 /\ 6 <= 6
      OBVIOUS
    <2>3. Run("recovery", s7 \o Just("clear"), 0, 6) /\ ToSet(s7 \o Just("clear")) = ToSet(s7) \cup ToSet(Just("clear"))
      BY <1>14, <1>15, <2>1, <2>2 DEF Joins
    <2>4. QED
      BY <2>3 DEF s8
  <1>17. Run("recovery", Each("start", Writers \o <<Timer>>), 6, 6)
    BY UnitCommands
  <1>18. Run("recovery", s9, 0, 6) /\ ToSet(s9) = ToSet(s8) \cup ToSet(Each("start", Writers \o <<Timer>>))
    <2>1. Joins("recovery", s8, Each("start", Writers \o <<Timer>>), 0, 6, 6, 6)
      BY RunsInARow
    <2>2. {0, 6, 6, 6} \subseteq Nat /\ 0 <= 6 /\ 6 <= 6 /\ 6 <= 6
      OBVIOUS
    <2>3. Run("recovery", s8 \o Each("start", Writers \o <<Timer>>), 0, 6) /\ ToSet(s8 \o Each("start", Writers \o <<Timer>>)) = ToSet(s8) \cup ToSet(Each("start", Writers \o <<Timer>>))
      BY <1>16, <1>17, <2>1, <2>2 DEF Joins
    <2>4. QED
      BY <2>3 DEF s9
  <1>19. Run("recovery", Just("check"), 6, 6)
    BY PlainCommands, Zenon
  <1>20. Run("recovery", s10, 0, 6) /\ ToSet(s10) = ToSet(s9) \cup ToSet(Just("check"))
    <2>1. Joins("recovery", s9, Just("check"), 0, 6, 6, 6)
      BY RunsInARow
    <2>2. {0, 6, 6, 6} \subseteq Nat /\ 0 <= 6 /\ 6 <= 6 /\ 6 <= 6
      OBVIOUS
    <2>3. Run("recovery", s9 \o Just("check"), 0, 6) /\ ToSet(s9 \o Just("check")) = ToSet(s9) \cup ToSet(Just("check"))
      BY <1>18, <1>19, <2>1, <2>2 DEF Joins
    <2>4. QED
      BY <2>3 DEF s10
  <1>21. Run("recovery", Just("gfa"), 6, 6)
    BY PlainCommands, Zenon
  <1>22. Run("recovery", s11, 0, 6) /\ ToSet(s11) = ToSet(s10) \cup ToSet(Just("gfa"))
    <2>1. Joins("recovery", s10, Just("gfa"), 0, 6, 6, 6)
      BY RunsInARow
    <2>2. {0, 6, 6, 6} \subseteq Nat /\ 0 <= 6 /\ 6 <= 6 /\ 6 <= 6
      OBVIOUS
    <2>3. Run("recovery", s10 \o Just("gfa"), 0, 6) /\ ToSet(s10 \o Just("gfa")) = ToSet(s10) \cup ToSet(Just("gfa"))
      BY <1>20, <1>21, <2>1, <2>2 DEF Joins
    <2>4. QED
      BY <2>3 DEF s11
  <1>23. Run("recovery", Just("report"), 7, 7)
    BY PlainCommands, Zenon
  <1>24. Run("recovery", s12, 0, 7) /\ ToSet(s12) = ToSet(s11) \cup ToSet(Just("report"))
    <2>1. Joins("recovery", s11, Just("report"), 0, 6, 7, 7)
      BY RunsInARow
    <2>2. {0, 6, 7, 7} \subseteq Nat /\ 0 <= 7 /\ 6 <= 7 /\ 6 <= 7
      OBVIOUS
    <2>3. Run("recovery", s11 \o Just("report"), 0, 7) /\ ToSet(s11 \o Just("report")) = ToSet(s11) \cup ToSet(Just("report"))
      BY <1>22, <1>23, <2>1, <2>2 DEF Joins
    <2>4. QED
      BY <2>3 DEF s12
  <1>25. s12 = RecoveryScript(k)
    BY DEF RecoveryScript, first, s1, s2, s3, s4, s5, s6, s7, s8, s9, s10, s11, s12
  <1>26. /\ ToSet(Each("stop", <<Timer>> \o Writers \o <<Main>>)) = {<<"stop", u>> : u \in Units}
        /\ ToSet(Each("remove", Overridden)) = {<<"remove", u>> : u \in Units}
        /\ \A c \in ToSet(Each("start", <<Main>>)) \cup ToSet(Each("start", Writers \o <<Timer>>)) : c[1] = "start"
    BY UnitCommands
  <1>27. \A op \in {"reload", "go on", "gfa", "clear", "check", "report"} : ToSet(Just(op)) = {<<op, "-">>}
    BY PlainCommands
  <1>28. /\ \A u \in Units : <<"stop", u>> \in ToSet(s12) /\ <<"remove", u>> \in ToSet(s12)
        /\ \A op \in {"reload", "go on", "clear", "check"} : <<op, "-">> \in ToSet(s12)
        /\ ToSet(first) \subseteq ToSet(s12)
    BY <1>4, <1>6, <1>8, <1>10, <1>12, <1>14, <1>16, <1>18, <1>20, <1>22, <1>24, <1>26, <1>27 DEF s1
  <1>29. k = "shadow" => <<"drop extra", "-">> \notin ToSet(s12)
    <2>1. ASSUME k = "shadow", <<"drop extra", "-">> \in ToSet(s12) PROVE FALSE
      <3>1. \A c \in {<<"stop", u>> : u \in Units} \cup {<<"remove", u>> : u \in Units} : c[1] # "drop extra"
        <4>1. \A u : <<"stop", u>>[1] # "drop extra" /\ <<"remove", u>>[1] # "drop extra"
          OBVIOUS
        <4>2. QED
          BY <4>1
      <3>2. \A op \in {"reload", "go on", "gfa", "clear", "check", "report"} : \A c \in ToSet(Just(op)) : c[1] # "drop extra"
        <4>1. ASSUME NEW op, op # "drop extra", NEW c, c \in {<<op, "-">>} PROVE c[1] # "drop extra"
          <5>1. c = <<op, "-">>
            BY <4>1
          <5>2. c[1] = op
            BY <5>1
          <5>3. QED
            BY <4>1, <5>2
        <4>2. \A op \in {"reload", "go on", "gfa", "clear", "check", "report"} : op # "drop extra"
          OBVIOUS
        <4>3. QED
          BY <1>27, <4>1, <4>2, Zenon
      <3>3. \A c \in ToSet(s6) : c[1] # "drop extra"
        BY <1>1, <1>4, <1>6, <1>8, <1>10, <1>12, <1>26, <3>1, <3>2, <2>1 DEF s1
      <3>4. \A c \in ToSet(s12) : c[1] # "drop extra"
        BY <1>14, <1>16, <1>18, <1>20, <1>22, <1>24, <1>26, <3>2, <3>3
      <3>5. QED
        BY <2>1, <3>4
    <2>2. QED
      BY <2>1
  <1>30. Closing \subseteq ToSet(s12) /\ <<"reload", "-">> \in ToSet(s12)
    BY <1>28 DEF Closing
  <1>31. Closes(s12)
    BY <1>30 DEF Closes
  <1>32. QED
    BY <1>1, <1>24, <1>25, <1>28, <1>29, <1>30, <1>31 DEF Run

-----------------------------------------------------------------------------
\* The next command of a script, and what is left after it.
LEMMA Advance ==
    ASSUME ScriptInv, todo # <<>>
    PROVE  /\ Op \in Ops /\ <<Op, Unit>> \in Left
           /\ IF Op \in UnitOps THEN Unit \in Units ELSE Unit = "-"
           /\ \A o, x : <<o, x>> \in Left => o = Op \/ Part(Op) <= LastPart(phase, o)
           /\ \A o, x : <<o, x>> \in ToSet(Tail(todo)) => /\ <<o, x>> \in Left
                                                         /\ Part(Op) <= LastPart(phase, o)
           /\ \A o, x : <<o, x>> \in Left => <<o, x>> \in ToSet(Tail(todo)) \/ (o = Op /\ x = Unit)
           /\ phase = "recovery" => \A c \in Closing : Part(Op) < Part(c[1]) => c \in ToSet(Tail(todo))
           /\ NextCommand => ScriptInv'
  <1> DEFINE first == todo[1]
             rest == Tail(todo)
  <1>1. /\ todo \in Seq(Commands) /\ InOrder(phase, todo)
        /\ phase = "recovery" => Closes(todo)
    BY DEF ScriptInv
  <1>2. /\ Head(todo) = first /\ first \in Commands /\ rest \in Seq(Commands)
        /\ DOMAIN todo = 1 .. Len(todo) /\ DOMAIN rest = 1 .. Len(rest) /\ 1 \in 1 .. Len(todo)
        /\ \A i \in 1 .. Len(rest) : i + 1 \in 1 .. Len(todo) /\ rest[i] = todo[i + 1]
        /\ Len(todo) \in Nat /\ Len(rest) \in Nat
    BY <1>1, QueueEnds
  <1>3. /\ ToSet(todo) = ToSet(rest) \cup {first}
        /\ \A e : e \in ToSet(todo) <=> \E i \in 1 .. Len(todo) : todo[i] = e
        /\ \A e : e \in ToSet(rest) <=> \E i \in 1 .. Len(rest) : rest[i] = e
    BY <1>1, <1>2, TailMembers, Members
  <1>4. Op = first[1] /\ Unit = first[2]
    BY <1>2 DEF Op, Unit
  <1> HIDE DEF first, rest
  <1>5. first = <<Op, Unit>> /\ Op \in Ops /\ IF Op \in UnitOps THEN Unit \in Units ELSE Unit = "-"
    <2>1. UnitOps \subseteq Ops
      BY DEF UnitOps, Ops
    <2>2. \/ \E op \in UnitOps, u \in Units : first = <<op, u>>
          \/ \E op \in Ops \ UnitOps : first = <<op, "-">>
      BY <1>2 DEF Commands
    <2>3. QED
      BY <1>4, <2>1, <2>2
  <1>6. ASSUME NEW o, NEW x, <<o, x>> \in ToSet(rest) PROVE Part(Op) <= LastPart(phase, o)
    <2>1. PICK i \in 1 .. Len(rest) : rest[i] = <<o, x>>
      BY <1>3, <1>6
    <2>2. i + 1 \in 1 .. Len(todo) /\ todo[i + 1] = <<o, x>> /\ 1 < i + 1
      BY <1>2, <2>1
    <2>3. Part(todo[1][1]) <= LastPart(phase, todo[i + 1][1])
      BY <1>1, <1>2, <2>2 DEF InOrder
    <2>4. todo[1][1] = Op /\ todo[i + 1][1] = o
      BY <1>4, <2>2 DEF first
    <2>5. QED
      BY <2>3, <2>4
  <1>7. ASSUME phase = "recovery", NEW c \in Closing, Part(Op) < Part(c[1]) PROVE c \in ToSet(rest)
    <2>1. c \in ToSet(todo)
      BY <1>1, <1>2, <1>4, <1>7 DEF Closes, first
    <2>2. c[1] # Op
      <3>1. Part(Op) \in Nat
        BY PartNumbers
      <3>2. QED
        BY <1>7, <3>1
    <2>3. c # first
      BY <1>4, <2>2
    <2>4. QED
      BY <1>3, <2>1, <2>3
  <1>8. ASSUME NextCommand PROVE ScriptInv'
    <2>1. todo' = rest /\ phase' = phase
      BY <1>8 DEF NextCommand, rest
    <2>2. InOrder(phase, rest)
      <3>1. ASSUME NEW i \in 1 .. Len(rest), NEW j \in 1 .. Len(rest), i < j
            PROVE  Part(rest[i][1]) <= LastPart(phase, rest[j][1])
        <4>1. /\ i + 1 \in 1 .. Len(todo) /\ rest[i] = todo[i + 1] /\ j + 1 \in 1 .. Len(todo) /\ rest[j] = todo[j + 1]
              /\ i + 1 < j + 1
          BY <1>2, <3>1
        <4>2. QED
          BY <1>1, <1>2, <4>1 DEF InOrder
      <3>2. QED
        BY <1>2, <3>1 DEF InOrder
    <2>3. ASSUME phase = "recovery" PROVE Closes(rest)
      <3>1. ASSUME NEW c \in Closing, NEW i \in 1 .. Len(rest), Part(rest[i][1]) < Part(c[1])
            PROVE  c \in ToSet(rest)
        <4>1. i + 1 \in 1 .. Len(todo) /\ rest[i] = todo[i + 1] /\ 1 < i + 1
          BY <1>2, <3>1
        <4>2. Part(Op) <= LastPart(phase, rest[i][1])
          BY <1>1, <1>2, <1>4, <4>1 DEF InOrder, first
        <4>3. LastPart(phase, rest[i][1]) <= Part(rest[i][1])
          <5>1. LastPart(phase, rest[i][1]) \in {0, Part(rest[i][1])}
            BY <2>3 DEF LastPart
          <5>2. Part(rest[i][1]) \in Nat
            BY PartNumbers
          <5>3. QED
            BY <5>1, <5>2
        <4>4. Part(Op) < Part(c[1])
          <5>1. /\ Part(Op) \in Nat /\ Part(c[1]) \in Nat /\ Part(rest[i][1]) \in Nat
                /\ LastPart(phase, rest[i][1]) \in Nat
            BY PartNumbers
          <5>2. QED
            BY <3>1, <4>2, <4>3, <5>1
        <4>5. QED
          BY <1>7, <2>3, <4>4
      <3>2. QED
        BY <1>2, <3>1 DEF Closes
    <2>4. QED
      BY <1>2, <2>1, <2>2, <2>3 DEF ScriptInv
  <1>9. \A o, x : <<o, x>> \in Left => <<o, x>> \in ToSet(rest) \/ (o = Op /\ x = Unit)
    <2>1. ASSUME NEW o, NEW x, <<o, x>> \in Left PROVE <<o, x>> \in ToSet(rest) \/ <<o, x>> = first
      BY <1>3, <2>1 DEF Left
    <2>2. QED
      BY <1>5, <2>1
  <1>10. \A o, x : <<o, x>> \in ToSet(rest) => <<o, x>> \in Left
    BY <1>3 DEF Left
  <1>11. <<Op, Unit>> \in Left
    BY <1>3, <1>5 DEF Left
  <1>12. \A o, x : <<o, x>> \in Left => o = Op \/ Part(Op) <= LastPart(phase, o)
    BY <1>6, <1>9
  <1>13. QED
    BY <1>5, <1>6, <1>7, <1>8, <1>9, <1>10, <1>11, <1>12 DEF rest
\* What is behind the worker: at each command those of the parts before it.
LEMMA WorkerGone ==
    ASSUME ScriptInv, phase = "worker", todo # <<>>
    PROVE  /\ Op \in {"reload", "start", "gfa", "check"} \cup
                    {"enroll", "attest", "create extra", "fill extra", "fill manifest", "restart", "watch", "measure"}
              => \A u : <<"fill", u>> \notin Left
           /\ Op \in {"enroll", "attest", "create extra", "fill extra", "fill manifest", "restart", "watch", "measure"}
              => \A u : <<"start", u>> \notin Left
  <1>1. /\ LastPart("worker", "fill") = 3 /\ LastPart("worker", "start") = 6
    BY DEF Part, LastPart
  <1>2. \A o, x : <<o, x>> \in Left => o = Op \/ Part(Op) <= LastPart("worker", o)
    BY Advance
  <1>3. ASSUME Op \in {"reload", "start", "gfa", "check"} \cup
                     {"enroll", "attest", "create extra", "fill extra", "fill manifest", "restart", "watch", "measure"}, NEW u
        PROVE  <<"fill", u>> \notin Left
    <2>1. Part(Op) \in {4, 6, 7}
      BY <1>3 DEF Part
    <2>2. ~(Part(Op) <= 3)
      BY <2>1
    <2>3. QED
      BY <1>1, <1>2, <1>3, <2>2
  <1>4. ASSUME Op \in {"enroll", "attest", "create extra", "fill extra", "fill manifest", "restart", "watch", "measure"}, NEW u
        PROVE  <<"start", u>> \notin Left
    <2>1. Part(Op) = 7
      BY <1>4 DEF Part
    <2>2. ~(Part(Op) <= 6)
      BY <2>1
    <2>3. QED
      BY <1>1, <1>2, <1>4, <2>2
  <1>5. QED
    BY <1>3, <1>4

\* What is behind the recovery.
LEMMA RecoveryGone ==
    ASSUME ScriptInv, phase = "recovery", todo # <<>>
    PROVE  /\ Op \in {"stop", "remove", "reload", "go on", "start", "gfa", "clear", "check", "report"}
              => <<"drop extra", "-">> \notin Left /\ <<"drop manifest", "-">> \notin Left
           /\ Op \in {"remove", "reload", "go on", "start", "gfa", "clear", "check", "report"}
              => \A u : <<"stop", u>> \notin Left
           /\ Op \in {"reload", "go on", "start", "gfa", "clear", "check", "report"} => \A u : <<"remove", u>> \notin Left
           /\ Op \in {"go on", "start", "gfa", "clear", "check", "report"} => <<"reload", "-">> \notin Left
           /\ Op \in {"start", "gfa", "clear", "check", "report"} => <<"go on", "-">> \notin Left
           /\ Op = "report" => <<"clear", "-">> \notin Left /\ <<"check", "-">> \notin Left
           /\ <<"drop extra", "-">> \notin ToSet(Tail(todo))
           /\ Op \in {"drop extra", "drop manifest", "stop", "remove", "reload"} => Closing \subseteq ToSet(Tail(todo))
  <1>1. /\ LastPart("recovery", "drop extra") = 0 /\ LastPart("recovery", "drop manifest") = 1
        /\ LastPart("recovery", "stop") = 2 /\ LastPart("recovery", "remove") = 3 /\ LastPart("recovery", "reload") = 4
        /\ LastPart("recovery", "go on") = 5 /\ LastPart("recovery", "clear") = 6 /\ LastPart("recovery", "check") = 6
    BY DEF Part, LastPart
  <1>2. \A o, x : <<o, x>> \in Left => o = Op \/ Part(Op) <= LastPart("recovery", o)
    BY Advance
  <1>3. ASSUME Op \in {"stop", "remove", "reload", "go on", "start", "gfa", "clear", "check", "report"}, NEW u
        PROVE  <<"drop extra", u>> \notin Left
    <2>1. Part(Op) \in {2, 3, 4, 5, 6, 7}
      BY <1>3 DEF Part
    <2>2. ~(Part(Op) <= 0)
      BY <2>1
    <2>3. QED
      BY <1>1, <1>2, <1>3, <2>2
  <1>4. ASSUME Op \in {"stop", "remove", "reload", "go on", "start", "gfa", "clear", "check", "report"}, NEW u
        PROVE  <<"drop manifest", u>> \notin Left
    <2>1. Part(Op) \in {2, 3, 4, 5, 6, 7}
      BY <1>4 DEF Part
    <2>2. ~(Part(Op) <= 1)
      BY <2>1
    <2>3. QED
      BY <1>1, <1>2, <1>4, <2>2
  <1>5. ASSUME Op \in {"remove", "reload", "go on", "start", "gfa", "clear", "check", "report"}, NEW u
        PROVE  <<"stop", u>> \notin Left
    <2>1. Part(Op) \in {3, 4, 5, 6, 7}
      BY <1>5 DEF Part
    <2>2. ~(Part(Op) <= 2)
      BY <2>1
    <2>3. QED
      BY <1>1, <1>2, <1>5, <2>2
  <1>6. ASSUME Op \in {"reload", "go on", "start", "gfa", "clear", "check", "report"}, NEW u
        PROVE  <<"remove", u>> \notin Left
    <2>1. Part(Op) \in {4, 5, 6, 7}
      BY <1>6 DEF Part
    <2>2. ~(Part(Op) <= 3)
      BY <2>1
    <2>3. QED
      BY <1>1, <1>2, <1>6, <2>2
  <1>7. ASSUME Op \in {"go on", "start", "gfa", "clear", "check", "report"}, NEW u
        PROVE  <<"reload", u>> \notin Left
    <2>1. Part(Op) \in {5, 6, 7}
      BY <1>7 DEF Part
    <2>2. ~(Part(Op) <= 4)
      BY <2>1
    <2>3. QED
      BY <1>1, <1>2, <1>7, <2>2
  <1>8. ASSUME Op \in {"start", "gfa", "clear", "check", "report"}, NEW u
        PROVE  <<"go on", u>> \notin Left
    <2>1. Part(Op) \in {6, 7}
      BY <1>8 DEF Part
    <2>2. ~(Part(Op) <= 5)
      BY <2>1
    <2>3. QED
      BY <1>1, <1>2, <1>8, <2>2
  <1>9. ASSUME Op \in {"report"}, NEW u
        PROVE  <<"clear", u>> \notin Left
    <2>1. Part(Op) \in {7}
      BY <1>9 DEF Part
    <2>2. ~(Part(Op) <= 6)
      BY <2>1
    <2>3. QED
      BY <1>1, <1>2, <1>9, <2>2
  <1>10. ASSUME Op \in {"report"}, NEW u
        PROVE  <<"check", u>> \notin Left
    <2>1. Part(Op) \in {7}
      BY <1>10 DEF Part
    <2>2. ~(Part(Op) <= 6)
      BY <2>1
    <2>3. QED
      BY <1>1, <1>2, <1>10, <2>2
  <1>11. <<"drop extra", "-">> \notin ToSet(Tail(todo))
    <2>1. Part(Op) \in 1 .. 7
      BY PartNumbers
    <2>2. ~(Part(Op) <= 0)
      BY <2>1
    <2>3. QED
      BY <1>1, <2>2, Advance
  <1>12. ASSUME Op \in {"drop extra", "drop manifest", "stop", "remove", "reload"} PROVE Closing \subseteq ToSet(Tail(todo))
    <2>1. Part(Op) \in {1, 2, 3, 4}
      BY <1>12 DEF Part
    <2>2. \A c \in Closing : Part(c[1]) \in {5, 6}
      <3>1. Part("go on") = 5 /\ Part("clear") = 6 /\ Part("check") = 6
        BY DEF Part
      <3>2. \A op : <<op, "-">>[1] = op
        OBVIOUS
      <3>3. QED
        BY <3>1, <3>2 DEF Closing
    <2>3. \A c \in Closing : Part(Op) < Part(c[1])
      BY <2>1, <2>2
    <2>4. QED
      BY <2>3, Advance
  <1>13. QED
    BY <1>3, <1>4, <1>5, <1>6, <1>7, <1>8, <1>9, <1>10, <1>11, <1>12

\* As long as a unit is to be stopped, the end of the recovery is to come.
LEMMA StopsThenCloses ==
    ASSUME ScriptInv, phase = "recovery", NEW u, <<"stop", u>> \in Left
    PROVE  Closing \subseteq Left
  <1>1. todo \in Seq(Commands) /\ Closes(todo) /\ DOMAIN todo = 1 .. Len(todo)
    BY DEF ScriptInv
  <1>2. PICK i \in DOMAIN todo : todo[i] = <<"stop", u>>
    BY <1>1, Members DEF Left
  <1>3. Part(todo[i][1]) = 2 /\ \A c \in Closing : Part(c[1]) \in {5, 6}
    BY <1>2 DEF Closing, Part
  <1>4. \A c \in Closing : Part(todo[i][1]) < Part(c[1])
    BY <1>3
  <1>5. QED
    BY <1>1, <1>4 DEF Closes, Left

\* The scripts with nothing left to do, and with the report only.
LEMMA ShortScripts ==
    /\ <<>> \in Seq(Commands) /\ ToSet(<<>>) = {} /\ \A ph : InOrder(ph, <<>>)
    /\ Just("report") \in Seq(Commands) /\ ToSet(Just("report")) = {<<"report", "-">>}
    /\ \A ph : InOrder(ph, Just("report"))
    /\ Closes(Just("report"))
  <1>1. <<>> \in Seq(Commands) /\ ToSet(<<>>) = {} /\ \A ph : InOrder(ph, <<>>)
    BY DEF InOrder, ToSet
  <1>2. "report" \in Ops \ UnitOps /\ Part("report") = 7
    BY DEF Ops, UnitOps, Part
  <1>3. ASSUME NEW ph PROVE Run(ph, Just("report"), 0, 7)
    <2>1. LastPart(ph, "report") \in Nat
      BY PartNumbers
    <2>2. 0 <= LastPart(ph, "report") /\ Part("report") <= 7 /\ 0 \in Nat /\ 7 \in Nat
      BY <1>2, <2>1
    <2>3. QED
      BY <1>2, <2>2, JustRun
  <1>4. /\ Just("report") \in Seq(Commands) /\ ToSet(Just("report")) = {<<"report", "-">>}
        /\ \A ph : InOrder(ph, Just("report"))
    BY <1>2, <1>3, JustRun DEF Run
  <1>5. Closes(Just("report"))
    <2>1. \A i \in DOMAIN Just("report") : Just("report")[i][1] = "report"
      BY DEF Just
    <2>2. \A c \in Closing : Part(c[1]) \in 1 .. 7
      BY PartNumbers
    <2>3. \A c \in Closing : ~(Part("report") < Part(c[1]))
      BY <1>2, <2>2
    <2>4. QED
      BY <2>1, <2>3 DEF Closes
  <1>6. QED
    BY <1>1, <1>4, <1>5

-----------------------------------------------------------------------------
\* The steps.
\* A command that is done: the others are still to come.
LEMMA AfterCommand ==
    ASSUME ScriptInv, todo # <<>>, NextCommand
    PROVE  /\ ScriptInv' /\ phase' = phase /\ kind' = kind /\ todo' = Tail(todo)
           /\ \A o, x : <<o, x>> \in Left' => <<o, x>> \in Left
           /\ \A o, x : <<o, x>> \in Left => <<o, x>> \in Left' \/ (o = Op /\ x = Unit)
           /\ phase = "recovery" => <<"drop extra", "-">> \notin Left'
           /\ Op # "report" => todo # Just("report")
  <1>1. phase' = phase /\ kind' = kind /\ todo' = Tail(todo)
    BY DEF NextCommand
  <1>2. Left' = ToSet(Tail(todo))
    BY <1>1 DEF Left
  <1>3. /\ \A o, x : <<o, x>> \in ToSet(Tail(todo)) => <<o, x>> \in Left
        /\ \A o, x : <<o, x>> \in Left => <<o, x>> \in ToSet(Tail(todo)) \/ (o = Op /\ x = Unit)
        /\ ScriptInv'
    BY Advance
  <1>4. phase = "recovery" => <<"drop extra", "-">> \notin ToSet(Tail(todo))
    BY RecoveryGone
  <1>5. todo = Just("report") => Op = "report"
    BY DEF Just, Op
  <1>6. QED
    BY <1>1, <1>2, <1>3, <1>4, <1>5

\* The commands of a script are well-formed.
LEMMA CommandTypes ==
    ASSUME NEW t \in Seq(Commands)
    PROVE  \A i \in DOMAIN t : t[i][1] \in Ops /\ t[i][2] \in Units \cup {"-"}
  <1>1. UnitOps \subseteq Ops
    BY DEF UnitOps, Ops
  <1>2. \A c \in Commands : c[1] \in Ops /\ c[2] \in Units \cup {"-"}
    BY <1>1 DEF Commands
  <1>3. QED
    BY <1>2

\* The parts of the invariant.
LEMMA InvParts ==
    ASSUME SupervisedInv
    PROVE  /\ ScriptInv /\ PlainUnits /\ WrappedProducers /\ ExtraOnOverrides /\ WindowOnlyWrapped /\ ShadowStaysPlain
           /\ AutoNeedsExtra /\ WorkerClean /\ FillsToCome /\ StartsFirst /\ NoAutoSteps /\ ErrorsShow /\ DropsToCome
           /\ StopsToCome /\ RemovesToCome /\ ReloadToCome /\ EndToCome /\ AutoIsOver /\ PassStays /\ EndsRestored
  BY DEF SupervisedInv, UnitsInv, AutoInv, WorkerInv, RecoveryInv, AfterInv

\* What the types say of the state.
LEMMA TypeParts ==
    ASSUME SessionTypeOK
    PROVE  /\ runs \in [Units -> Images] /\ loaded \in [Units -> Images \ {"off"}] /\ dropin \in [Units -> Files]
           /\ (\A p \in Producers : runs[p] # "auto") /\ stopping \subseteq Units
                /\ (\A u \in stopping : runs[u] # "off")
           /\ (window => marker = "P300" /\ runs[Main] = "auto")
           /\ Main \in Units /\ Main \notin Producers /\ Producers \subseteq Units /\ Units = Producers \cup {Main}
  BY UnitFacts DEF SessionTypeOK

\* A service is stopped.
LEMMA StopKeeps == ASSUME SupervisedInv, Stop PROVE SupervisedInv'
  <1>1. SessionTypeOK
    BY DEF SupervisedInv
  <1>2. phase \in {"worker", "recovery"} /\ todo # <<>> /\ Op = "stop" /\ NextCommand
    BY DEF Stop, Doing
  <1>3. /\ ScriptInv' /\ phase' = phase /\ kind' = kind /\ todo' = Tail(todo)
        /\ \A o, x : <<o, x>> \in Left' => <<o, x>> \in Left
        /\ \A o, x : <<o, x>> \in Left => <<o, x>> \in Left' \/ (o = Op /\ x = Unit)
        /\ phase = "recovery" => <<"drop extra", "-">> \notin Left'
        /\ Op # "report" => todo # Just("report")
    BY <1>2, InvParts, AfterCommand
  <1>4. /\ Unit \in Units
        /\ runs' = [runs EXCEPT ![Unit] = "off"] /\ stopping' = stopping \ {Unit}
        /\ window' = (window /\ Unit # Main) /\ pinned' = (pinned /\ Unit # Main)
        /\ UNCHANGED <<dropin, extra, manifest, loaded, marker, errors, report, sessions, mishaps, killed, upset>>
    BY <1>2, <1>1, TypeParts, InvParts, Advance DEF Stop, Stopped, ProcessEnds, files, bounds, observed, UnitOps
  <1>5. phase = "recovery" => Closing \subseteq Left' /\ <<"drop extra", "-">> \notin Left
    BY <1>2, <1>3, <1>1, TypeParts, InvParts, RecoveryGone DEF Left
  <1>6. /\ \A u : <<"fill", u>> \in Left => <<"fill", u>> \in Left'
        /\ \A u : <<"start", u>> \in Left => <<"start", u>> \in Left'
        /\ \A u : <<"remove", u>> \in Left => <<"remove", u>> \in Left'
        /\ <<"drop extra", "-">> \in Left => <<"drop extra", "-">> \in Left'
        /\ <<"drop manifest", "-">> \in Left => <<"drop manifest", "-">> \in Left'
        /\ <<"reload", "-">> \in Left => <<"reload", "-">> \in Left'
        /\ <<"go on", "-">> \in Left => <<"go on", "-">> \in Left'
        /\ <<"clear", "-">> \in Left => <<"clear", "-">> \in Left'
        /\ <<"check", "-">> \in Left => <<"check", "-">> \in Left'
    <2>1. Op # "fill" /\ Op # "start" /\ Op # "remove" /\ Op # "drop extra" /\ Op # "drop manifest"
          /\ Op # "reload" /\ Op # "go on" /\ Op # "clear" /\ Op # "check"
      BY <1>2
    <2>2. QED
      BY <1>3, <2>1
  <1>7. SessionTypeOK'
    <2>1. \A i \in DOMAIN todo' : todo'[i][1] \in Ops /\ todo'[i][2] \in Units \cup {"-"}
      BY <1>3, CommandTypes DEF ScriptInv
    <2>2. runs' \in [Units -> Images] /\ \A p \in Producers : runs'[p] # "auto"
      BY <1>1, <1>4, TypeParts DEF Images
    <2>3. stopping' \subseteq {u \in Units : runs'[u] # "off"}
      BY <1>1, <1>4, TypeParts
    <2>4. window' => marker' = "P300" /\ runs'[Main] = "auto"
      BY <1>1, <1>4, TypeParts
    <2>5. /\ dropin' \in [Units -> Files] /\ extra' \in Files /\ manifest' \in Files
          /\ loaded' \in [Units -> Images \ {"off"}]
      BY <1>1, <1>4 DEF SessionTypeOK, Files
    <2>6. QED
      BY <1>1, <1>3, <1>4, <2>1, <2>2, <2>3, <2>4, <2>5 DEF SessionTypeOK
  <1>8. PlainUnits'
    BY <1>1, <1>2, <1>3, <1>4, <1>6, TypeParts, InvParts DEF PlainUnits
  <1>9. WrappedProducers'
    BY <1>1, <1>2, <1>3, <1>4, <1>6, TypeParts, InvParts DEF WrappedProducers
  <1>10. ExtraOnOverrides'
    BY <1>1, <1>2, <1>3, <1>4, <1>6, TypeParts, InvParts DEF ExtraOnOverrides
  <1>11. WindowOnlyWrapped'
    BY <1>1, <1>2, <1>3, <1>4, <1>6, TypeParts, InvParts DEF WindowOnlyWrapped
  <1>12. ShadowStaysPlain'
    BY <1>1, <1>2, <1>3, <1>4, <1>6, TypeParts, InvParts DEF ShadowStaysPlain
  <1>13. AutoNeedsExtra'
    BY <1>1, <1>2, <1>3, <1>4, <1>6, TypeParts, InvParts DEF AutoNeedsExtra
  <1>14. WorkerClean'
    BY <1>1, <1>2, <1>3, <1>4, <1>6, TypeParts, InvParts DEF WorkerClean
  <1>15. FillsToCome'
    BY <1>1, <1>2, <1>3, <1>4, <1>6, TypeParts, InvParts DEF FillsToCome
  <1>16. StartsFirst'
    BY <1>1, <1>2, <1>3, <1>4, <1>6, TypeParts, InvParts DEF StartsFirst
  <1>17. NoAutoSteps'
    BY <1>1, <1>2, <1>3, <1>4, <1>6, TypeParts, InvParts DEF NoAutoSteps
  <1>18. ErrorsShow'
    BY <1>1, <1>2, <1>3, <1>4, <1>6, TypeParts, InvParts, <1>5 DEF ErrorsShow, Closing
  <1>19. DropsToCome'
    BY <1>1, <1>2, <1>3, <1>4, <1>6, TypeParts, InvParts DEF DropsToCome
  <1>20. StopsToCome'
    BY <1>1, <1>2, <1>3, <1>4, <1>6, TypeParts, InvParts DEF StopsToCome
  <1>21. RemovesToCome'
    BY <1>1, <1>2, <1>3, <1>4, <1>6, TypeParts, InvParts DEF RemovesToCome
  <1>22. ReloadToCome'
    BY <1>1, <1>2, <1>3, <1>4, <1>6, TypeParts, InvParts DEF ReloadToCome
  <1>23. EndToCome'
    BY <1>1, <1>2, <1>3, <1>4, <1>6, TypeParts, InvParts, <1>5 DEF EndToCome, Closing
  <1>24. AfterInv'
    BY <1>2, <1>3 DEF AfterInv, AutoIsOver, PassStays, EndsRestored
  <1>25. QED
    BY <1>3, <1>7, <1>8, <1>9, <1>10, <1>11, <1>12, <1>13, <1>14, <1>15, <1>16, <1>17, <1>18, <1>19, <1>20, <1>21,
       <1>22, <1>23, <1>24 DEF SupervisedInv, UnitsInv, AutoInv, WorkerInv, RecoveryInv, AfterInv

\* What is only looked at.
LEMMA LookKeeps == ASSUME SupervisedInv, Provision \/ Look \/ Watch PROVE SupervisedInv'
  <1>1. SessionTypeOK
    BY DEF SupervisedInv
  <1>2. phase \in {"worker", "recovery"} /\ todo # <<>>
        /\ Op \in {"provision", "gfa", "check", "attest", "watch"} /\ NextCommand
    BY DEF Provision, Look, Watch, Doing
  <1>3. /\ ScriptInv' /\ phase' = phase /\ kind' = kind /\ todo' = Tail(todo)
        /\ \A o, x : <<o, x>> \in Left' => <<o, x>> \in Left
        /\ \A o, x : <<o, x>> \in Left => <<o, x>> \in Left' \/ (o = Op /\ x = Unit)
        /\ phase = "recovery" => <<"drop extra", "-">> \notin Left'
        /\ Op # "report" => todo # Just("report")
    BY <1>2, InvParts, AfterCommand
  <1>4. UNCHANGED <<runs, stopping, dropin, extra, manifest, loaded, marker, window, pinned, errors, report,
                    sessions, mishaps, killed, upset>>
    BY DEF Provision, Look, Watch, files, wire, records, bounds, observed
  <1>5. Op = "check" => \A u \in Units : runs[u] # "off"
    BY DEF Provision, Look, Watch, Doing, AllActive, Active
  <1>6. /\ \A u : <<"fill", u>> \in Left => <<"fill", u>> \in Left'
        /\ \A u : <<"start", u>> \in Left => <<"start", u>> \in Left'
        /\ \A u : <<"stop", u>> \in Left => <<"stop", u>> \in Left'
        /\ \A u : <<"remove", u>> \in Left => <<"remove", u>> \in Left'
        /\ <<"drop extra", "-">> \in Left => <<"drop extra", "-">> \in Left'
        /\ <<"drop manifest", "-">> \in Left => <<"drop manifest", "-">> \in Left'
        /\ <<"reload", "-">> \in Left => <<"reload", "-">> \in Left'
        /\ <<"go on", "-">> \in Left => <<"go on", "-">> \in Left'
        /\ <<"clear", "-">> \in Left => <<"clear", "-">> \in Left'
    <2>1. Op # "fill" /\ Op # "start" /\ Op # "stop" /\ Op # "remove" /\ Op # "drop extra"
          /\ Op # "drop manifest" /\ Op # "reload" /\ Op # "go on" /\ Op # "clear"
      BY <1>2
    <2>2. QED
      BY <1>3, <2>1
  <1>7. SessionTypeOK'
    <2>1. \A i \in DOMAIN todo' : todo'[i][1] \in Ops /\ todo'[i][2] \in Units \cup {"-"}
      BY <1>3, CommandTypes DEF ScriptInv
    <2>2. runs' \in [Units -> Images] /\ \A p \in Producers : runs'[p] # "auto"
      BY <1>1, <1>4, TypeParts DEF Images
    <2>3. stopping' \subseteq {u \in Units : runs'[u] # "off"}
      BY <1>1, <1>4, TypeParts
    <2>4. window' => marker' = "P300" /\ runs'[Main] = "auto"
      BY <1>1, <1>4, TypeParts
    <2>5. /\ dropin' \in [Units -> Files] /\ extra' \in Files /\ manifest' \in Files
          /\ loaded' \in [Units -> Images \ {"off"}]
      BY <1>1, <1>4 DEF SessionTypeOK, Files
    <2>6. QED
      BY <1>1, <1>3, <1>4, <2>1, <2>2, <2>3, <2>4, <2>5 DEF SessionTypeOK
  <1>8. PlainUnits'
    BY <1>1, <1>2, <1>3, <1>4, <1>6, TypeParts, InvParts DEF PlainUnits
  <1>9. WrappedProducers'
    BY <1>1, <1>2, <1>3, <1>4, <1>6, TypeParts, InvParts DEF WrappedProducers
  <1>10. ExtraOnOverrides'
    BY <1>1, <1>2, <1>3, <1>4, <1>6, TypeParts, InvParts DEF ExtraOnOverrides
  <1>11. WindowOnlyWrapped'
    BY <1>1, <1>2, <1>3, <1>4, <1>6, TypeParts, InvParts DEF WindowOnlyWrapped
  <1>12. ShadowStaysPlain'
    BY <1>1, <1>2, <1>3, <1>4, <1>6, TypeParts, InvParts DEF ShadowStaysPlain
  <1>13. AutoNeedsExtra'
    BY <1>1, <1>2, <1>3, <1>4, <1>6, TypeParts, InvParts DEF AutoNeedsExtra
  <1>14. WorkerClean'
    BY <1>1, <1>2, <1>3, <1>4, <1>6, TypeParts, InvParts DEF WorkerClean
  <1>15. FillsToCome'
    BY <1>1, <1>2, <1>3, <1>4, <1>6, TypeParts, InvParts DEF FillsToCome
  <1>16. StartsFirst'
    BY <1>1, <1>2, <1>3, <1>4, <1>6, TypeParts, InvParts DEF StartsFirst
  <1>17. NoAutoSteps'
    BY <1>1, <1>2, <1>3, <1>4, <1>6, TypeParts, InvParts DEF NoAutoSteps
  <1>18. ErrorsShow'
    BY <1>1, <1>2, <1>3, <1>4, <1>6, TypeParts, InvParts DEF ErrorsShow
  <1>19. DropsToCome'
    BY <1>1, <1>2, <1>3, <1>4, <1>6, TypeParts, InvParts DEF DropsToCome
  <1>20. StopsToCome'
    BY <1>1, <1>2, <1>3, <1>4, <1>6, TypeParts, InvParts DEF StopsToCome
  <1>21. RemovesToCome'
    BY <1>1, <1>2, <1>3, <1>4, <1>6, TypeParts, InvParts DEF RemovesToCome
  <1>22. ReloadToCome'
    BY <1>1, <1>2, <1>3, <1>4, <1>6, TypeParts, InvParts DEF ReloadToCome
  <1>23. EndToCome'
    BY <1>1, <1>2, <1>3, <1>4, <1>6, TypeParts, InvParts, <1>5 DEF EndToCome
  <1>24. AfterInv'
    BY <1>2, <1>3 DEF AfterInv, AutoIsOver, PassStays, EndsRestored
  <1>25. QED
    BY <1>3, <1>7, <1>8, <1>9, <1>10, <1>11, <1>12, <1>13, <1>14, <1>15, <1>16, <1>17, <1>18, <1>19, <1>20, <1>21,
       <1>22, <1>23, <1>24 DEF SupervisedInv, UnitsInv, AutoInv, WorkerInv, RecoveryInv, AfterInv

\* An override is created, empty.
LEMMA CreateKeeps == ASSUME SupervisedInv, Create PROVE SupervisedInv'
  <1>1. SessionTypeOK
    BY DEF SupervisedInv
  <1>2. phase = "worker" /\ todo # <<>> /\ Op = "create" /\ NextCommand
    BY DEF Create, Doing
  <1>3. /\ ScriptInv' /\ phase' = phase /\ kind' = kind /\ todo' = Tail(todo)
        /\ \A o, x : <<o, x>> \in Left' => <<o, x>> \in Left
        /\ \A o, x : <<o, x>> \in Left => <<o, x>> \in Left' \/ (o = Op /\ x = Unit)
        /\ phase = "recovery" => <<"drop extra", "-">> \notin Left'
        /\ Op # "report" => todo # Just("report")
    BY <1>2, InvParts, AfterCommand
  <1>4. /\ Unit \in Units /\ dropin[Unit] = "none" /\ dropin' = [dropin EXCEPT ![Unit] = "torn"]
        /\ UNCHANGED <<runs, stopping, extra, manifest, loaded, marker, window, pinned, errors, report, sessions,
                       mishaps, killed, upset>>
    BY <1>2, <1>1, TypeParts, InvParts, Advance DEF Create, wire, records, bounds, observed, UnitOps
  <1>5. extra = "none"
    BY <1>4, <1>1, TypeParts, InvParts DEF ExtraOnOverrides
  <1>6. /\ \A u : <<"fill", u>> \in Left => <<"fill", u>> \in Left'
        /\ \A u : <<"start", u>> \in Left => <<"start", u>> \in Left'
        /\ \A u : <<"stop", u>> \in Left => <<"stop", u>> \in Left'
        /\ \A u : <<"remove", u>> \in Left => <<"remove", u>> \in Left'
        /\ <<"drop extra", "-">> \in Left => <<"drop extra", "-">> \in Left'
        /\ <<"drop manifest", "-">> \in Left => <<"drop manifest", "-">> \in Left'
        /\ <<"reload", "-">> \in Left => <<"reload", "-">> \in Left'
        /\ <<"go on", "-">> \in Left => <<"go on", "-">> \in Left'
        /\ <<"clear", "-">> \in Left => <<"clear", "-">> \in Left'
        /\ <<"check", "-">> \in Left => <<"check", "-">> \in Left'
    <2>1. Op # "fill" /\ Op # "start" /\ Op # "stop" /\ Op # "remove" /\ Op # "drop extra"
          /\ Op # "drop manifest" /\ Op # "reload" /\ Op # "go on" /\ Op # "clear" /\ Op # "check"
      BY <1>2
    <2>2. QED
      BY <1>3, <2>1
  <1>7. SessionTypeOK'
    <2>1. \A i \in DOMAIN todo' : todo'[i][1] \in Ops /\ todo'[i][2] \in Units \cup {"-"}
      BY <1>3, CommandTypes DEF ScriptInv
    <2>2. runs' \in [Units -> Images] /\ \A p \in Producers : runs'[p] # "auto"
      BY <1>1, <1>4, TypeParts DEF Images
    <2>3. stopping' \subseteq {u \in Units : runs'[u] # "off"}
      BY <1>1, <1>4, TypeParts
    <2>4. window' => marker' = "P300" /\ runs'[Main] = "auto"
      BY <1>1, <1>4, TypeParts
    <2>5. /\ dropin' \in [Units -> Files] /\ extra' \in Files /\ manifest' \in Files
          /\ loaded' \in [Units -> Images \ {"off"}]
      BY <1>1, <1>4 DEF SessionTypeOK, Files
    <2>6. QED
      BY <1>1, <1>3, <1>4, <2>1, <2>2, <2>3, <2>4, <2>5 DEF SessionTypeOK
  <1>8. PlainUnits'
    BY <1>1, <1>2, <1>3, <1>4, <1>6, TypeParts, InvParts DEF PlainUnits
  <1>9. WrappedProducers'
    BY <1>1, <1>2, <1>3, <1>4, <1>6, TypeParts, InvParts DEF WrappedProducers
  <1>10. ExtraOnOverrides'
    BY <1>4, <1>5 DEF ExtraOnOverrides
  <1>11. WindowOnlyWrapped'
    BY <1>1, <1>2, <1>3, <1>4, <1>6, TypeParts, InvParts DEF WindowOnlyWrapped
  <1>12. ShadowStaysPlain'
    BY <1>1, <1>2, <1>3, <1>4, <1>6, TypeParts, InvParts DEF ShadowStaysPlain
  <1>13. AutoNeedsExtra'
    BY <1>1, <1>2, <1>3, <1>4, <1>6, TypeParts, InvParts DEF AutoNeedsExtra
  <1>14. WorkerClean'
    BY <1>1, <1>2, <1>3, <1>4, <1>6, TypeParts, InvParts DEF WorkerClean
  <1>15. FillsToCome'
    BY <1>1, <1>2, <1>3, <1>4, <1>6, TypeParts, InvParts DEF FillsToCome
  <1>16. StartsFirst'
    BY <1>1, <1>2, <1>3, <1>4, <1>6, TypeParts, InvParts DEF StartsFirst
  <1>17. NoAutoSteps'
    BY <1>1, <1>2, <1>3, <1>4, <1>6, TypeParts, InvParts DEF NoAutoSteps
  <1>18. RecoveryInv'
    BY <1>2, <1>3 DEF RecoveryInv, ErrorsShow, DropsToCome, StopsToCome, RemovesToCome, ReloadToCome, EndToCome
  <1>19. AfterInv'
    BY <1>2, <1>3 DEF AfterInv, AutoIsOver, PassStays, EndsRestored
  <1>20. QED
    BY <1>3, <1>7, <1>8, <1>9, <1>10, <1>11, <1>12, <1>13, <1>14, <1>15, <1>16, <1>17, <1>18,
       <1>19 DEF SupervisedInv, UnitsInv, AutoInv, WorkerInv, RecoveryInv, AfterInv

\* It is filled.
LEMMA FillKeeps == ASSUME SupervisedInv, Fill PROVE SupervisedInv'
  <1>1. SessionTypeOK
    BY DEF SupervisedInv
  <1>2. phase = "worker" /\ todo # <<>> /\ Op = "fill" /\ NextCommand
    BY DEF Fill, Doing
  <1>3. /\ ScriptInv' /\ phase' = phase /\ kind' = kind /\ todo' = Tail(todo)
        /\ \A o, x : <<o, x>> \in Left' => <<o, x>> \in Left
        /\ \A o, x : <<o, x>> \in Left => <<o, x>> \in Left' \/ (o = Op /\ x = Unit)
        /\ phase = "recovery" => <<"drop extra", "-">> \notin Left'
        /\ Op # "report" => todo # Just("report")
    BY <1>2, InvParts, AfterCommand
  <1>4. /\ Unit \in Units /\ dropin' = [dropin EXCEPT ![Unit] = "full"]
        /\ UNCHANGED <<runs, stopping, extra, manifest, loaded, marker, window, pinned, errors, report, sessions,
                       mishaps, killed, upset>>
    BY <1>2, <1>1, TypeParts, InvParts, Advance DEF Fill, wire, records, bounds, observed, UnitOps
  <1>5. /\ \A u : <<"start", u>> \in Left => <<"start", u>> \in Left'
        /\ \A u : <<"stop", u>> \in Left => <<"stop", u>> \in Left'
        /\ \A u : <<"remove", u>> \in Left => <<"remove", u>> \in Left'
        /\ <<"drop extra", "-">> \in Left => <<"drop extra", "-">> \in Left'
        /\ <<"drop manifest", "-">> \in Left => <<"drop manifest", "-">> \in Left'
        /\ <<"reload", "-">> \in Left => <<"reload", "-">> \in Left'
        /\ <<"go on", "-">> \in Left => <<"go on", "-">> \in Left'
        /\ <<"clear", "-">> \in Left => <<"clear", "-">> \in Left'
        /\ <<"check", "-">> \in Left => <<"check", "-">> \in Left'
    <2>1. Op # "start" /\ Op # "stop" /\ Op # "remove" /\ Op # "drop extra" /\ Op # "drop manifest"
          /\ Op # "reload" /\ Op # "go on" /\ Op # "clear" /\ Op # "check"
      BY <1>2
    <2>2. QED
      BY <1>3, <2>1
  <1>6. SessionTypeOK'
    <2>1. \A i \in DOMAIN todo' : todo'[i][1] \in Ops /\ todo'[i][2] \in Units \cup {"-"}
      BY <1>3, CommandTypes DEF ScriptInv
    <2>2. runs' \in [Units -> Images] /\ \A p \in Producers : runs'[p] # "auto"
      BY <1>1, <1>4, TypeParts DEF Images
    <2>3. stopping' \subseteq {u \in Units : runs'[u] # "off"}
      BY <1>1, <1>4, TypeParts
    <2>4. window' => marker' = "P300" /\ runs'[Main] = "auto"
      BY <1>1, <1>4, TypeParts
    <2>5. /\ dropin' \in [Units -> Files] /\ extra' \in Files /\ manifest' \in Files
          /\ loaded' \in [Units -> Images \ {"off"}]
      BY <1>1, <1>4 DEF SessionTypeOK, Files
    <2>6. QED
      BY <1>1, <1>3, <1>4, <2>1, <2>2, <2>3, <2>4, <2>5 DEF SessionTypeOK
  <1>7. PlainUnits'
    BY <1>1, <1>2, <1>3, <1>4, <1>5, TypeParts, InvParts DEF PlainUnits
  <1>8. WrappedProducers'
    BY <1>1, <1>2, <1>3, <1>4, <1>5, TypeParts, InvParts DEF WrappedProducers
  <1>9. ExtraOnOverrides'
    BY <1>1, <1>2, <1>3, <1>4, <1>5, TypeParts, InvParts DEF ExtraOnOverrides
  <1>10. WindowOnlyWrapped'
    BY <1>1, <1>2, <1>3, <1>4, <1>5, TypeParts, InvParts DEF WindowOnlyWrapped
  <1>11. ShadowStaysPlain'
    BY <1>1, <1>2, <1>3, <1>4, <1>5, TypeParts, InvParts DEF ShadowStaysPlain
  <1>12. AutoNeedsExtra'
    BY <1>1, <1>2, <1>3, <1>4, <1>5, TypeParts, InvParts DEF AutoNeedsExtra
  <1>13. WorkerClean'
    BY <1>1, <1>2, <1>3, <1>4, <1>5, TypeParts, InvParts DEF WorkerClean
  <1>14. FillsToCome'
    BY <1>1, <1>2, <1>3, <1>4, <1>5, TypeParts, InvParts DEF FillsToCome
  <1>15. StartsFirst'
    BY <1>1, <1>2, <1>3, <1>4, <1>5, TypeParts, InvParts DEF StartsFirst
  <1>16. NoAutoSteps'
    BY <1>1, <1>2, <1>3, <1>4, <1>5, TypeParts, InvParts DEF NoAutoSteps
  <1>17. RecoveryInv'
    BY <1>2, <1>3 DEF RecoveryInv, ErrorsShow, DropsToCome, StopsToCome, RemovesToCome, ReloadToCome, EndToCome
  <1>18. AfterInv'
    BY <1>2, <1>3 DEF AfterInv, AutoIsOver, PassStays, EndsRestored
  <1>19. QED
    BY <1>3, <1>6, <1>7, <1>8, <1>9, <1>10, <1>11, <1>12, <1>13, <1>14, <1>15, <1>16, <1>17,
       <1>18 DEF SupervisedInv, UnitsInv, AutoInv, WorkerInv, RecoveryInv, AfterInv

\* The manifest, and the override that activates the automatic mode.
LEMMA WriteExtraKeeps == ASSUME SupervisedInv, WriteExtra PROVE SupervisedInv'
  <1>1. SessionTypeOK
    BY DEF SupervisedInv
  <1>2. phase = "worker" /\ todo # <<>> /\ Op \in {"enroll", "fill manifest", "create extra", "fill extra"}
        /\ NextCommand
    BY DEF WriteExtra, Doing
  <1>3. /\ ScriptInv' /\ phase' = phase /\ kind' = kind /\ todo' = Tail(todo)
        /\ \A o, x : <<o, x>> \in Left' => <<o, x>> \in Left
        /\ \A o, x : <<o, x>> \in Left => <<o, x>> \in Left' \/ (o = Op /\ x = Unit)
        /\ phase = "recovery" => <<"drop extra", "-">> \notin Left'
        /\ Op # "report" => todo # Just("report")
    BY <1>2, InvParts, AfterCommand
  <1>4. /\ \/ manifest' \in {"torn", "full"} /\ extra' = extra
           \/ extra = "none" /\ extra' = "torn" /\ manifest' = manifest
           \/ extra' = "full" /\ manifest' = manifest
        /\ UNCHANGED <<runs, stopping, dropin, loaded, marker, window, pinned, errors, report, sessions, mishaps,
                       killed, upset>>
    BY DEF WriteExtra, wire, records, bounds, observed
  <1>5. kind # "shadow"
    BY <1>2, <1>1, TypeParts, InvParts, Advance DEF NoAutoSteps, UnitOps
  <1>6. \A u \in Units : dropin[u] = "full" /\ <<"start", u>> \notin Left
    BY <1>2, <1>1, TypeParts, InvParts, WorkerGone DEF FillsToCome
  <1>7. /\ \A u : <<"fill", u>> \in Left => <<"fill", u>> \in Left'
        /\ \A u : <<"start", u>> \in Left => <<"start", u>> \in Left'
        /\ \A u : <<"stop", u>> \in Left => <<"stop", u>> \in Left'
        /\ \A u : <<"remove", u>> \in Left => <<"remove", u>> \in Left'
        /\ <<"drop extra", "-">> \in Left => <<"drop extra", "-">> \in Left'
        /\ <<"drop manifest", "-">> \in Left => <<"drop manifest", "-">> \in Left'
        /\ <<"reload", "-">> \in Left => <<"reload", "-">> \in Left'
        /\ <<"go on", "-">> \in Left => <<"go on", "-">> \in Left'
        /\ <<"clear", "-">> \in Left => <<"clear", "-">> \in Left'
        /\ <<"check", "-">> \in Left => <<"check", "-">> \in Left'
    <2>1. Op # "fill" /\ Op # "start" /\ Op # "stop" /\ Op # "remove" /\ Op # "drop extra"
          /\ Op # "drop manifest" /\ Op # "reload" /\ Op # "go on" /\ Op # "clear" /\ Op # "check"
      BY <1>2
    <2>2. QED
      BY <1>3, <2>1
  <1>8. SessionTypeOK'
    <2>1. \A i \in DOMAIN todo' : todo'[i][1] \in Ops /\ todo'[i][2] \in Units \cup {"-"}
      BY <1>3, CommandTypes DEF ScriptInv
    <2>2. runs' \in [Units -> Images] /\ \A p \in Producers : runs'[p] # "auto"
      BY <1>1, <1>4, TypeParts DEF Images
    <2>3. stopping' \subseteq {u \in Units : runs'[u] # "off"}
      BY <1>1, <1>4, TypeParts
    <2>4. window' => marker' = "P300" /\ runs'[Main] = "auto"
      BY <1>1, <1>4, TypeParts
    <2>5. /\ dropin' \in [Units -> Files] /\ extra' \in Files /\ manifest' \in Files
          /\ loaded' \in [Units -> Images \ {"off"}]
      BY <1>1, <1>4 DEF SessionTypeOK, Files
    <2>6. QED
      BY <1>1, <1>3, <1>4, <2>1, <2>2, <2>3, <2>4, <2>5 DEF SessionTypeOK
  <1>9. PlainUnits'
    BY <1>1, <1>2, <1>3, <1>4, <1>7, TypeParts, InvParts DEF PlainUnits
  <1>10. WrappedProducers'
    BY <1>1, <1>2, <1>3, <1>4, <1>7, TypeParts, InvParts DEF WrappedProducers
  <1>11. ExtraOnOverrides'
    BY <1>4, <1>6 DEF ExtraOnOverrides
  <1>12. WindowOnlyWrapped'
    BY <1>1, <1>2, <1>3, <1>4, <1>7, TypeParts, InvParts DEF WindowOnlyWrapped
  <1>13. ShadowStaysPlain'
    BY <1>3, <1>5 DEF ShadowStaysPlain
  <1>14. AutoNeedsExtra'
    BY <1>1, <1>2, <1>3, <1>4, <1>7, TypeParts, InvParts DEF AutoNeedsExtra
  <1>15. WorkerClean'
    BY <1>1, <1>2, <1>3, <1>4, <1>7, TypeParts, InvParts DEF WorkerClean
  <1>16. FillsToCome'
    BY <1>1, <1>2, <1>3, <1>4, <1>7, TypeParts, InvParts DEF FillsToCome
  <1>17. StartsFirst'
    BY <1>3, <1>6 DEF StartsFirst
  <1>18. NoAutoSteps'
    BY <1>3, <1>5 DEF NoAutoSteps
  <1>19. RecoveryInv'
    BY <1>2, <1>3 DEF RecoveryInv, ErrorsShow, DropsToCome, StopsToCome, RemovesToCome, ReloadToCome, EndToCome
  <1>20. AfterInv'
    BY <1>2, <1>3 DEF AfterInv, AutoIsOver, PassStays, EndsRestored
  <1>21. QED
    BY <1>3, <1>8, <1>9, <1>10, <1>11, <1>12, <1>13, <1>14, <1>15, <1>16, <1>17, <1>18, <1>19,
       <1>20 DEF SupervisedInv, UnitsInv, AutoInv, WorkerInv, RecoveryInv, AfterInv

\* systemd reads the overrides: all of the release, or none.
LEMMA ReloadKeeps == ASSUME SupervisedInv, Reload PROVE SupervisedInv'
  <1>1. SessionTypeOK
    BY DEF SupervisedInv
  <1>2. phase \in {"worker", "recovery"} /\ todo # <<>> /\ Op = "reload" /\ NextCommand
    BY DEF Reload, Doing
  <1>3. /\ ScriptInv' /\ phase' = phase /\ kind' = kind /\ todo' = Tail(todo)
        /\ \A o, x : <<o, x>> \in Left' => <<o, x>> \in Left
        /\ \A o, x : <<o, x>> \in Left => <<o, x>> \in Left' \/ (o = Op /\ x = Unit)
        /\ phase = "recovery" => <<"drop extra", "-">> \notin Left'
        /\ Op # "report" => todo # Just("report")
    BY <1>2, InvParts, AfterCommand
  <1>4. UNCHANGED <<runs, stopping, dropin, extra, manifest, marker, window, pinned, errors, report, sessions,
                    mishaps, killed, upset>>
    BY DEF Reload, files, wire, records, bounds, observed
  <1>5. loaded' = [u \in Units |-> FromFiles(u)]
    BY DEF Reload
  <1>6. phase = "worker" => /\ \A u \in Units : dropin[u] = "full"
                            /\ \A p \in Producers : loaded'[p] = "shadow"
                            /\ extra = "none" => loaded'[Main] # "auto"
                            /\ loaded'[Main] = "auto" => extra = "full"
    <2>1. phase = "worker" => \A u \in Units : dropin[u] = "full"
      BY <1>2, <1>1, TypeParts, InvParts, WorkerGone DEF FillsToCome
    <2>2. QED
      BY <1>5, <2>1, <1>1, TypeParts, InvParts DEF FromFiles
  <1>7. phase = "recovery" => /\ \A u \in Units : loaded'[u] = "original" /\ <<"stop", u>> \notin Left
                              /\ <<"drop extra", "-">> \notin Left
    <2>1. phase = "recovery" => /\ \A u \in Units : dropin[u] # "full" /\ <<"stop", u>> \notin Left
                                /\ <<"drop extra", "-">> \notin Left
      BY <1>2, <1>1, TypeParts, InvParts, RecoveryGone DEF RemovesToCome
    <2>2. QED
      BY <1>5, <2>1 DEF FromFiles
  <1>8. phase = "recovery" => \A u \in Units : runs[u] \in {"off", "original"} \/ u \in stopping
    BY <1>2, <1>7, <1>1, TypeParts, InvParts DEF StopsToCome
  <1>9. /\ \A u : <<"fill", u>> \in Left => <<"fill", u>> \in Left'
        /\ \A u : <<"start", u>> \in Left => <<"start", u>> \in Left'
        /\ \A u : <<"stop", u>> \in Left => <<"stop", u>> \in Left'
        /\ \A u : <<"remove", u>> \in Left => <<"remove", u>> \in Left'
        /\ <<"drop extra", "-">> \in Left => <<"drop extra", "-">> \in Left'
        /\ <<"drop manifest", "-">> \in Left => <<"drop manifest", "-">> \in Left'
        /\ <<"go on", "-">> \in Left => <<"go on", "-">> \in Left'
        /\ <<"clear", "-">> \in Left => <<"clear", "-">> \in Left'
        /\ <<"check", "-">> \in Left => <<"check", "-">> \in Left'
    <2>1. Op # "fill" /\ Op # "start" /\ Op # "stop" /\ Op # "remove" /\ Op # "drop extra"
          /\ Op # "drop manifest" /\ Op # "go on" /\ Op # "clear" /\ Op # "check"
      BY <1>2
    <2>2. QED
      BY <1>3, <2>1
  <1>10. SessionTypeOK'
    <2>1. \A i \in DOMAIN todo' : todo'[i][1] \in Ops /\ todo'[i][2] \in Units \cup {"-"}
      BY <1>3, CommandTypes DEF ScriptInv
    <2>2. runs' \in [Units -> Images] /\ \A p \in Producers : runs'[p] # "auto"
      BY <1>1, <1>4, TypeParts DEF Images
    <2>3. stopping' \subseteq {u \in Units : runs'[u] # "off"}
      BY <1>1, <1>4, TypeParts
    <2>4. window' => marker' = "P300" /\ runs'[Main] = "auto"
      BY <1>1, <1>4, TypeParts
    <2>5. /\ dropin' \in [Units -> Files] /\ extra' \in Files /\ manifest' \in Files
          /\ loaded' \in [Units -> Images \ {"off"}]
      BY <1>1, <1>4, <1>5 DEF SessionTypeOK, FromFiles, Images
    <2>6. QED
      BY <1>1, <1>3, <1>4, <2>1, <2>2, <2>3, <2>4, <2>5 DEF SessionTypeOK
  <1>11. PlainUnits'
    BY <1>2, <1>4, <1>6, <1>7, <1>8 DEF PlainUnits
  <1>12. WrappedProducers'
    <2>1. CASE phase = "worker"
      BY <2>1, <1>4, <1>6 DEF WrappedProducers
    <2>2. CASE phase = "recovery"
      BY <2>2, <1>4, <1>7, <1>8, UnitFacts DEF WrappedProducers
    <2>3. QED
      BY <1>2, <2>1, <2>2
  <1>13. ExtraOnOverrides'
    BY <1>1, <1>2, <1>3, <1>4, <1>9, TypeParts, InvParts DEF ExtraOnOverrides
  <1>14. WindowOnlyWrapped'
    BY <1>1, <1>2, <1>3, <1>4, <1>9, TypeParts, InvParts DEF WindowOnlyWrapped
  <1>15. ShadowStaysPlain'
    <2>1. CASE phase = "worker"
      BY <2>1, <1>3, <1>4, <1>6, InvParts DEF ShadowStaysPlain
    <2>2. CASE phase = "recovery"
      BY <2>2, <1>3, <1>4, <1>7, InvParts, UnitFacts DEF ShadowStaysPlain
    <2>3. QED
      BY <1>2, <2>1, <2>2
  <1>16. AutoNeedsExtra'
    <2>1. CASE phase = "worker"
      BY <2>1, <1>3, <1>4, <1>6, InvParts DEF AutoNeedsExtra
    <2>2. CASE phase = "recovery"
      BY <2>2, <1>3, <1>4, <1>7 DEF AutoNeedsExtra
    <2>3. QED
      BY <1>2, <2>1, <2>2
  <1>17. WorkerClean'
    BY <1>1, <1>2, <1>3, <1>4, <1>9, TypeParts, InvParts DEF WorkerClean
  <1>18. FillsToCome'
    BY <1>1, <1>2, <1>3, <1>4, <1>9, TypeParts, InvParts DEF FillsToCome
  <1>19. StartsFirst'
    BY <1>1, <1>2, <1>3, <1>4, <1>9, TypeParts, InvParts DEF StartsFirst
  <1>20. NoAutoSteps'
    BY <1>1, <1>2, <1>3, <1>4, <1>9, TypeParts, InvParts DEF NoAutoSteps
  <1>21. ErrorsShow'
    BY <1>1, <1>2, <1>3, <1>4, <1>9, TypeParts, InvParts DEF ErrorsShow
  <1>22. DropsToCome'
    BY <1>1, <1>2, <1>3, <1>4, <1>9, TypeParts, InvParts DEF DropsToCome
  <1>23. StopsToCome'
    BY <1>3, <1>4, <1>7, <1>8 DEF StopsToCome
  <1>24. RemovesToCome'
    BY <1>1, <1>2, <1>3, <1>4, <1>9, TypeParts, InvParts DEF RemovesToCome
  <1>25. ReloadToCome'
    BY <1>3, <1>7 DEF ReloadToCome
  <1>26. EndToCome'
    BY <1>1, <1>2, <1>3, <1>4, <1>9, TypeParts, InvParts DEF EndToCome
  <1>27. AfterInv'
    BY <1>2, <1>3 DEF AfterInv, AutoIsOver, PassStays, EndsRestored
  <1>28. QED
    BY <1>3, <1>10, <1>11, <1>12, <1>13, <1>14, <1>15, <1>16, <1>17, <1>18, <1>19, <1>20, <1>21, <1>22, <1>23,
       <1>24, <1>25, <1>26, <1>27 DEF SupervisedInv, UnitsInv, AutoInv, WorkerInv, RecoveryInv, AfterInv

\* When the recovery starts something, everything is taken back and read again.
LEMMA RecoveryStarts ==
    ASSUME SupervisedInv, Start, phase = "recovery"
    PROVE  /\ ~errors /\ stopping = {} /\ <<"drop extra", "-">> \notin Left /\ runs[Main] # "auto"
           /\ \A u \in Units : loaded[u] = "original" /\ <<"stop", u>> \notin Left /\ dropin[u] = "none"
  <1>1. SessionTypeOK
    BY DEF SupervisedInv
  <1>2. todo # <<>> /\ Op = "start" /\ NextCommand
    BY DEF Start, Doing
  <1>3. todo # Just("report")
    BY <1>2, InvParts, AfterCommand
  <1>4. /\ <<"go on", "-">> \notin Left /\ <<"drop extra", "-">> \notin Left /\ <<"reload", "-">> \notin Left
        /\ \A u \in Units : <<"stop", u>> \notin Left /\ <<"remove", u>> \notin Left
    BY <1>2, InvParts, RecoveryGone
  <1>5. ~errors /\ stopping = {} /\ \A u \in Units : loaded[u] = "original" /\ dropin[u] = "none"
    BY <1>3, <1>4, InvParts DEF ErrorsShow, ReloadToCome, RemovesToCome
  <1>6. runs[Main] # "auto"
    BY <1>1, <1>4, <1>5, TypeParts, InvParts DEF StopsToCome
  <1>7. QED
    BY <1>4, <1>5, <1>6

\* A service is started, if it is off: nothing of the automatic mode is there yet, or any more.
LEMMA StartKeeps == ASSUME SupervisedInv, Start PROVE SupervisedInv'
  <1>1. SessionTypeOK
    BY DEF SupervisedInv
  <1>2. phase \in {"worker", "recovery"} /\ todo # <<>> /\ Op = "start" /\ NextCommand
    BY DEF Start, Doing
  <1>3. /\ ScriptInv' /\ phase' = phase /\ kind' = kind /\ todo' = Tail(todo)
        /\ \A o, x : <<o, x>> \in Left' => <<o, x>> \in Left
        /\ \A o, x : <<o, x>> \in Left => <<o, x>> \in Left' \/ (o = Op /\ x = Unit)
        /\ phase = "recovery" => <<"drop extra", "-">> \notin Left'
        /\ Op # "report" => todo # Just("report")
    BY <1>2, InvParts, AfterCommand
  <1>4. Unit \in Units /\ <<"start", Unit>> \in Left
    BY <1>2, <1>1, TypeParts, InvParts, Advance DEF UnitOps
  <1>5. phase = "worker" => /\ \A u \in Units : dropin[u] = "full"
                            /\ extra = "none" /\ runs[Main] # "auto" /\ loaded[Main] # "auto" /\ stopping = {}
    <2>1. phase = "worker" => extra = "none" /\ stopping = {} /\ \A u \in Units : dropin[u] = "full"
      BY <1>2, <1>4, <1>1, TypeParts, InvParts, WorkerGone DEF FillsToCome, StartsFirst, WorkerClean
    <2>2. QED
      BY <2>1, <1>1, TypeParts, InvParts DEF AutoNeedsExtra
  <1>6. phase = "recovery" => /\ ~errors /\ stopping = {} /\ <<"drop extra", "-">> \notin Left /\ runs[Main] # "auto"
                              /\ \A u \in Units : loaded[u] = "original" /\ <<"stop", u>> \notin Left
                                   /\ dropin[u] = "none"
    BY <1>3, RecoveryStarts
  <1>7. ~window /\ stopping = {}
    BY <1>2, <1>5, <1>6, <1>1, TypeParts, InvParts
  <1>8. /\ runs' = [runs EXCEPT ![Unit] = IF runs[Unit] = "off" THEN loaded[Unit] ELSE runs[Unit]]
        /\ stopping' = {} /\ window' = FALSE /\ pinned' \in {pinned, FALSE}
        /\ UNCHANGED <<dropin, extra, manifest, loaded, marker, errors, report, sessions, mishaps, killed, upset>>
    <2>1. CASE runs[Unit] = "off"
      BY <1>7, <2>1 DEF Start, Started, ProcessEnds, files, bounds, observed
    <2>2. CASE runs[Unit] # "off"
      BY <1>4, <1>7, <2>2, <1>1, TypeParts, InvParts DEF Start, files, bounds, observed
    <2>3. QED
      BY <2>1, <2>2
  <1>9. /\ \A u : <<"fill", u>> \in Left => <<"fill", u>> \in Left'
        /\ \A u : <<"stop", u>> \in Left => <<"stop", u>> \in Left'
        /\ \A u : <<"remove", u>> \in Left => <<"remove", u>> \in Left'
        /\ <<"drop extra", "-">> \in Left => <<"drop extra", "-">> \in Left'
        /\ <<"drop manifest", "-">> \in Left => <<"drop manifest", "-">> \in Left'
        /\ <<"reload", "-">> \in Left => <<"reload", "-">> \in Left'
        /\ <<"go on", "-">> \in Left => <<"go on", "-">> \in Left'
        /\ <<"clear", "-">> \in Left => <<"clear", "-">> \in Left'
        /\ <<"check", "-">> \in Left => <<"check", "-">> \in Left'
    <2>1. Op # "fill" /\ Op # "stop" /\ Op # "remove" /\ Op # "drop extra" /\ Op # "drop manifest"
          /\ Op # "reload" /\ Op # "go on" /\ Op # "clear" /\ Op # "check"
      BY <1>2
    <2>2. QED
      BY <1>3, <2>1
  <1>10. SessionTypeOK'
    <2>1. \A i \in DOMAIN todo' : todo'[i][1] \in Ops /\ todo'[i][2] \in Units \cup {"-"}
      BY <1>3, CommandTypes DEF ScriptInv
    <2>2. runs' \in [Units -> Images] /\ \A p \in Producers : runs'[p] # "auto"
      BY <1>4, <1>8, <1>1, TypeParts, InvParts DEF WrappedProducers, Images
    <2>3. stopping' \subseteq {u \in Units : runs'[u] # "off"}
      BY <1>1, <1>8, TypeParts
    <2>4. window' => marker' = "P300" /\ runs'[Main] = "auto"
      BY <1>1, <1>8, TypeParts
    <2>5. /\ dropin' \in [Units -> Files] /\ extra' \in Files /\ manifest' \in Files
          /\ loaded' \in [Units -> Images \ {"off"}]
      BY <1>1, <1>8 DEF SessionTypeOK, Files
    <2>6. QED
      BY <1>1, <1>3, <1>8, <2>1, <2>2, <2>3, <2>4, <2>5, <1>1, TypeParts, InvParts DEF SessionTypeOK
  <1>11. PlainUnits'
    <2>1. CASE phase = "worker"
      BY <2>1, <1>8, <1>5 DEF PlainUnits
    <2>2. CASE phase = "recovery"
      BY <2>2, <1>1, TypeParts, <1>8, <1>4, <1>6, InvParts DEF PlainUnits
    <2>3. QED
      BY <1>2, <2>1, <2>2
  <1>12. WrappedProducers'
    <2>1. CASE phase = "worker"
      BY <2>1, <1>1, TypeParts, <1>8, <1>4, <1>5, InvParts DEF WrappedProducers
    <2>2. CASE phase = "recovery"
      BY <2>2, <1>1, TypeParts, <1>8, <1>4, <1>6, InvParts DEF WrappedProducers
    <2>3. QED
      BY <1>2, <2>1, <2>2
  <1>13. ExtraOnOverrides'
    BY <1>1, <1>2, <1>3, <1>8, <1>9, TypeParts, InvParts DEF ExtraOnOverrides
  <1>14. WindowOnlyWrapped'
    BY <1>1, <1>2, <1>3, <1>8, <1>9, TypeParts, InvParts DEF WindowOnlyWrapped
  <1>15. ShadowStaysPlain'
    BY <1>1, <1>2, <1>3, <1>8, <1>9, TypeParts, InvParts DEF ShadowStaysPlain
  <1>16. AutoNeedsExtra'
    BY <1>1, <1>2, <1>3, <1>8, <1>9, TypeParts, InvParts DEF AutoNeedsExtra
  <1>17. WorkerClean'
    BY <1>1, <1>2, <1>3, <1>8, <1>9, TypeParts, InvParts DEF WorkerClean
  <1>18. FillsToCome'
    BY <1>1, <1>2, <1>3, <1>8, <1>9, TypeParts, InvParts DEF FillsToCome
  <1>19. StartsFirst'
    BY <1>1, <1>2, <1>3, <1>8, <1>9, TypeParts, InvParts DEF StartsFirst
  <1>20. NoAutoSteps'
    BY <1>1, <1>2, <1>3, <1>8, <1>9, TypeParts, InvParts DEF NoAutoSteps
  <1>21. ErrorsShow'
    BY <1>1, <1>2, <1>3, <1>8, <1>9, TypeParts, InvParts DEF ErrorsShow
  <1>22. DropsToCome'
    BY <1>1, <1>2, <1>3, <1>8, <1>9, TypeParts, InvParts DEF DropsToCome
  <1>23. StopsToCome'
    BY <1>1, TypeParts, <1>2, <1>3, <1>8, <1>4, <1>6, InvParts DEF StopsToCome
  <1>24. RemovesToCome'
    BY <1>1, <1>2, <1>3, <1>8, <1>9, TypeParts, InvParts DEF RemovesToCome
  <1>25. ReloadToCome'
    BY <1>1, <1>2, <1>3, <1>8, <1>9, TypeParts, InvParts DEF ReloadToCome
  <1>26. EndToCome'
    BY <1>1, <1>2, <1>3, <1>8, <1>9, TypeParts, InvParts DEF EndToCome
  <1>27. AfterInv'
    BY <1>2, <1>3 DEF AfterInv, AutoIsOver, PassStays, EndsRestored
  <1>28. QED
    BY <1>3, <1>10, <1>11, <1>12, <1>13, <1>14, <1>15, <1>16, <1>17, <1>18, <1>19, <1>20, <1>21, <1>22, <1>23, <1>24,
       <1>25, <1>26, <1>27 DEF SupervisedInv, UnitsInv, AutoInv, WorkerInv, RecoveryInv, AfterInv

\* The splitter starts again, with the override.
LEMMA RestartKeeps == ASSUME SupervisedInv, RestartMain PROVE SupervisedInv'
  <1>1. SessionTypeOK
    BY DEF SupervisedInv
  <1>2. phase = "worker" /\ todo # <<>> /\ Op = "restart" /\ NextCommand
    BY DEF RestartMain, Doing
  <1>3. /\ ScriptInv' /\ phase' = phase /\ kind' = kind /\ todo' = Tail(todo)
        /\ \A o, x : <<o, x>> \in Left' => <<o, x>> \in Left
        /\ \A o, x : <<o, x>> \in Left => <<o, x>> \in Left' \/ (o = Op /\ x = Unit)
        /\ phase = "recovery" => <<"drop extra", "-">> \notin Left'
        /\ Op # "report" => todo # Just("report")
    BY <1>2, InvParts, AfterCommand
  <1>4. /\ runs' = [runs EXCEPT ![Main] = loaded[Main]] /\ stopping' = stopping \ {Main}
        /\ window' = FALSE /\ pinned' = TRUE
        /\ UNCHANGED <<dropin, extra, manifest, loaded, marker, errors, report, sessions, mishaps, killed, upset>>
    BY DEF RestartMain, files, bounds, observed
  <1>5. \A u \in Units : dropin[u] = "full"
    BY <1>2, <1>1, TypeParts, InvParts, WorkerGone DEF FillsToCome
  <1>6. /\ \A u : <<"fill", u>> \in Left => <<"fill", u>> \in Left'
        /\ \A u : <<"start", u>> \in Left => <<"start", u>> \in Left'
        /\ \A u : <<"stop", u>> \in Left => <<"stop", u>> \in Left'
        /\ \A u : <<"remove", u>> \in Left => <<"remove", u>> \in Left'
        /\ <<"drop extra", "-">> \in Left => <<"drop extra", "-">> \in Left'
        /\ <<"drop manifest", "-">> \in Left => <<"drop manifest", "-">> \in Left'
        /\ <<"reload", "-">> \in Left => <<"reload", "-">> \in Left'
        /\ <<"go on", "-">> \in Left => <<"go on", "-">> \in Left'
        /\ <<"clear", "-">> \in Left => <<"clear", "-">> \in Left'
        /\ <<"check", "-">> \in Left => <<"check", "-">> \in Left'
    <2>1. Op # "fill" /\ Op # "start" /\ Op # "stop" /\ Op # "remove" /\ Op # "drop extra"
          /\ Op # "drop manifest" /\ Op # "reload" /\ Op # "go on" /\ Op # "clear" /\ Op # "check"
      BY <1>2
    <2>2. QED
      BY <1>3, <2>1
  <1>7. SessionTypeOK'
    <2>1. \A i \in DOMAIN todo' : todo'[i][1] \in Ops /\ todo'[i][2] \in Units \cup {"-"}
      BY <1>3, CommandTypes DEF ScriptInv
    <2>2. runs' \in [Units -> Images] /\ \A p \in Producers : runs'[p] # "auto"
      BY <1>1, <1>4, TypeParts DEF Images
    <2>3. stopping' \subseteq {u \in Units : runs'[u] # "off"}
      BY <1>1, <1>4, TypeParts
    <2>4. window' => marker' = "P300" /\ runs'[Main] = "auto"
      BY <1>1, <1>4, TypeParts
    <2>5. /\ dropin' \in [Units -> Files] /\ extra' \in Files /\ manifest' \in Files
          /\ loaded' \in [Units -> Images \ {"off"}]
      BY <1>1, <1>4 DEF SessionTypeOK, Files
    <2>6. QED
      BY <1>1, <1>3, <1>4, <2>1, <2>2, <2>3, <2>4, <2>5 DEF SessionTypeOK
  <1>8. PlainUnits'
    BY <1>4, <1>5 DEF PlainUnits
  <1>9. WrappedProducers'
    BY <1>1, <1>2, <1>3, <1>4, <1>6, TypeParts, InvParts DEF WrappedProducers
  <1>10. ExtraOnOverrides'
    BY <1>1, <1>2, <1>3, <1>4, <1>6, TypeParts, InvParts DEF ExtraOnOverrides
  <1>11. WindowOnlyWrapped'
    BY <1>1, <1>2, <1>3, <1>4, <1>6, TypeParts, InvParts DEF WindowOnlyWrapped
  <1>12. ShadowStaysPlain'
    BY <1>1, <1>2, <1>3, <1>4, <1>6, TypeParts, InvParts DEF ShadowStaysPlain
  <1>13. AutoNeedsExtra'
    BY <1>1, <1>2, <1>3, <1>4, <1>6, TypeParts, InvParts DEF AutoNeedsExtra
  <1>14. WorkerClean'
    BY <1>1, <1>2, <1>3, <1>4, <1>6, TypeParts, InvParts DEF WorkerClean
  <1>15. FillsToCome'
    BY <1>1, <1>2, <1>3, <1>4, <1>6, TypeParts, InvParts DEF FillsToCome
  <1>16. StartsFirst'
    BY <1>1, <1>2, <1>3, <1>4, <1>6, TypeParts, InvParts DEF StartsFirst
  <1>17. NoAutoSteps'
    BY <1>1, <1>2, <1>3, <1>4, <1>6, TypeParts, InvParts DEF NoAutoSteps
  <1>18. RecoveryInv'
    BY <1>2, <1>3 DEF RecoveryInv, ErrorsShow, DropsToCome, StopsToCome, RemovesToCome, ReloadToCome, EndToCome
  <1>19. AfterInv'
    BY <1>2, <1>3 DEF AfterInv, AutoIsOver, PassStays, EndsRestored
  <1>20. QED
    BY <1>3, <1>7, <1>8, <1>9, <1>10, <1>11, <1>12, <1>13, <1>14, <1>15, <1>16, <1>17, <1>18,
       <1>19 DEF SupervisedInv, UnitsInv, AutoInv, WorkerInv, RecoveryInv, AfterInv

\* However the worker ends, the recovery has everything to do.
LEMMA WorkerEndsKeeps == ASSUME SupervisedInv, Measure \/ WorkerDies PROVE SupervisedInv'
  <1>1. SessionTypeOK
    BY DEF SupervisedInv
  <1>2. /\ phase = "worker" /\ phase' = "recovery" /\ kind' = kind /\ kind \in {"shadow", "auto"}
        /\ ScriptInv' /\ Closing \subseteq Left' /\ <<"reload", "-">> \in Left'
        /\ \A u \in Units : <<"stop", u>> \in Left' /\ <<"remove", u>> \in Left'
        /\ kind = "auto" => <<"drop extra", "-">> \in Left' /\ <<"drop manifest", "-">> \in Left'
        /\ kind = "shadow" => <<"drop extra", "-">> \notin Left'
    <2>1. /\ phase = "worker" /\ phase' = "recovery" /\ kind' = kind /\ kind \in {"shadow", "auto"}
          /\ todo' = RecoveryScript(kind)
      BY <1>1 DEF Measure, WorkerDies, WorkerEnds, Doing, SessionTypeOK
    <2>2. QED
      BY <2>1, RecoveryRun DEF ScriptInv, Left
  <1>3. UNCHANGED <<runs, stopping, dropin, extra, manifest, loaded, marker, window, kind, pinned, errors, report,
                    sessions, mishaps, killed, upset>>
    BY <1>2 DEF Measure, WorkerDies, files, wire, records, bounds, observed
  <1>4. SessionTypeOK'
    <2>1. \A i \in DOMAIN todo' : todo'[i][1] \in Ops /\ todo'[i][2] \in Units \cup {"-"}
      BY <1>2, CommandTypes DEF ScriptInv
    <2>2. runs' \in [Units -> Images] /\ \A p \in Producers : runs'[p] # "auto"
      BY <1>1, <1>3, TypeParts DEF Images
    <2>3. stopping' \subseteq {u \in Units : runs'[u] # "off"}
      BY <1>1, <1>3, TypeParts
    <2>4. window' => marker' = "P300" /\ runs'[Main] = "auto"
      BY <1>1, <1>3, TypeParts
    <2>5. /\ dropin' \in [Units -> Files] /\ extra' \in Files /\ manifest' \in Files
          /\ loaded' \in [Units -> Images \ {"off"}]
      BY <1>1, <1>3 DEF SessionTypeOK, Files
    <2>6. QED
      BY <1>1, <1>2, <1>3, <2>1, <2>2, <2>3, <2>4, <2>5 DEF SessionTypeOK
  <1>5. PlainUnits'
    BY <1>1, <1>2, <1>3, TypeParts, InvParts DEF PlainUnits
  <1>6. WrappedProducers'
    BY <1>1, <1>2, <1>3, TypeParts, InvParts DEF WrappedProducers
  <1>7. ExtraOnOverrides'
    BY <1>1, <1>2, <1>3, TypeParts, InvParts DEF ExtraOnOverrides
  <1>8. WindowOnlyWrapped'
    BY <1>1, <1>2, <1>3, TypeParts, InvParts DEF WindowOnlyWrapped
  <1>9. ShadowStaysPlain'
    BY <1>1, <1>2, <1>3, TypeParts, InvParts DEF ShadowStaysPlain
  <1>10. AutoNeedsExtra'
    BY <1>1, <1>2, <1>3, TypeParts, InvParts DEF AutoNeedsExtra
  <1>11. WorkerClean'
    BY <1>1, <1>2, <1>3, TypeParts, InvParts DEF WorkerClean
  <1>12. FillsToCome'
    BY <1>1, <1>2, <1>3, TypeParts, InvParts DEF FillsToCome
  <1>13. StartsFirst'
    BY <1>1, <1>2, <1>3, TypeParts, InvParts DEF StartsFirst
  <1>14. NoAutoSteps'
    BY <1>1, <1>2, <1>3, TypeParts, InvParts DEF NoAutoSteps
  <1>15. ErrorsShow'
    BY <1>2, <1>3, InvParts DEF ErrorsShow, WorkerClean
  <1>16. DropsToCome'
    BY <1>2, <1>3, InvParts DEF DropsToCome, ShadowStaysPlain
  <1>17. StopsToCome'
    BY <1>1, <1>2, <1>3, TypeParts, InvParts DEF StopsToCome
  <1>18. RemovesToCome'
    BY <1>1, <1>2, <1>3, TypeParts, InvParts DEF RemovesToCome
  <1>19. ReloadToCome'
    BY <1>1, <1>2, <1>3, TypeParts, InvParts DEF ReloadToCome
  <1>20. EndToCome'
    BY <1>2 DEF EndToCome, Closing
  <1>21. AutoIsOver'
    BY <1>1, <1>2, <1>3, TypeParts, InvParts DEF AutoIsOver
  <1>22. PassStays'
    BY <1>1, <1>2, <1>3, TypeParts, InvParts DEF PassStays
  <1>23. EndsRestored'
    BY <1>1, <1>2, <1>3, TypeParts, InvParts DEF EndsRestored
  <1>24. QED
    BY <1>2, <1>4, <1>5, <1>6, <1>7, <1>8, <1>9, <1>10, <1>11, <1>12, <1>13, <1>14, <1>15, <1>16, <1>17, <1>18,
       <1>19, <1>20, <1>21, <1>22, <1>23 DEF SupervisedInv, UnitsInv, AutoInv, WorkerInv, RecoveryInv, AfterInv

\* The activating override is taken away.
LEMMA DropExtraKeeps == ASSUME SupervisedInv, DropExtra, extra # "torn" PROVE SupervisedInv'
  <1>1. SessionTypeOK
    BY DEF SupervisedInv
  <1>2. phase = "recovery" /\ todo # <<>> /\ Op = "drop extra" /\ NextCommand
    BY DEF DropExtra, Doing
  <1>3. /\ ScriptInv' /\ phase' = phase /\ kind' = kind /\ todo' = Tail(todo)
        /\ \A o, x : <<o, x>> \in Left' => <<o, x>> \in Left
        /\ \A o, x : <<o, x>> \in Left => <<o, x>> \in Left' \/ (o = Op /\ x = Unit)
        /\ phase = "recovery" => <<"drop extra", "-">> \notin Left'
        /\ Op # "report" => todo # Just("report")
    BY <1>2, InvParts, AfterCommand
  <1>4. /\ extra' = "none"
        /\ UNCHANGED <<runs, stopping, dropin, manifest, loaded, marker, window, pinned, errors, report, sessions,
                       mishaps, killed, upset>>
    BY DEF DropExtra, wire, bounds, observed
  <1>5. /\ \A u : <<"fill", u>> \in Left => <<"fill", u>> \in Left'
        /\ \A u : <<"start", u>> \in Left => <<"start", u>> \in Left'
        /\ \A u : <<"stop", u>> \in Left => <<"stop", u>> \in Left'
        /\ \A u : <<"remove", u>> \in Left => <<"remove", u>> \in Left'
        /\ <<"drop manifest", "-">> \in Left => <<"drop manifest", "-">> \in Left'
        /\ <<"reload", "-">> \in Left => <<"reload", "-">> \in Left'
        /\ <<"go on", "-">> \in Left => <<"go on", "-">> \in Left'
        /\ <<"clear", "-">> \in Left => <<"clear", "-">> \in Left'
        /\ <<"check", "-">> \in Left => <<"check", "-">> \in Left'
    <2>1. Op # "fill" /\ Op # "start" /\ Op # "stop" /\ Op # "remove" /\ Op # "drop manifest" /\ Op # "reload"
          /\ Op # "go on" /\ Op # "clear" /\ Op # "check"
      BY <1>2
    <2>2. QED
      BY <1>3, <2>1
  <1>6. SessionTypeOK'
    <2>1. \A i \in DOMAIN todo' : todo'[i][1] \in Ops /\ todo'[i][2] \in Units \cup {"-"}
      BY <1>3, CommandTypes DEF ScriptInv
    <2>2. runs' \in [Units -> Images] /\ \A p \in Producers : runs'[p] # "auto"
      BY <1>1, <1>4, TypeParts DEF Images
    <2>3. stopping' \subseteq {u \in Units : runs'[u] # "off"}
      BY <1>1, <1>4, TypeParts
    <2>4. window' => marker' = "P300" /\ runs'[Main] = "auto"
      BY <1>1, <1>4, TypeParts
    <2>5. /\ dropin' \in [Units -> Files] /\ extra' \in Files /\ manifest' \in Files
          /\ loaded' \in [Units -> Images \ {"off"}]
      BY <1>1, <1>4 DEF SessionTypeOK, Files
    <2>6. QED
      BY <1>1, <1>3, <1>4, <2>1, <2>2, <2>3, <2>4, <2>5 DEF SessionTypeOK
  <1>7. PlainUnits'
    BY <1>1, <1>2, <1>3, <1>4, <1>5, TypeParts, InvParts DEF PlainUnits
  <1>8. WrappedProducers'
    BY <1>1, <1>2, <1>3, <1>4, <1>5, TypeParts, InvParts DEF WrappedProducers
  <1>9. ExtraOnOverrides'
    BY <1>1, <1>2, <1>3, <1>4, <1>5, TypeParts, InvParts DEF ExtraOnOverrides
  <1>10. WindowOnlyWrapped'
    BY <1>1, <1>2, <1>3, <1>4, <1>5, TypeParts, InvParts DEF WindowOnlyWrapped
  <1>11. ShadowStaysPlain'
    BY <1>1, <1>2, <1>3, <1>4, <1>5, TypeParts, InvParts DEF ShadowStaysPlain
  <1>12. AutoNeedsExtra'
    BY <1>1, <1>2, <1>3, <1>4, <1>5, TypeParts, InvParts DEF AutoNeedsExtra
  <1>13. WorkerInv'
    BY <1>2, <1>3 DEF WorkerInv, WorkerClean, FillsToCome, StartsFirst, NoAutoSteps
  <1>14. ErrorsShow'
    BY <1>1, <1>2, <1>3, <1>4, <1>5, TypeParts, InvParts DEF ErrorsShow
  <1>15. DropsToCome'
    BY <1>1, <1>2, <1>3, <1>4, <1>5, TypeParts, InvParts DEF DropsToCome
  <1>16. StopsToCome'
    BY <1>1, <1>2, <1>3, <1>4, <1>5, TypeParts, InvParts DEF StopsToCome
  <1>17. RemovesToCome'
    BY <1>1, <1>2, <1>3, <1>4, <1>5, TypeParts, InvParts DEF RemovesToCome
  <1>18. ReloadToCome'
    BY <1>1, <1>2, <1>3, <1>4, <1>5, TypeParts, InvParts DEF ReloadToCome
  <1>19. EndToCome'
    BY <1>1, <1>2, <1>3, <1>4, <1>5, TypeParts, InvParts DEF EndToCome
  <1>20. AfterInv'
    BY <1>2, <1>3 DEF AfterInv, AutoIsOver, PassStays, EndsRestored
  <1>21. QED
    BY <1>3, <1>6, <1>7, <1>8, <1>9, <1>10, <1>11, <1>12, <1>13, <1>14, <1>15, <1>16, <1>17, <1>18, <1>19,
       <1>20 DEF SupervisedInv, UnitsInv, AutoInv, WorkerInv, RecoveryInv, AfterInv

\* The recovery gives up: an override that is not complete has activated nothing.
LEMMA DropExtraGivesUpKeeps == ASSUME SupervisedInv, DropExtra, extra = "torn" PROVE SupervisedInv'
  <1>1. SessionTypeOK
    BY DEF SupervisedInv
  <1>2. ScriptInv' /\ phase' = "none" /\ kind' = kind /\ todo' = <<>>
    BY ShortScripts DEF DropExtra, ScriptInv
  <1>3. /\ phase = "recovery" /\ <<"drop extra", "-">> \in Left /\ errors' = TRUE
        /\ UNCHANGED <<runs, stopping, dropin, extra, manifest, loaded, marker, window, pinned, report, sessions,
                       mishaps, killed, upset>>
    <2>1. /\ phase = "recovery" /\ todo # <<>> /\ Op = "drop extra" /\ errors' = TRUE
          /\ UNCHANGED <<runs, stopping, dropin, extra, manifest, loaded, marker, window, pinned, report, sessions,
                         mishaps, killed, upset>>
      BY DEF DropExtra, Doing, wire, bounds, observed
    <2>2. <<"drop extra", "-">> \in Left
      BY <2>1, InvParts, Advance DEF UnitOps
    <2>3. QED
      BY <2>1, <2>2
  <1>4. SessionTypeOK'
    <2>1. \A i \in DOMAIN todo' : todo'[i][1] \in Ops /\ todo'[i][2] \in Units \cup {"-"}
      BY <1>2, CommandTypes DEF ScriptInv
    <2>2. runs' \in [Units -> Images] /\ \A p \in Producers : runs'[p] # "auto"
      BY <1>1, <1>3, TypeParts DEF Images
    <2>3. stopping' \subseteq {u \in Units : runs'[u] # "off"}
      BY <1>1, <1>3, TypeParts
    <2>4. window' => marker' = "P300" /\ runs'[Main] = "auto"
      BY <1>1, <1>3, TypeParts
    <2>5. /\ dropin' \in [Units -> Files] /\ extra' \in Files /\ manifest' \in Files
          /\ loaded' \in [Units -> Images \ {"off"}]
      BY <1>1, <1>3 DEF SessionTypeOK, Files
    <2>6. QED
      BY <1>1, <1>2, <1>3, <2>1, <2>2, <2>3, <2>4, <2>5 DEF SessionTypeOK
  <1>5. PlainUnits'
    BY <1>1, <1>2, <1>3, TypeParts, InvParts DEF PlainUnits
  <1>6. WrappedProducers'
    BY <1>1, <1>2, <1>3, TypeParts, InvParts DEF WrappedProducers
  <1>7. ExtraOnOverrides'
    BY <1>1, <1>2, <1>3, TypeParts, InvParts DEF ExtraOnOverrides
  <1>8. WindowOnlyWrapped'
    BY <1>1, <1>2, <1>3, TypeParts, InvParts DEF WindowOnlyWrapped
  <1>9. AutoInv'
    BY <1>2 DEF AutoInv, ShadowStaysPlain, AutoNeedsExtra
  <1>10. WorkerInv'
    BY <1>2 DEF WorkerInv, WorkerClean, FillsToCome, StartsFirst, NoAutoSteps
  <1>11. RecoveryInv'
    BY <1>2 DEF RecoveryInv, ErrorsShow, DropsToCome, StopsToCome, RemovesToCome, ReloadToCome, EndToCome
  <1>12. AutoIsOver'
    BY <1>2, <1>3, InvParts DEF AutoIsOver, AutoNeedsExtra
  <1>13. PassStays'
    BY <1>3, InvParts DEF PassStays, ErrorsShow
  <1>14. EndsRestored'
    BY <1>3 DEF EndsRestored
  <1>15. QED
    BY <1>2, <1>4, <1>5, <1>6, <1>7, <1>8, <1>9, <1>10, <1>11, <1>12, <1>13, <1>14 DEF SupervisedInv, UnitsInv,
       AutoInv, WorkerInv, RecoveryInv, AfterInv

\* The manifest is taken away, if it is complete.
LEMMA DropManifestKeeps == ASSUME SupervisedInv, DropManifest PROVE SupervisedInv'
  <1>1. SessionTypeOK
    BY DEF SupervisedInv
  <1>2. phase = "recovery" /\ todo # <<>> /\ Op = "drop manifest" /\ NextCommand
    BY DEF DropManifest, Doing
  <1>3. /\ ScriptInv' /\ phase' = phase /\ kind' = kind /\ todo' = Tail(todo)
        /\ \A o, x : <<o, x>> \in Left' => <<o, x>> \in Left
        /\ \A o, x : <<o, x>> \in Left => <<o, x>> \in Left' \/ (o = Op /\ x = Unit)
        /\ phase = "recovery" => <<"drop extra", "-">> \notin Left'
        /\ Op # "report" => todo # Just("report")
    BY <1>2, InvParts, AfterCommand
  <1>4. /\ manifest' = (IF manifest = "torn" THEN manifest ELSE "none")
        /\ UNCHANGED <<runs, stopping, dropin, extra, loaded, marker, window, pinned, errors, report, sessions,
                       mishaps, killed, upset>>
    BY DEF DropManifest, wire, records, bounds, observed
  <1>5. /\ \A u : <<"fill", u>> \in Left => <<"fill", u>> \in Left'
        /\ \A u : <<"start", u>> \in Left => <<"start", u>> \in Left'
        /\ \A u : <<"stop", u>> \in Left => <<"stop", u>> \in Left'
        /\ \A u : <<"remove", u>> \in Left => <<"remove", u>> \in Left'
        /\ <<"drop extra", "-">> \in Left => <<"drop extra", "-">> \in Left'
        /\ <<"reload", "-">> \in Left => <<"reload", "-">> \in Left'
        /\ <<"go on", "-">> \in Left => <<"go on", "-">> \in Left'
        /\ <<"clear", "-">> \in Left => <<"clear", "-">> \in Left'
        /\ <<"check", "-">> \in Left => <<"check", "-">> \in Left'
    <2>1. Op # "fill" /\ Op # "start" /\ Op # "stop" /\ Op # "remove" /\ Op # "drop extra" /\ Op # "reload"
          /\ Op # "go on" /\ Op # "clear" /\ Op # "check"
      BY <1>2
    <2>2. QED
      BY <1>3, <2>1
  <1>6. SessionTypeOK'
    <2>1. \A i \in DOMAIN todo' : todo'[i][1] \in Ops /\ todo'[i][2] \in Units \cup {"-"}
      BY <1>3, CommandTypes DEF ScriptInv
    <2>2. runs' \in [Units -> Images] /\ \A p \in Producers : runs'[p] # "auto"
      BY <1>1, <1>4, TypeParts DEF Images
    <2>3. stopping' \subseteq {u \in Units : runs'[u] # "off"}
      BY <1>1, <1>4, TypeParts
    <2>4. window' => marker' = "P300" /\ runs'[Main] = "auto"
      BY <1>1, <1>4, TypeParts
    <2>5. /\ dropin' \in [Units -> Files] /\ extra' \in Files /\ manifest' \in Files
          /\ loaded' \in [Units -> Images \ {"off"}]
      BY <1>1, <1>4 DEF SessionTypeOK, Files
    <2>6. QED
      BY <1>1, <1>3, <1>4, <2>1, <2>2, <2>3, <2>4, <2>5 DEF SessionTypeOK
  <1>7. PlainUnits'
    BY <1>1, <1>2, <1>3, <1>4, <1>5, TypeParts, InvParts DEF PlainUnits
  <1>8. WrappedProducers'
    BY <1>1, <1>2, <1>3, <1>4, <1>5, TypeParts, InvParts DEF WrappedProducers
  <1>9. ExtraOnOverrides'
    BY <1>1, <1>2, <1>3, <1>4, <1>5, TypeParts, InvParts DEF ExtraOnOverrides
  <1>10. WindowOnlyWrapped'
    BY <1>1, <1>2, <1>3, <1>4, <1>5, TypeParts, InvParts DEF WindowOnlyWrapped
  <1>11. ShadowStaysPlain'
    BY <1>1, <1>2, <1>3, <1>4, <1>5, TypeParts, InvParts DEF ShadowStaysPlain
  <1>12. AutoNeedsExtra'
    BY <1>1, <1>2, <1>3, <1>4, <1>5, TypeParts, InvParts DEF AutoNeedsExtra
  <1>13. WorkerInv'
    BY <1>2, <1>3 DEF WorkerInv, WorkerClean, FillsToCome, StartsFirst, NoAutoSteps
  <1>14. ErrorsShow'
    BY <1>1, <1>2, <1>3, <1>4, <1>5, TypeParts, InvParts DEF ErrorsShow
  <1>15. DropsToCome'
    BY <1>1, <1>2, <1>3, <1>4, <1>5, TypeParts, InvParts DEF DropsToCome
  <1>16. StopsToCome'
    BY <1>1, <1>2, <1>3, <1>4, <1>5, TypeParts, InvParts DEF StopsToCome
  <1>17. RemovesToCome'
    BY <1>1, <1>2, <1>3, <1>4, <1>5, TypeParts, InvParts DEF RemovesToCome
  <1>18. ReloadToCome'
    BY <1>1, <1>2, <1>3, <1>4, <1>5, TypeParts, InvParts DEF ReloadToCome
  <1>19. EndToCome'
    BY <1>1, <1>2, <1>3, <1>4, <1>5, TypeParts, InvParts DEF EndToCome
  <1>20. AfterInv'
    BY <1>2, <1>3 DEF AfterInv, AutoIsOver, PassStays, EndsRestored
  <1>21. QED
    BY <1>3, <1>6, <1>7, <1>8, <1>9, <1>10, <1>11, <1>12, <1>13, <1>14, <1>15, <1>16, <1>17, <1>18, <1>19,
       <1>20 DEF SupervisedInv, UnitsInv, AutoInv, WorkerInv, RecoveryInv, AfterInv

\* An override is taken away, or is an error.
LEMMA RemoveKeeps == ASSUME SupervisedInv, RemoveOverride PROVE SupervisedInv'
  <1>1. SessionTypeOK
    BY DEF SupervisedInv
  <1>2. phase = "recovery" /\ todo # <<>> /\ Op = "remove" /\ NextCommand
    BY DEF RemoveOverride, Doing
  <1>3. /\ ScriptInv' /\ phase' = phase /\ kind' = kind /\ todo' = Tail(todo)
        /\ \A o, x : <<o, x>> \in Left' => <<o, x>> \in Left
        /\ \A o, x : <<o, x>> \in Left => <<o, x>> \in Left' \/ (o = Op /\ x = Unit)
        /\ phase = "recovery" => <<"drop extra", "-">> \notin Left'
        /\ Op # "report" => todo # Just("report")
    BY <1>2, InvParts, AfterCommand
  <1>4. Unit \in Units /\ extra = "none" /\ <<"go on", "-">> \in Left' /\ Closing \subseteq Left'
        /\ \A u \in Units : <<"stop", u>> \notin Left
    <2>1. Unit \in Units
      BY <1>2, InvParts, Advance DEF UnitOps
    <2>2. Closing \subseteq Left' /\ <<"drop extra", "-">> \notin Left /\ \A u \in Units : <<"stop", u>> \notin Left
      BY <1>2, <1>3, InvParts, RecoveryGone DEF Left
    <2>3. QED
      BY <1>2, <2>1, <2>2, InvParts DEF DropsToCome, Closing
  <1>5. /\ dropin' = [dropin EXCEPT ![Unit] = IF dropin[Unit] = "torn" THEN "torn" ELSE "none"]
        /\ errors' = (errors \/ dropin[Unit] = "torn")
        /\ UNCHANGED <<runs, stopping, extra, manifest, loaded, marker, window, pinned, report, sessions, mishaps,
                       killed, upset>>
    BY DEF RemoveOverride, wire, bounds, observed
  <1>6. /\ \A u : <<"fill", u>> \in Left => <<"fill", u>> \in Left'
        /\ \A u : <<"start", u>> \in Left => <<"start", u>> \in Left'
        /\ \A u : <<"stop", u>> \in Left => <<"stop", u>> \in Left'
        /\ <<"drop extra", "-">> \in Left => <<"drop extra", "-">> \in Left'
        /\ <<"drop manifest", "-">> \in Left => <<"drop manifest", "-">> \in Left'
        /\ <<"reload", "-">> \in Left => <<"reload", "-">> \in Left'
        /\ <<"go on", "-">> \in Left => <<"go on", "-">> \in Left'
        /\ <<"clear", "-">> \in Left => <<"clear", "-">> \in Left'
        /\ <<"check", "-">> \in Left => <<"check", "-">> \in Left'
    <2>1. Op # "fill" /\ Op # "start" /\ Op # "stop" /\ Op # "drop extra" /\ Op # "drop manifest"
          /\ Op # "reload" /\ Op # "go on" /\ Op # "clear" /\ Op # "check"
      BY <1>2
    <2>2. QED
      BY <1>3, <2>1
  <1>7. SessionTypeOK'
    <2>1. \A i \in DOMAIN todo' : todo'[i][1] \in Ops /\ todo'[i][2] \in Units \cup {"-"}
      BY <1>3, CommandTypes DEF ScriptInv
    <2>2. runs' \in [Units -> Images] /\ \A p \in Producers : runs'[p] # "auto"
      BY <1>1, <1>5, TypeParts DEF Images
    <2>3. stopping' \subseteq {u \in Units : runs'[u] # "off"}
      BY <1>1, <1>5, TypeParts
    <2>4. window' => marker' = "P300" /\ runs'[Main] = "auto"
      BY <1>1, <1>5, TypeParts
    <2>5. /\ dropin' \in [Units -> Files] /\ extra' \in Files /\ manifest' \in Files
          /\ loaded' \in [Units -> Images \ {"off"}]
      BY <1>1, <1>5 DEF SessionTypeOK, Files
    <2>6. QED
      BY <1>1, <1>3, <1>5, <2>1, <2>2, <2>3, <2>4, <2>5 DEF SessionTypeOK
  <1>8. PlainUnits'
    BY <1>1, <1>2, <1>5, <1>4, TypeParts, InvParts DEF PlainUnits, StopsToCome
  <1>9. WrappedProducers'
    BY <1>1, <1>2, <1>3, <1>5, <1>6, TypeParts, InvParts DEF WrappedProducers
  <1>10. ExtraOnOverrides'
    BY <1>5, <1>4 DEF ExtraOnOverrides
  <1>11. WindowOnlyWrapped'
    BY <1>1, <1>2, <1>3, <1>5, <1>6, TypeParts, InvParts DEF WindowOnlyWrapped
  <1>12. ShadowStaysPlain'
    BY <1>1, <1>2, <1>3, <1>5, <1>6, TypeParts, InvParts DEF ShadowStaysPlain
  <1>13. AutoNeedsExtra'
    BY <1>1, <1>2, <1>3, <1>5, <1>6, TypeParts, InvParts DEF AutoNeedsExtra
  <1>14. WorkerInv'
    BY <1>2, <1>3 DEF WorkerInv, WorkerClean, FillsToCome, StartsFirst, NoAutoSteps
  <1>15. ErrorsShow'
    BY <1>1, <1>2, <1>3, <1>5, <1>6, TypeParts, InvParts, <1>4 DEF ErrorsShow
  <1>16. DropsToCome'
    BY <1>1, <1>2, <1>3, <1>5, <1>6, TypeParts, InvParts DEF DropsToCome
  <1>17. StopsToCome'
    BY <1>1, <1>2, <1>3, <1>5, <1>6, TypeParts, InvParts DEF StopsToCome
  <1>18. RemovesToCome'
    BY <1>1, <1>2, <1>3, <1>5, <1>6, TypeParts, InvParts, <1>4 DEF RemovesToCome
  <1>19. ReloadToCome'
    BY <1>1, <1>2, <1>3, <1>5, <1>6, TypeParts, InvParts DEF ReloadToCome
  <1>20. EndToCome'
    BY <1>3, <1>4 DEF EndToCome, Closing
  <1>21. AfterInv'
    BY <1>2, <1>3 DEF AfterInv, AutoIsOver, PassStays, EndsRestored
  <1>22. QED
    BY <1>3, <1>7, <1>8, <1>9, <1>10, <1>11, <1>12, <1>13, <1>14, <1>15, <1>16, <1>17, <1>18, <1>19, <1>20,
       <1>21 DEF SupervisedInv, UnitsInv, AutoInv, WorkerInv, RecoveryInv, AfterInv

\* Without an error the services are started.
LEMMA GoOnKeeps == ASSUME SupervisedInv, GoOn, ~errors PROVE SupervisedInv'
  <1>1. SessionTypeOK
    BY DEF SupervisedInv
  <1>2. phase = "recovery" /\ todo # <<>> /\ Op = "go on" /\ NextCommand
    BY DEF GoOn, Doing
  <1>3. /\ ScriptInv' /\ phase' = phase /\ kind' = kind /\ todo' = Tail(todo)
        /\ \A o, x : <<o, x>> \in Left' => <<o, x>> \in Left
        /\ \A o, x : <<o, x>> \in Left => <<o, x>> \in Left' \/ (o = Op /\ x = Unit)
        /\ phase = "recovery" => <<"drop extra", "-">> \notin Left'
        /\ Op # "report" => todo # Just("report")
    BY <1>2, InvParts, AfterCommand
  <1>4. UNCHANGED <<runs, stopping, dropin, extra, manifest, loaded, marker, window, pinned, errors, report,
                    sessions, mishaps, killed, upset>>
    BY DEF GoOn, files, wire, records, bounds, observed
  <1>5. /\ \A u : <<"fill", u>> \in Left => <<"fill", u>> \in Left'
        /\ \A u : <<"start", u>> \in Left => <<"start", u>> \in Left'
        /\ \A u : <<"stop", u>> \in Left => <<"stop", u>> \in Left'
        /\ \A u : <<"remove", u>> \in Left => <<"remove", u>> \in Left'
        /\ <<"drop extra", "-">> \in Left => <<"drop extra", "-">> \in Left'
        /\ <<"drop manifest", "-">> \in Left => <<"drop manifest", "-">> \in Left'
        /\ <<"reload", "-">> \in Left => <<"reload", "-">> \in Left'
        /\ <<"clear", "-">> \in Left => <<"clear", "-">> \in Left'
        /\ <<"check", "-">> \in Left => <<"check", "-">> \in Left'
    <2>1. Op # "fill" /\ Op # "start" /\ Op # "stop" /\ Op # "remove" /\ Op # "drop extra"
          /\ Op # "drop manifest" /\ Op # "reload" /\ Op # "clear" /\ Op # "check"
      BY <1>2
    <2>2. QED
      BY <1>3, <2>1
  <1>6. SessionTypeOK'
    <2>1. \A i \in DOMAIN todo' : todo'[i][1] \in Ops /\ todo'[i][2] \in Units \cup {"-"}
      BY <1>3, CommandTypes DEF ScriptInv
    <2>2. runs' \in [Units -> Images] /\ \A p \in Producers : runs'[p] # "auto"
      BY <1>1, <1>4, TypeParts DEF Images
    <2>3. stopping' \subseteq {u \in Units : runs'[u] # "off"}
      BY <1>1, <1>4, TypeParts
    <2>4. window' => marker' = "P300" /\ runs'[Main] = "auto"
      BY <1>1, <1>4, TypeParts
    <2>5. /\ dropin' \in [Units -> Files] /\ extra' \in Files /\ manifest' \in Files
          /\ loaded' \in [Units -> Images \ {"off"}]
      BY <1>1, <1>4 DEF SessionTypeOK, Files
    <2>6. QED
      BY <1>1, <1>3, <1>4, <2>1, <2>2, <2>3, <2>4, <2>5 DEF SessionTypeOK
  <1>7. PlainUnits'
    BY <1>1, <1>2, <1>3, <1>4, <1>5, TypeParts, InvParts DEF PlainUnits
  <1>8. WrappedProducers'
    BY <1>1, <1>2, <1>3, <1>4, <1>5, TypeParts, InvParts DEF WrappedProducers
  <1>9. ExtraOnOverrides'
    BY <1>1, <1>2, <1>3, <1>4, <1>5, TypeParts, InvParts DEF ExtraOnOverrides
  <1>10. WindowOnlyWrapped'
    BY <1>1, <1>2, <1>3, <1>4, <1>5, TypeParts, InvParts DEF WindowOnlyWrapped
  <1>11. ShadowStaysPlain'
    BY <1>1, <1>2, <1>3, <1>4, <1>5, TypeParts, InvParts DEF ShadowStaysPlain
  <1>12. AutoNeedsExtra'
    BY <1>1, <1>2, <1>3, <1>4, <1>5, TypeParts, InvParts DEF AutoNeedsExtra
  <1>13. WorkerInv'
    BY <1>2, <1>3 DEF WorkerInv, WorkerClean, FillsToCome, StartsFirst, NoAutoSteps
  <1>14. ErrorsShow'
    BY <1>1, <1>2, <1>3, <1>4, <1>5, TypeParts, InvParts DEF ErrorsShow
  <1>15. DropsToCome'
    BY <1>1, <1>2, <1>3, <1>4, <1>5, TypeParts, InvParts DEF DropsToCome
  <1>16. StopsToCome'
    BY <1>1, <1>2, <1>3, <1>4, <1>5, TypeParts, InvParts DEF StopsToCome
  <1>17. RemovesToCome'
    BY <1>1, <1>2, <1>3, <1>4, <1>5, TypeParts, InvParts DEF RemovesToCome
  <1>18. ReloadToCome'
    BY <1>1, <1>2, <1>3, <1>4, <1>5, TypeParts, InvParts DEF ReloadToCome
  <1>19. EndToCome'
    BY <1>1, <1>2, <1>3, <1>4, <1>5, TypeParts, InvParts DEF EndToCome
  <1>20. AfterInv'
    BY <1>2, <1>3 DEF AfterInv, AutoIsOver, PassStays, EndsRestored
  <1>21. QED
    BY <1>3, <1>6, <1>7, <1>8, <1>9, <1>10, <1>11, <1>12, <1>13, <1>14, <1>15, <1>16, <1>17, <1>18, <1>19,
       <1>20 DEF SupervisedInv, UnitsInv, AutoInv, WorkerInv, RecoveryInv, AfterInv

\* After one only the report is written.
LEMMA GoOnStopsKeeps == ASSUME SupervisedInv, GoOn, errors PROVE SupervisedInv'
  <1>1. SessionTypeOK
    BY DEF SupervisedInv
  <1>2. ScriptInv' /\ phase = "recovery" /\ phase' = phase /\ kind' = kind /\ todo' = Just("report")
    BY ShortScripts DEF GoOn, Doing, ScriptInv
  <1>3. /\ <<"drop extra", "-">> \notin Left /\ <<"drop manifest", "-">> \notin Left
        /\ \A u \in Units : <<"stop", u>> \notin Left /\ <<"remove", u>> \notin Left
    <2>1. phase = "recovery" /\ todo # <<>> /\ Op = "go on"
      BY DEF GoOn, Doing
    <2>2. QED
      BY <2>1, InvParts, RecoveryGone
  <1>4. <<"drop extra", "-">> \notin Left'
    BY <1>2, ShortScripts DEF Left
  <1>5. errors /\ UNCHANGED <<runs, stopping, dropin, extra, manifest, loaded, marker, window, pinned, errors,
                              report, sessions, mishaps, killed, upset>>
    BY DEF GoOn, files, wire, records, bounds, observed
  <1>6. SessionTypeOK'
    <2>1. \A i \in DOMAIN todo' : todo'[i][1] \in Ops /\ todo'[i][2] \in Units \cup {"-"}
      BY <1>2, CommandTypes DEF ScriptInv
    <2>2. runs' \in [Units -> Images] /\ \A p \in Producers : runs'[p] # "auto"
      BY <1>1, <1>5, TypeParts DEF Images
    <2>3. stopping' \subseteq {u \in Units : runs'[u] # "off"}
      BY <1>1, <1>5, TypeParts
    <2>4. window' => marker' = "P300" /\ runs'[Main] = "auto"
      BY <1>1, <1>5, TypeParts
    <2>5. /\ dropin' \in [Units -> Files] /\ extra' \in Files /\ manifest' \in Files
          /\ loaded' \in [Units -> Images \ {"off"}]
      BY <1>1, <1>5 DEF SessionTypeOK, Files
    <2>6. QED
      BY <1>1, <1>2, <1>5, <2>1, <2>2, <2>3, <2>4, <2>5 DEF SessionTypeOK
  <1>7. PlainUnits'
    BY <1>1, <1>2, <1>5, TypeParts, InvParts DEF PlainUnits
  <1>8. WrappedProducers'
    BY <1>1, <1>2, <1>5, TypeParts, InvParts DEF WrappedProducers
  <1>9. ExtraOnOverrides'
    BY <1>1, <1>2, <1>5, TypeParts, InvParts DEF ExtraOnOverrides
  <1>10. WindowOnlyWrapped'
    BY <1>1, <1>2, <1>5, TypeParts, InvParts DEF WindowOnlyWrapped
  <1>11. ShadowStaysPlain'
    BY <1>1, <1>2, <1>5, TypeParts, InvParts DEF ShadowStaysPlain
  <1>12. AutoNeedsExtra'
    BY <1>2, <1>4 DEF AutoNeedsExtra
  <1>13. WorkerInv'
    BY <1>2 DEF WorkerInv, WorkerClean, FillsToCome, StartsFirst, NoAutoSteps
  <1>14. ErrorsShow'
    BY <1>2, <1>5, InvParts DEF ErrorsShow
  <1>15. DropsToCome'
    BY <1>2, <1>5, <1>3, InvParts DEF DropsToCome
  <1>16. StopsToCome'
    BY <1>2, <1>5, <1>3, InvParts DEF StopsToCome
  <1>17. RemovesToCome'
    BY <1>2, <1>5, <1>3, InvParts DEF RemovesToCome
  <1>18. ReloadToCome'
    BY <1>2 DEF ReloadToCome
  <1>19. EndToCome'
    BY <1>5 DEF EndToCome
  <1>20. AfterInv'
    BY <1>2 DEF AfterInv, AutoIsOver, PassStays, EndsRestored
  <1>21. QED
    BY <1>2, <1>6, <1>7, <1>8, <1>9, <1>10, <1>11, <1>12, <1>13, <1>14, <1>15, <1>16, <1>17, <1>18, <1>19,
       <1>20 DEF SupervisedInv, UnitsInv, AutoInv, WorkerInv, RecoveryInv, AfterInv

\* A marker a window has left is cleared: no splitter of the automatic mode is running.
LEMMA ClearKeeps == ASSUME SupervisedInv, Clear PROVE SupervisedInv'
  <1>1. SessionTypeOK
    BY DEF SupervisedInv
  <1>2. phase = "recovery" /\ todo # <<>> /\ Op = "clear" /\ NextCommand
    BY DEF Clear, Doing
  <1>3. /\ ScriptInv' /\ phase' = phase /\ kind' = kind /\ todo' = Tail(todo)
        /\ \A o, x : <<o, x>> \in Left' => <<o, x>> \in Left
        /\ \A o, x : <<o, x>> \in Left => <<o, x>> \in Left' \/ (o = Op /\ x = Unit)
        /\ phase = "recovery" => <<"drop extra", "-">> \notin Left'
        /\ Op # "report" => todo # Just("report")
    BY <1>2, InvParts, AfterCommand
  <1>4. ~window
    <2>1. <<"go on", "-">> \notin Left /\ todo # Just("report") /\ \A u \in Units : <<"stop", u>> \notin Left
      BY <1>2, <1>3, InvParts, RecoveryGone
    <2>2. stopping = {}
      BY <1>2, <2>1, InvParts DEF ErrorsShow
    <2>3. QED
      BY <1>1, <1>2, <2>1, <2>2, TypeParts, InvParts DEF StopsToCome
  <1>5. /\ marker' = (IF marker = "P300" THEN "empty" ELSE marker)
        /\ UNCHANGED <<runs, stopping, dropin, extra, manifest, loaded, window, pinned, errors, report, sessions,
                       mishaps, killed, upset>>
    BY DEF Clear, files, records, bounds, observed
  <1>6. /\ \A u : <<"fill", u>> \in Left => <<"fill", u>> \in Left'
        /\ \A u : <<"start", u>> \in Left => <<"start", u>> \in Left'
        /\ \A u : <<"stop", u>> \in Left => <<"stop", u>> \in Left'
        /\ \A u : <<"remove", u>> \in Left => <<"remove", u>> \in Left'
        /\ <<"drop extra", "-">> \in Left => <<"drop extra", "-">> \in Left'
        /\ <<"drop manifest", "-">> \in Left => <<"drop manifest", "-">> \in Left'
        /\ <<"reload", "-">> \in Left => <<"reload", "-">> \in Left'
        /\ <<"go on", "-">> \in Left => <<"go on", "-">> \in Left'
        /\ <<"check", "-">> \in Left => <<"check", "-">> \in Left'
    <2>1. Op # "fill" /\ Op # "start" /\ Op # "stop" /\ Op # "remove" /\ Op # "drop extra"
          /\ Op # "drop manifest" /\ Op # "reload" /\ Op # "go on" /\ Op # "check"
      BY <1>2
    <2>2. QED
      BY <1>3, <2>1
  <1>7. SessionTypeOK'
    <2>1. \A i \in DOMAIN todo' : todo'[i][1] \in Ops /\ todo'[i][2] \in Units \cup {"-"}
      BY <1>3, CommandTypes DEF ScriptInv
    <2>2. runs' \in [Units -> Images] /\ \A p \in Producers : runs'[p] # "auto"
      BY <1>1, <1>5, TypeParts DEF Images
    <2>3. stopping' \subseteq {u \in Units : runs'[u] # "off"}
      BY <1>1, <1>5, TypeParts
    <2>4. window' => marker' = "P300" /\ runs'[Main] = "auto"
      BY <1>5, <1>4
    <2>5. /\ dropin' \in [Units -> Files] /\ extra' \in Files /\ manifest' \in Files
          /\ loaded' \in [Units -> Images \ {"off"}]
      BY <1>1, <1>5 DEF SessionTypeOK, Files
    <2>6. QED
      BY <1>1, <1>3, <1>5, <2>1, <2>2, <2>3, <2>4, <2>5 DEF SessionTypeOK
  <1>8. PlainUnits'
    BY <1>1, <1>2, <1>3, <1>5, <1>6, TypeParts, InvParts DEF PlainUnits
  <1>9. WrappedProducers'
    BY <1>1, <1>2, <1>3, <1>5, <1>6, TypeParts, InvParts DEF WrappedProducers
  <1>10. ExtraOnOverrides'
    BY <1>1, <1>2, <1>3, <1>5, <1>6, TypeParts, InvParts DEF ExtraOnOverrides
  <1>11. WindowOnlyWrapped'
    BY <1>1, <1>2, <1>3, <1>5, <1>6, TypeParts, InvParts DEF WindowOnlyWrapped
  <1>12. ShadowStaysPlain'
    BY <1>1, <1>2, <1>3, <1>5, <1>6, TypeParts, InvParts DEF ShadowStaysPlain
  <1>13. AutoNeedsExtra'
    BY <1>1, <1>2, <1>3, <1>5, <1>6, TypeParts, InvParts DEF AutoNeedsExtra
  <1>14. WorkerInv'
    BY <1>2, <1>3 DEF WorkerInv, WorkerClean, FillsToCome, StartsFirst, NoAutoSteps
  <1>15. ErrorsShow'
    BY <1>1, <1>2, <1>3, <1>5, <1>6, TypeParts, InvParts DEF ErrorsShow
  <1>16. DropsToCome'
    BY <1>1, <1>2, <1>3, <1>5, <1>6, TypeParts, InvParts DEF DropsToCome
  <1>17. StopsToCome'
    BY <1>1, <1>2, <1>3, <1>5, <1>6, TypeParts, InvParts DEF StopsToCome
  <1>18. RemovesToCome'
    BY <1>1, <1>2, <1>3, <1>5, <1>6, TypeParts, InvParts DEF RemovesToCome
  <1>19. ReloadToCome'
    BY <1>1, <1>2, <1>3, <1>5, <1>6, TypeParts, InvParts DEF ReloadToCome
  <1>20. EndToCome'
    BY <1>1, <1>2, <1>3, <1>5, <1>6, TypeParts, InvParts DEF EndToCome
  <1>21. AfterInv'
    BY <1>2, <1>3 DEF AfterInv, AutoIsOver, PassStays, EndsRestored
  <1>22. QED
    BY <1>3, <1>7, <1>8, <1>9, <1>10, <1>11, <1>12, <1>13, <1>14, <1>15, <1>16, <1>17, <1>18, <1>19, <1>20,
       <1>21 DEF SupervisedInv, UnitsInv, AutoInv, WorkerInv, RecoveryInv, AfterInv

\* The report is written: PASS only with everything restored.
LEMMA ReportKeeps == ASSUME SupervisedInv, Report PROVE SupervisedInv'
  <1>1. SessionTypeOK
    BY DEF SupervisedInv
  <1>2. ScriptInv' /\ phase' = "none" /\ kind' = kind /\ todo' = <<>>
    BY ShortScripts DEF Report, ScriptInv
  <1>3. /\ phase = "recovery" 
        /\ <<"drop extra", "-">> \notin Left /\ <<"drop manifest", "-">> \notin Left /\ <<"clear", "-">> \notin Left
        /\ <<"check", "-">> \notin Left /\ <<"reload", "-">> \notin Left
        /\ \A u \in Units : <<"stop", u>> \notin Left /\ <<"remove", u>> \notin Left
    <2>1. phase = "recovery" /\ todo # <<>> /\ Op = "report"
      BY DEF Report, Doing
    <2>2. QED
      BY <2>1, InvParts, RecoveryGone
  <1>4. /\ report' = (IF errors THEN "FAIL" ELSE "PASS")
        /\ UNCHANGED <<runs, stopping, dropin, extra, manifest, loaded, marker, window, pinned, errors, sessions,
                       mishaps, killed, upset>>
    BY DEF Report, files, wire, bounds, observed
  <1>5. SessionTypeOK'
    <2>1. \A i \in DOMAIN todo' : todo'[i][1] \in Ops /\ todo'[i][2] \in Units \cup {"-"}
      BY <1>2, CommandTypes DEF ScriptInv
    <2>2. runs' \in [Units -> Images] /\ \A p \in Producers : runs'[p] # "auto"
      BY <1>1, <1>4, TypeParts DEF Images
    <2>3. stopping' \subseteq {u \in Units : runs'[u] # "off"}
      BY <1>1, <1>4, TypeParts
    <2>4. window' => marker' = "P300" /\ runs'[Main] = "auto"
      BY <1>1, <1>4, TypeParts
    <2>5. /\ dropin' \in [Units -> Files] /\ extra' \in Files /\ manifest' \in Files
          /\ loaded' \in [Units -> Images \ {"off"}]
      BY <1>1, <1>4 DEF SessionTypeOK, Files
    <2>6. QED
      BY <1>1, <1>2, <1>4, <2>1, <2>2, <2>3, <2>4, <2>5 DEF SessionTypeOK
  <1>6. PlainUnits'
    BY <1>1, <1>2, <1>4, TypeParts, InvParts DEF PlainUnits
  <1>7. WrappedProducers'
    BY <1>1, <1>2, <1>4, TypeParts, InvParts DEF WrappedProducers
  <1>8. ExtraOnOverrides'
    BY <1>1, <1>2, <1>4, TypeParts, InvParts DEF ExtraOnOverrides
  <1>9. WindowOnlyWrapped'
    BY <1>1, <1>2, <1>4, TypeParts, InvParts DEF WindowOnlyWrapped
  <1>10. AutoInv'
    BY <1>2 DEF AutoInv, ShadowStaysPlain, AutoNeedsExtra
  <1>11. WorkerInv'
    BY <1>2 DEF WorkerInv, WorkerClean, FillsToCome, StartsFirst, NoAutoSteps
  <1>12. RecoveryInv'
    BY <1>2 DEF RecoveryInv, ErrorsShow, DropsToCome, StopsToCome, RemovesToCome, ReloadToCome, EndToCome
  <1>13. AutoIsOver'
    BY <1>1, <1>4, <1>3, TypeParts, InvParts DEF AutoIsOver, StopsToCome
  <1>14. PassStays'
    <2>1. CASE errors
      BY <1>4, <2>1 DEF PassStays
    <2>2. CASE ~errors
      <3>1. stopping = {} /\ extra = "none" /\ marker # "P300"
        BY <1>3, <2>2, InvParts DEF ErrorsShow, DropsToCome, EndToCome
      <3>2. \A u \in Units : runs[u] # "off" /\ dropin[u] = "none"
        BY <1>3, <2>2, InvParts DEF EndToCome, RemovesToCome
      <3>3. \A u \in Units : runs[u] = "original" /\ loaded[u] = "original"
        BY <1>3, <3>1, <3>2, InvParts DEF StopsToCome
      <3>4. QED
        BY <1>4, <3>1, <3>2, <3>3 DEF PassStays
    <2>3. QED
      BY <2>1, <2>2
  <1>15. EndsRestored'
    BY <1>4, <1>3, InvParts DEF EndsRestored, ErrorsShow, DropsToCome
  <1>16. QED
    BY <1>2, <1>5, <1>6, <1>7, <1>8, <1>9, <1>10, <1>11, <1>12, <1>13, <1>14, <1>15 DEF SupervisedInv, UnitsInv,
       AutoInv, WorkerInv, RecoveryInv, AfterInv

\* The counter of the failures stays within its bound.
LEMMA MishapCounts == ASSUME SessionTypeOK, Mishap PROVE mishaps' \in 0 .. MaxMishaps
  BY CanaryAssumption DEF SessionTypeOK, Mishap

\* A stop of the recovery times out: the error is noted, and the unit is being stopped.
LEMMA StopTimesOutKeeps == ASSUME SupervisedInv, RecoveryFails, Op = "stop" PROVE SupervisedInv'
  <1>1. SessionTypeOK
    BY DEF SupervisedInv
  <1>2. phase = "recovery" /\ todo # <<>> /\ Op = "stop" /\ NextCommand
    BY DEF RecoveryFails, Doing
  <1>3. /\ ScriptInv' /\ phase' = phase /\ kind' = kind /\ todo' = Tail(todo)
        /\ \A o, x : <<o, x>> \in Left' => <<o, x>> \in Left
        /\ \A o, x : <<o, x>> \in Left => <<o, x>> \in Left' \/ (o = Op /\ x = Unit)
        /\ phase = "recovery" => <<"drop extra", "-">> \notin Left'
        /\ Op # "report" => todo # Just("report")
    BY <1>2, InvParts, AfterCommand
  <1>4. Closing \subseteq Left'
    BY <1>2, <1>3, InvParts, RecoveryGone DEF Left
  <1>5. Unit \in Units
    BY <1>2, InvParts, Advance DEF UnitOps
  <1>6. /\ stopping' = stopping \cup {u \in {Unit} : runs[u] # "off"} /\ errors' = TRUE /\ upset' = TRUE
        /\ mishaps' \in 0 .. MaxMishaps
        /\ UNCHANGED <<runs, dropin, extra, manifest, loaded, marker, window, pinned, report, sessions, killed>>
    BY <1>1, <1>2, MishapCounts DEF RecoveryFails, files, wire
  <1>7. /\ \A u : <<"fill", u>> \in Left => <<"fill", u>> \in Left'
        /\ \A u : <<"start", u>> \in Left => <<"start", u>> \in Left'
        /\ \A u : <<"remove", u>> \in Left => <<"remove", u>> \in Left'
        /\ <<"drop extra", "-">> \in Left => <<"drop extra", "-">> \in Left'
        /\ <<"drop manifest", "-">> \in Left => <<"drop manifest", "-">> \in Left'
        /\ <<"reload", "-">> \in Left => <<"reload", "-">> \in Left'
        /\ <<"go on", "-">> \in Left => <<"go on", "-">> \in Left'
        /\ <<"clear", "-">> \in Left => <<"clear", "-">> \in Left'
        /\ <<"check", "-">> \in Left => <<"check", "-">> \in Left'
    <2>1. Op # "fill" /\ Op # "start" /\ Op # "remove" /\ Op # "drop extra" /\ Op # "drop manifest"
          /\ Op # "reload" /\ Op # "go on" /\ Op # "clear" /\ Op # "check"
      BY <1>2
    <2>2. QED
      BY <1>3, <2>1
  <1>8. SessionTypeOK'
    <2>1. \A i \in DOMAIN todo' : todo'[i][1] \in Ops /\ todo'[i][2] \in Units \cup {"-"}
      BY <1>3, CommandTypes DEF ScriptInv
    <2>2. runs' \in [Units -> Images] /\ \A p \in Producers : runs'[p] # "auto"
      BY <1>1, <1>6, TypeParts DEF Images
    <2>3. stopping' \subseteq {u \in Units : runs'[u] # "off"}
      BY <1>1, <1>6, <1>5, TypeParts
    <2>4. window' => marker' = "P300" /\ runs'[Main] = "auto"
      BY <1>1, <1>6, TypeParts
    <2>5. /\ dropin' \in [Units -> Files] /\ extra' \in Files /\ manifest' \in Files
          /\ loaded' \in [Units -> Images \ {"off"}]
      BY <1>1, <1>6 DEF SessionTypeOK, Files
    <2>6. QED
      BY <1>1, <1>3, <1>6, <2>1, <2>2, <2>3, <2>4, <2>5 DEF SessionTypeOK
  <1>9. PlainUnits'
    BY <1>1, <1>2, <1>3, <1>6, <1>7, TypeParts, InvParts DEF PlainUnits
  <1>10. WrappedProducers'
    BY <1>1, <1>2, <1>3, <1>6, <1>7, TypeParts, InvParts DEF WrappedProducers
  <1>11. ExtraOnOverrides'
    BY <1>1, <1>2, <1>3, <1>6, <1>7, TypeParts, InvParts DEF ExtraOnOverrides
  <1>12. WindowOnlyWrapped'
    BY <1>1, <1>2, <1>3, <1>6, <1>7, TypeParts, InvParts DEF WindowOnlyWrapped
  <1>13. ShadowStaysPlain'
    BY <1>1, <1>2, <1>3, <1>6, <1>7, TypeParts, InvParts DEF ShadowStaysPlain
  <1>14. AutoNeedsExtra'
    BY <1>1, <1>2, <1>3, <1>6, <1>7, TypeParts, InvParts DEF AutoNeedsExtra
  <1>15. WorkerInv'
    BY <1>2, <1>3 DEF WorkerInv, WorkerClean, FillsToCome, StartsFirst, NoAutoSteps
  <1>16. ErrorsShow'
    BY <1>2, <1>3, <1>6, <1>4, InvParts DEF ErrorsShow, Closing
  <1>17. DropsToCome'
    BY <1>1, <1>2, <1>3, <1>6, <1>7, TypeParts, InvParts DEF DropsToCome
  <1>18. StopsToCome'
    BY <1>1, <1>2, <1>3, <1>6, <1>7, TypeParts, InvParts DEF StopsToCome
  <1>19. RemovesToCome'
    BY <1>1, <1>2, <1>3, <1>6, <1>7, TypeParts, InvParts DEF RemovesToCome
  <1>20. ReloadToCome'
    BY <1>1, <1>2, <1>3, <1>6, <1>7, TypeParts, InvParts DEF ReloadToCome
  <1>21. EndToCome'
    BY <1>1, <1>2, <1>3, <1>6, <1>7, TypeParts, InvParts DEF EndToCome
  <1>22. AfterInv'
    BY <1>2, <1>3 DEF AfterInv, AutoIsOver, PassStays, EndsRestored
  <1>23. QED
    BY <1>3, <1>8, <1>9, <1>10, <1>11, <1>12, <1>13, <1>14, <1>15, <1>16, <1>17, <1>18, <1>19, <1>20, <1>21,
       <1>22 DEF SupervisedInv, UnitsInv, AutoInv, WorkerInv, RecoveryInv, AfterInv

\* Another of its calls fails: only the report is written.
LEMMA CallFailsKeeps == ASSUME SupervisedInv, RecoveryFails, Op # "stop" PROVE SupervisedInv'
  <1>1. SessionTypeOK
    BY DEF SupervisedInv
  <1>2. ScriptInv' /\ phase = "recovery" /\ phase' = phase /\ kind' = kind /\ todo' = Just("report")
    BY ShortScripts DEF RecoveryFails, Doing, ScriptInv
  <1>3. /\ <<"drop extra", "-">> \notin Left /\ <<"drop manifest", "-">> \notin Left
        /\ \A u \in Units : <<"stop", u>> \notin Left /\ <<"remove", u>> \notin Left
    <2>1. phase = "recovery" /\ todo # <<>> /\ Op \in {"reload", "start", "gfa", "check"}
      BY DEF RecoveryFails
    <2>2. QED
      BY <2>1, InvParts, RecoveryGone
  <1>4. <<"drop extra", "-">> \notin Left'
    BY <1>2, ShortScripts DEF Left
  <1>5. /\ errors' = TRUE /\ upset' = TRUE /\ mishaps' \in 0 .. MaxMishaps
        /\ UNCHANGED <<runs, stopping, dropin, extra, manifest, loaded, marker, window, pinned, report, sessions,
                       killed>>
    BY <1>1, MishapCounts DEF RecoveryFails, files, wire
  <1>6. SessionTypeOK'
    <2>1. \A i \in DOMAIN todo' : todo'[i][1] \in Ops /\ todo'[i][2] \in Units \cup {"-"}
      BY <1>2, CommandTypes DEF ScriptInv
    <2>2. runs' \in [Units -> Images] /\ \A p \in Producers : runs'[p] # "auto"
      BY <1>1, <1>5, TypeParts DEF Images
    <2>3. stopping' \subseteq {u \in Units : runs'[u] # "off"}
      BY <1>1, <1>5, TypeParts
    <2>4. window' => marker' = "P300" /\ runs'[Main] = "auto"
      BY <1>1, <1>5, TypeParts
    <2>5. /\ dropin' \in [Units -> Files] /\ extra' \in Files /\ manifest' \in Files
          /\ loaded' \in [Units -> Images \ {"off"}]
      BY <1>1, <1>5 DEF SessionTypeOK, Files
    <2>6. QED
      BY <1>1, <1>2, <1>5, <2>1, <2>2, <2>3, <2>4, <2>5 DEF SessionTypeOK
  <1>7. PlainUnits'
    BY <1>1, <1>2, <1>5, TypeParts, InvParts DEF PlainUnits
  <1>8. WrappedProducers'
    BY <1>1, <1>2, <1>5, TypeParts, InvParts DEF WrappedProducers
  <1>9. ExtraOnOverrides'
    BY <1>1, <1>2, <1>5, TypeParts, InvParts DEF ExtraOnOverrides
  <1>10. WindowOnlyWrapped'
    BY <1>1, <1>2, <1>5, TypeParts, InvParts DEF WindowOnlyWrapped
  <1>11. ShadowStaysPlain'
    BY <1>1, <1>2, <1>5, TypeParts, InvParts DEF ShadowStaysPlain
  <1>12. AutoNeedsExtra'
    BY <1>2, <1>4 DEF AutoNeedsExtra
  <1>13. WorkerInv'
    BY <1>2 DEF WorkerInv, WorkerClean, FillsToCome, StartsFirst, NoAutoSteps
  <1>14. ErrorsShow'
    BY <1>2, <1>5, InvParts DEF ErrorsShow
  <1>15. DropsToCome'
    BY <1>2, <1>5, <1>3, InvParts DEF DropsToCome
  <1>16. StopsToCome'
    BY <1>2, <1>5, <1>3, InvParts DEF StopsToCome
  <1>17. RemovesToCome'
    BY <1>2, <1>5, <1>3, InvParts DEF RemovesToCome
  <1>18. ReloadToCome'
    BY <1>2 DEF ReloadToCome
  <1>19. EndToCome'
    BY <1>5 DEF EndToCome
  <1>20. AfterInv'
    BY <1>2 DEF AfterInv, AutoIsOver, PassStays, EndsRestored
  <1>21. QED
    BY <1>2, <1>6, <1>7, <1>8, <1>9, <1>10, <1>11, <1>12, <1>13, <1>14, <1>15, <1>16, <1>17, <1>18, <1>19,
       <1>20 DEF SupervisedInv, UnitsInv, AutoInv, WorkerInv, RecoveryInv, AfterInv

\* The recovery is ended by its limit.
LEMMA RecoveryKilledKeeps == ASSUME SupervisedInv, RecoveryKilled PROVE SupervisedInv'
  <1>1. SessionTypeOK
    BY DEF SupervisedInv
  <1>2. ScriptInv' /\ phase' = "none" /\ kind' = kind /\ todo' = <<>>
    BY ShortScripts DEF RecoveryKilled, ScriptInv
  <1>3. /\ phase = "recovery" /\ killed' = TRUE /\ mishaps' \in 0 .. MaxMishaps
        /\ UNCHANGED <<runs, stopping, dropin, extra, manifest, loaded, marker, window, pinned, errors, report,
                       sessions, upset>>
    BY <1>1, MishapCounts DEF RecoveryKilled, files, wire, records
  <1>4. SessionTypeOK'
    <2>1. \A i \in DOMAIN todo' : todo'[i][1] \in Ops /\ todo'[i][2] \in Units \cup {"-"}
      BY <1>2, CommandTypes DEF ScriptInv
    <2>2. runs' \in [Units -> Images] /\ \A p \in Producers : runs'[p] # "auto"
      BY <1>1, <1>3, TypeParts DEF Images
    <2>3. stopping' \subseteq {u \in Units : runs'[u] # "off"}
      BY <1>1, <1>3, TypeParts
    <2>4. window' => marker' = "P300" /\ runs'[Main] = "auto"
      BY <1>1, <1>3, TypeParts
    <2>5. /\ dropin' \in [Units -> Files] /\ extra' \in Files /\ manifest' \in Files
          /\ loaded' \in [Units -> Images \ {"off"}]
      BY <1>1, <1>3 DEF SessionTypeOK, Files
    <2>6. QED
      BY <1>1, <1>2, <1>3, <2>1, <2>2, <2>3, <2>4, <2>5 DEF SessionTypeOK
  <1>5. PlainUnits'
    BY <1>1, <1>2, <1>3, TypeParts, InvParts DEF PlainUnits
  <1>6. WrappedProducers'
    BY <1>1, <1>2, <1>3, TypeParts, InvParts DEF WrappedProducers
  <1>7. ExtraOnOverrides'
    BY <1>1, <1>2, <1>3, TypeParts, InvParts DEF ExtraOnOverrides
  <1>8. WindowOnlyWrapped'
    BY <1>1, <1>2, <1>3, TypeParts, InvParts DEF WindowOnlyWrapped
  <1>9. AutoInv'
    BY <1>2 DEF AutoInv, ShadowStaysPlain, AutoNeedsExtra
  <1>10. WorkerInv'
    BY <1>2 DEF WorkerInv, WorkerClean, FillsToCome, StartsFirst, NoAutoSteps
  <1>11. RecoveryInv'
    BY <1>2 DEF RecoveryInv, ErrorsShow, DropsToCome, StopsToCome, RemovesToCome, ReloadToCome, EndToCome
  <1>12. AutoIsOver'
    BY <1>3 DEF AutoIsOver
  <1>13. PassStays'
    BY <1>3, InvParts DEF PassStays, ErrorsShow
  <1>14. EndsRestored'
    BY <1>3 DEF EndsRestored
  <1>15. QED
    BY <1>2, <1>4, <1>5, <1>6, <1>7, <1>8, <1>9, <1>10, <1>11, <1>12, <1>13, <1>14 DEF SupervisedInv, UnitsInv,
       AutoInv, WorkerInv, RecoveryInv, AfterInv

\* The power is lost: every unit starts from its files.
LEMMA PowerLossKeeps == ASSUME SupervisedInv, PowerLoss PROVE SupervisedInv'
  <1>1. SessionTypeOK
    BY DEF SupervisedInv
  <1>2. ScriptInv' /\ phase' = "none" /\ kind' = kind /\ todo' = <<>>
    BY ShortScripts DEF PowerLoss, ScriptInv
  <1>3. /\ \A u \in Units : (dropin[u] # "full" => runs'[u] = "original") /\ runs'[u] # "off" /\ runs'[u] \in Images
        /\ \A p \in Producers : runs'[p] \in {"original", "shadow"}
        /\ runs' = loaded' /\ runs' \in [Units -> Images \ {"off"}]
    BY <1>1, TypeParts DEF PowerLoss, FromFiles, Images
  <1>4. report = "PASS" => /\ extra = "none" /\ marker # "P300" /\ phase = "none"
        /\ (\A u \in Units : dropin[u] = "none")
    BY <1>1, InvParts DEF PassStays, ErrorsShow, WorkerClean, SessionTypeOK
  <1>5. /\ killed' = TRUE /\ mishaps' \in 0 .. MaxMishaps /\ stopping' = {} /\ window' = FALSE /\ pinned' = FALSE
        /\ UNCHANGED <<dropin, extra, manifest, marker, errors, report, sessions, upset>>
    BY <1>1, MishapCounts DEF PowerLoss, files
  <1>6. SessionTypeOK'
    <2>1. \A i \in DOMAIN todo' : todo'[i][1] \in Ops /\ todo'[i][2] \in Units \cup {"-"}
      BY <1>2, CommandTypes DEF ScriptInv
    <2>2. runs' \in [Units -> Images] /\ \A p \in Producers : runs'[p] # "auto"
      BY <1>3 DEF Images
    <2>3. stopping' \subseteq {u \in Units : runs'[u] # "off"}
      BY <1>1, <1>5, TypeParts
    <2>4. window' => marker' = "P300" /\ runs'[Main] = "auto"
      BY <1>1, <1>5, TypeParts
    <2>5. /\ dropin' \in [Units -> Files] /\ extra' \in Files /\ manifest' \in Files
          /\ loaded' \in [Units -> Images \ {"off"}]
      BY <1>1, <1>5, <1>3 DEF SessionTypeOK
    <2>6. QED
      BY <1>1, <1>2, <1>5, <2>1, <2>2, <2>3, <2>4, <2>5 DEF SessionTypeOK
  <1>7. PlainUnits'
    BY <1>5, <1>3, <1>1, InvParts DEF PlainUnits, SessionTypeOK, Files
  <1>8. WrappedProducers'
    BY <1>3 DEF WrappedProducers
  <1>9. ExtraOnOverrides'
    BY <1>5, InvParts DEF ExtraOnOverrides
  <1>10. WindowOnlyWrapped'
    BY <1>5 DEF WindowOnlyWrapped
  <1>11. AutoInv'
    BY <1>2 DEF AutoInv, ShadowStaysPlain, AutoNeedsExtra
  <1>12. WorkerInv'
    BY <1>2 DEF WorkerInv, WorkerClean, FillsToCome, StartsFirst, NoAutoSteps
  <1>13. RecoveryInv'
    BY <1>2 DEF RecoveryInv, ErrorsShow, DropsToCome, StopsToCome, RemovesToCome, ReloadToCome, EndToCome
  <1>14. AutoIsOver'
    BY <1>5 DEF AutoIsOver
  <1>15. PassStays'
    BY <1>5, <1>3, <1>4 DEF PassStays
  <1>16. EndsRestored'
    BY <1>5 DEF EndsRestored
  <1>17. QED
    BY <1>2, <1>6, <1>7, <1>8, <1>9, <1>10, <1>11, <1>12, <1>13, <1>14, <1>15, <1>16 DEF SupervisedInv, UnitsInv,
       AutoInv, WorkerInv, RecoveryInv, AfterInv

\* A session begins on a clean system.
LEMMA LaunchKeeps == ASSUME SupervisedInv, NEW k \in {"shadow", "auto"}, Launch(k) PROVE SupervisedInv'
  <1>1. SessionTypeOK
    BY DEF SupervisedInv
  <1>2. /\ phase = "none" /\ phase' = "worker" /\ kind' = k
        /\ ScriptInv' /\ (\A u \in Units : <<"fill", u>> \in Left')
        /\ k = "shadow" => \A c \in Left' : c[1] \notin AutoOps
    <2>1. phase = "none" /\ phase' = "worker" /\ kind' = k /\ todo' = WorkerScript(k)
      BY DEF Launch, Begins
    <2>2. QED
      BY <2>1, WorkerRun DEF ScriptInv, Left
  <1>3. /\ stopping = {} /\ extra = "none" /\ manifest = "none"
        /\ \A u \in Units : dropin[u] = "none" /\ runs[u] = "original" /\ loaded[u] = "original"
    <2>1. \A u \in Units : dropin[u] = "none" /\ runs[u] # "off" /\ u \notin stopping
      BY DEF Launch, AllActive, Active
    <2>2. manifest = "none"
      BY DEF Launch
    <2>3. QED
      BY <1>1, <2>1, <2>2, TypeParts, InvParts DEF PlainUnits, ExtraOnOverrides, SessionTypeOK, Files
  <1>4. sessions' \in 0 .. MaxSessions
    BY <1>1, CanaryAssumption DEF Launch, Begins, SessionTypeOK
  <1>5. /\ pinned' = FALSE /\ errors' = FALSE /\ report' = "none" /\ upset' = FALSE
        /\ UNCHANGED <<runs, stopping, dropin, extra, manifest, loaded, marker, window, mishaps, killed>>
    BY DEF Launch, Begins, files
  <1>6. SessionTypeOK'
    <2>1. \A i \in DOMAIN todo' : todo'[i][1] \in Ops /\ todo'[i][2] \in Units \cup {"-"}
      BY <1>2, CommandTypes DEF ScriptInv
    <2>2. runs' \in [Units -> Images] /\ \A p \in Producers : runs'[p] # "auto"
      BY <1>1, <1>5, TypeParts DEF Images
    <2>3. stopping' \subseteq {u \in Units : runs'[u] # "off"}
      BY <1>1, <1>5, TypeParts
    <2>4. window' => marker' = "P300" /\ runs'[Main] = "auto"
      BY <1>1, <1>5, TypeParts
    <2>5. /\ dropin' \in [Units -> Files] /\ extra' \in Files /\ manifest' \in Files
          /\ loaded' \in [Units -> Images \ {"off"}]
      BY <1>1, <1>5 DEF SessionTypeOK, Files
    <2>6. QED
      BY <1>1, <1>2, <1>5, <2>1, <2>2, <2>3, <2>4, <2>5, <1>4 DEF SessionTypeOK
  <1>7. PlainUnits'
    BY <1>1, <1>2, <1>5, TypeParts, InvParts DEF PlainUnits
  <1>8. WrappedProducers'
    BY <1>1, <1>2, <1>5, TypeParts, InvParts DEF WrappedProducers
  <1>9. ExtraOnOverrides'
    BY <1>1, <1>2, <1>5, TypeParts, InvParts DEF ExtraOnOverrides
  <1>10. WindowOnlyWrapped'
    BY <1>1, <1>2, <1>5, TypeParts, InvParts DEF WindowOnlyWrapped
  <1>11. ShadowStaysPlain'
    BY <1>5, <1>3, <1>1, TypeParts DEF ShadowStaysPlain
  <1>12. AutoNeedsExtra'
    BY <1>5, <1>3, <1>1, TypeParts DEF AutoNeedsExtra
  <1>13. WorkerClean'
    BY <1>5, <1>3 DEF WorkerClean
  <1>14. FillsToCome'
    BY <1>2 DEF FillsToCome
  <1>15. StartsFirst'
    BY <1>5, <1>3 DEF StartsFirst
  <1>16. NoAutoSteps'
    <2>1. kind' = "shadow" => \A c \in Left' : c[1] \notin {"enroll", "fill manifest", "create extra", "fill extra"}
      BY <1>2 DEF AutoOps
    <2>2. \A op : <<op, "-">>[1] = op
      OBVIOUS
    <2>3. QED
      BY <2>1, <2>2 DEF NoAutoSteps
  <1>17. ErrorsShow'
    BY <1>1, <1>2, <1>5, TypeParts, InvParts DEF ErrorsShow
  <1>18. DropsToCome'
    BY <1>1, <1>2, <1>5, TypeParts, InvParts DEF DropsToCome
  <1>19. StopsToCome'
    BY <1>1, <1>2, <1>5, TypeParts, InvParts DEF StopsToCome
  <1>20. RemovesToCome'
    BY <1>1, <1>2, <1>5, TypeParts, InvParts DEF RemovesToCome
  <1>21. ReloadToCome'
    BY <1>1, <1>2, <1>5, TypeParts, InvParts DEF ReloadToCome
  <1>22. EndToCome'
    BY <1>1, <1>2, <1>5, TypeParts, InvParts DEF EndToCome
  <1>23. AutoIsOver'
    BY <1>1, <1>2, <1>5, TypeParts, InvParts DEF AutoIsOver
  <1>24. PassStays'
    BY <1>1, <1>2, <1>5, TypeParts, InvParts DEF PassStays
  <1>25. EndsRestored'
    BY <1>1, <1>2, <1>5, TypeParts, InvParts DEF EndsRestored
  <1>26. QED
    BY <1>2, <1>6, <1>7, <1>8, <1>9, <1>10, <1>11, <1>12, <1>13, <1>14, <1>15, <1>16, <1>17, <1>18, <1>19, <1>20,
       <1>21, <1>22, <1>23, <1>24, <1>25 DEF SupervisedInv, UnitsInv, AutoInv, WorkerInv, RecoveryInv, AfterInv

\* A stop that had timed out ends after all.
LEMMA StopEndsKeeps == ASSUME SupervisedInv, NEW v \in Units, StopEnds(v) PROVE SupervisedInv'
  <1>1. SessionTypeOK
    BY DEF SupervisedInv
  <1>2. ScriptInv' /\ phase' = phase /\ kind' = kind /\ todo' = todo /\ Left' = Left
    BY InvParts DEF StopEnds, script, ScriptInv, Left
  <1>3. /\ v \in stopping /\ runs' = [runs EXCEPT ![v] = "off"] /\ stopping' = stopping \ {v}
        /\ window' = (window /\ v # Main) /\ pinned' = (pinned /\ v # Main)
        /\ UNCHANGED <<dropin, extra, manifest, loaded, marker, errors, report, sessions, mishaps, killed, upset>>
    BY <1>1, TypeParts DEF StopEnds, Stopped, ProcessEnds, files, bounds, observed
  <1>4. SessionTypeOK'
    <2>1. \A i \in DOMAIN todo' : todo'[i][1] \in Ops /\ todo'[i][2] \in Units \cup {"-"}
      BY <1>2, CommandTypes DEF ScriptInv
    <2>2. runs' \in [Units -> Images] /\ \A p \in Producers : runs'[p] # "auto"
      BY <1>1, <1>3, TypeParts DEF Images
    <2>3. stopping' \subseteq {u \in Units : runs'[u] # "off"}
      BY <1>1, <1>3, TypeParts
    <2>4. window' => marker' = "P300" /\ runs'[Main] = "auto"
      BY <1>1, <1>3, TypeParts
    <2>5. /\ dropin' \in [Units -> Files] /\ extra' \in Files /\ manifest' \in Files
          /\ loaded' \in [Units -> Images \ {"off"}]
      BY <1>1, <1>3 DEF SessionTypeOK, Files
    <2>6. QED
      BY <1>1, <1>2, <1>3, <2>1, <2>2, <2>3, <2>4, <2>5 DEF SessionTypeOK
  <1>5. PlainUnits'
    BY <1>1, <1>2, <1>3, TypeParts, InvParts DEF PlainUnits
  <1>6. WrappedProducers'
    BY <1>1, <1>2, <1>3, TypeParts, InvParts DEF WrappedProducers
  <1>7. ExtraOnOverrides'
    BY <1>1, <1>2, <1>3, TypeParts, InvParts DEF ExtraOnOverrides
  <1>8. WindowOnlyWrapped'
    BY <1>1, <1>2, <1>3, TypeParts, InvParts DEF WindowOnlyWrapped
  <1>9. ShadowStaysPlain'
    BY <1>1, <1>2, <1>3, TypeParts, InvParts DEF ShadowStaysPlain
  <1>10. AutoNeedsExtra'
    BY <1>1, <1>2, <1>3, TypeParts, InvParts DEF AutoNeedsExtra
  <1>11. WorkerClean'
    BY <1>1, <1>2, <1>3, TypeParts, InvParts DEF WorkerClean
  <1>12. FillsToCome'
    BY <1>1, <1>2, <1>3, TypeParts, InvParts DEF FillsToCome
  <1>13. StartsFirst'
    BY <1>1, <1>2, <1>3, TypeParts, InvParts DEF StartsFirst
  <1>14. NoAutoSteps'
    BY <1>1, <1>2, <1>3, TypeParts, InvParts DEF NoAutoSteps
  <1>15. ErrorsShow'
    BY <1>1, <1>2, <1>3, TypeParts, InvParts DEF ErrorsShow
  <1>16. DropsToCome'
    BY <1>1, <1>2, <1>3, TypeParts, InvParts DEF DropsToCome
  <1>17. StopsToCome'
    BY <1>1, <1>2, <1>3, TypeParts, InvParts DEF StopsToCome
  <1>18. RemovesToCome'
    BY <1>1, <1>2, <1>3, TypeParts, InvParts DEF RemovesToCome
  <1>19. ReloadToCome'
    BY <1>1, <1>2, <1>3, TypeParts, InvParts DEF ReloadToCome
  <1>20. EndToCome'
    BY <1>2, <1>3, InvParts DEF EndToCome, ErrorsShow
  <1>21. AutoIsOver'
    BY <1>1, <1>2, <1>3, TypeParts, InvParts DEF AutoIsOver
  <1>22. PassStays'
    BY <1>2, <1>3, InvParts DEF PassStays
  <1>23. EndsRestored'
    BY <1>1, <1>2, <1>3, TypeParts, InvParts DEF EndsRestored
  <1>24. QED
    BY <1>2, <1>4, <1>5, <1>6, <1>7, <1>8, <1>9, <1>10, <1>11, <1>12, <1>13, <1>14, <1>15, <1>16, <1>17, <1>18,
       <1>19, <1>20, <1>21, <1>22, <1>23 DEF SupervisedInv, UnitsInv, AutoInv, WorkerInv, RecoveryInv, AfterInv

\* A crashed service comes back as what systemd has loaded.
LEMMA CrashKeeps == ASSUME SupervisedInv, NEW v \in Units, Crash(v) PROVE SupervisedInv'
  <1>1. SessionTypeOK
    BY DEF SupervisedInv
  <1>2. ScriptInv' /\ phase' = phase /\ kind' = kind /\ todo' = todo /\ Left' = Left
    BY InvParts DEF Crash, script, ScriptInv, Left
  <1>3. /\ runs[v] # "off" /\ v \notin stopping /\ runs' = [runs EXCEPT ![v] = loaded[v]]
        /\ window' = (window /\ v # Main) /\ pinned' = (pinned /\ v # Main) /\ mishaps' \in 0 .. MaxMishaps
        /\ UNCHANGED <<stopping, dropin, extra, manifest, loaded, marker, errors, report, sessions, killed, upset>>
    BY <1>1, TypeParts, MishapCounts DEF Crash, ProcessEnds, files, observed
  <1>4. SessionTypeOK'
    <2>1. \A i \in DOMAIN todo' : todo'[i][1] \in Ops /\ todo'[i][2] \in Units \cup {"-"}
      BY <1>2, CommandTypes DEF ScriptInv
    <2>2. runs' \in [Units -> Images] /\ \A p \in Producers : runs'[p] # "auto"
      BY <1>1, <1>3, TypeParts, InvParts DEF WrappedProducers, Images
    <2>3. stopping' \subseteq {u \in Units : runs'[u] # "off"}
      BY <1>1, <1>3, TypeParts
    <2>4. window' => marker' = "P300" /\ runs'[Main] = "auto"
      BY <1>1, <1>3, TypeParts
    <2>5. /\ dropin' \in [Units -> Files] /\ extra' \in Files /\ manifest' \in Files
          /\ loaded' \in [Units -> Images \ {"off"}]
      BY <1>1, <1>3 DEF SessionTypeOK, Files
    <2>6. QED
      BY <1>1, <1>2, <1>3, <2>1, <2>2, <2>3, <2>4, <2>5 DEF SessionTypeOK
  <1>5. PlainUnits'
    BY <1>1, <1>2, <1>3, TypeParts, InvParts DEF PlainUnits
  <1>6. WrappedProducers'
    BY <1>1, <1>2, <1>3, TypeParts, InvParts DEF WrappedProducers
  <1>7. ExtraOnOverrides'
    BY <1>1, <1>2, <1>3, TypeParts, InvParts DEF ExtraOnOverrides
  <1>8. WindowOnlyWrapped'
    BY <1>1, <1>2, <1>3, TypeParts, InvParts DEF WindowOnlyWrapped, WrappedProducers, Images
  <1>9. ShadowStaysPlain'
    BY <1>1, <1>2, <1>3, TypeParts, InvParts DEF ShadowStaysPlain
  <1>10. AutoNeedsExtra'
    BY <1>1, <1>2, <1>3, TypeParts, InvParts DEF AutoNeedsExtra
  <1>11. WorkerClean'
    BY <1>1, <1>2, <1>3, TypeParts, InvParts DEF WorkerClean
  <1>12. FillsToCome'
    BY <1>1, <1>2, <1>3, TypeParts, InvParts DEF FillsToCome
  <1>13. StartsFirst'
    BY <1>1, <1>2, <1>3, TypeParts, InvParts DEF StartsFirst
  <1>14. NoAutoSteps'
    BY <1>1, <1>2, <1>3, TypeParts, InvParts DEF NoAutoSteps
  <1>15. ErrorsShow'
    BY <1>1, <1>2, <1>3, TypeParts, InvParts DEF ErrorsShow
  <1>16. DropsToCome'
    BY <1>1, <1>2, <1>3, TypeParts, InvParts DEF DropsToCome
  <1>17. StopsToCome'
    BY <1>1, <1>2, <1>3, TypeParts, InvParts DEF StopsToCome
  <1>18. RemovesToCome'
    BY <1>1, <1>2, <1>3, TypeParts, InvParts DEF RemovesToCome
  <1>19. ReloadToCome'
    BY <1>1, <1>2, <1>3, TypeParts, InvParts DEF ReloadToCome
  <1>20. EndToCome'
    BY <1>1, <1>2, <1>3, TypeParts, InvParts DEF EndToCome
  <1>21. AutoIsOver'
    BY <1>1, <1>2, <1>3, TypeParts, InvParts DEF AutoIsOver
  <1>22. PassStays'
    BY <1>1, <1>2, <1>3, TypeParts, InvParts DEF PassStays
  <1>23. EndsRestored'
    BY <1>1, <1>2, <1>3, TypeParts, InvParts DEF EndsRestored
  <1>24. QED
    BY <1>2, <1>4, <1>5, <1>6, <1>7, <1>8, <1>9, <1>10, <1>11, <1>12, <1>13, <1>14, <1>15, <1>16, <1>17, <1>18,
       <1>19, <1>20, <1>21, <1>22, <1>23 DEF SupervisedInv, UnitsInv, AutoInv, WorkerInv, RecoveryInv, AfterInv

\* A window opens: the marker is the splitter's, and the recovery has yet to stop it.
LEMMA OpenWindowKeeps == ASSUME SupervisedInv, OpenWindow PROVE SupervisedInv'
  <1>1. SessionTypeOK
    BY DEF SupervisedInv
  <1>2. ScriptInv' /\ phase' = phase /\ kind' = kind /\ todo' = todo /\ Left' = Left
    BY InvParts DEF OpenWindow, script, ScriptInv, Left
  <1>3. /\ runs[Main] = "auto" /\ window' = TRUE /\ marker' = "P300"
        /\ (\A p \in Producers : runs[p] = "shadow" /\ p \notin stopping)
        /\ UNCHANGED <<runs, stopping, dropin, extra, manifest, loaded, pinned, errors, report, sessions, mishaps,
                       killed, upset>>
    BY DEF OpenWindow, Attested, files, records, bounds, observed
  <1>4. phase = "recovery" /\ ~errors => <<"clear", "-">> \in Left
    <2>1. ASSUME phase = "recovery", ~errors PROVE <<"stop", Main>> \in Left
      BY <1>1, <1>3, <2>1, TypeParts, InvParts DEF ErrorsShow, StopsToCome
    <2>2. QED
      BY <2>1, StopsThenCloses, InvParts DEF Closing
  <1>5. SessionTypeOK'
    <2>1. \A i \in DOMAIN todo' : todo'[i][1] \in Ops /\ todo'[i][2] \in Units \cup {"-"}
      BY <1>2, CommandTypes DEF ScriptInv
    <2>2. runs' \in [Units -> Images] /\ \A p \in Producers : runs'[p] # "auto"
      BY <1>1, <1>3, TypeParts DEF Images
    <2>3. stopping' \subseteq {u \in Units : runs'[u] # "off"}
      BY <1>1, <1>3, TypeParts
    <2>4. window' => marker' = "P300" /\ runs'[Main] = "auto"
      BY <1>1, <1>3, TypeParts
    <2>5. /\ dropin' \in [Units -> Files] /\ extra' \in Files /\ manifest' \in Files
          /\ loaded' \in [Units -> Images \ {"off"}]
      BY <1>1, <1>3 DEF SessionTypeOK, Files
    <2>6. QED
      BY <1>1, <1>2, <1>3, <2>1, <2>2, <2>3, <2>4, <2>5 DEF SessionTypeOK
  <1>6. PlainUnits'
    BY <1>1, <1>2, <1>3, TypeParts, InvParts DEF PlainUnits
  <1>7. WrappedProducers'
    BY <1>1, <1>2, <1>3, TypeParts, InvParts DEF WrappedProducers
  <1>8. ExtraOnOverrides'
    BY <1>1, <1>2, <1>3, TypeParts, InvParts DEF ExtraOnOverrides
  <1>9. WindowOnlyWrapped'
    BY <1>1, <1>2, <1>3, TypeParts, InvParts DEF WindowOnlyWrapped
  <1>10. ShadowStaysPlain'
    BY <1>1, <1>2, <1>3, TypeParts, InvParts DEF ShadowStaysPlain
  <1>11. AutoNeedsExtra'
    BY <1>1, <1>2, <1>3, TypeParts, InvParts DEF AutoNeedsExtra
  <1>12. WorkerClean'
    BY <1>1, <1>2, <1>3, TypeParts, InvParts DEF WorkerClean
  <1>13. FillsToCome'
    BY <1>1, <1>2, <1>3, TypeParts, InvParts DEF FillsToCome
  <1>14. StartsFirst'
    BY <1>1, <1>2, <1>3, TypeParts, InvParts DEF StartsFirst
  <1>15. NoAutoSteps'
    BY <1>1, <1>2, <1>3, TypeParts, InvParts DEF NoAutoSteps
  <1>16. ErrorsShow'
    BY <1>1, <1>2, <1>3, TypeParts, InvParts DEF ErrorsShow
  <1>17. DropsToCome'
    BY <1>1, <1>2, <1>3, TypeParts, InvParts DEF DropsToCome
  <1>18. StopsToCome'
    BY <1>1, <1>2, <1>3, TypeParts, InvParts DEF StopsToCome
  <1>19. RemovesToCome'
    BY <1>1, <1>2, <1>3, TypeParts, InvParts DEF RemovesToCome
  <1>20. ReloadToCome'
    BY <1>1, <1>2, <1>3, TypeParts, InvParts DEF ReloadToCome
  <1>21. EndToCome'
    BY <1>2, <1>3, <1>4, InvParts DEF EndToCome
  <1>22. AutoIsOver'
    BY <1>1, <1>2, <1>3, TypeParts, InvParts DEF AutoIsOver
  <1>23. PassStays'
    BY <1>1, <1>2, <1>3, TypeParts, InvParts DEF PassStays
  <1>24. EndsRestored'
    BY <1>1, <1>2, <1>3, TypeParts, InvParts DEF EndsRestored
  <1>25. QED
    BY <1>2, <1>5, <1>6, <1>7, <1>8, <1>9, <1>10, <1>11, <1>12, <1>13, <1>14, <1>15, <1>16, <1>17, <1>18, <1>19,
       <1>20, <1>21, <1>22, <1>23, <1>24 DEF SupervisedInv, UnitsInv, AutoInv, WorkerInv, RecoveryInv, AfterInv

\* It closes.
LEMMA CloseWindowKeeps == ASSUME SupervisedInv, CloseWindow PROVE SupervisedInv'
  <1>1. SessionTypeOK
    BY DEF SupervisedInv
  <1>2. ScriptInv' /\ phase' = phase /\ kind' = kind /\ todo' = todo /\ Left' = Left
    BY InvParts DEF CloseWindow, script, ScriptInv, Left
  <1>3. window' = FALSE /\ marker' = "empty" /\ UNCHANGED <<runs, stopping, dropin, extra, manifest, loaded,
                                                            pinned, errors, report, sessions, mishaps, killed, upset>>
    BY DEF CloseWindow, files, records, bounds, observed
  <1>4. SessionTypeOK'
    <2>1. \A i \in DOMAIN todo' : todo'[i][1] \in Ops /\ todo'[i][2] \in Units \cup {"-"}
      BY <1>2, CommandTypes DEF ScriptInv
    <2>2. runs' \in [Units -> Images] /\ \A p \in Producers : runs'[p] # "auto"
      BY <1>1, <1>3, TypeParts DEF Images
    <2>3. stopping' \subseteq {u \in Units : runs'[u] # "off"}
      BY <1>1, <1>3, TypeParts
    <2>4. window' => marker' = "P300" /\ runs'[Main] = "auto"
      BY <1>1, <1>3, TypeParts
    <2>5. /\ dropin' \in [Units -> Files] /\ extra' \in Files /\ manifest' \in Files
          /\ loaded' \in [Units -> Images \ {"off"}]
      BY <1>1, <1>3 DEF SessionTypeOK, Files
    <2>6. QED
      BY <1>1, <1>2, <1>3, <2>1, <2>2, <2>3, <2>4, <2>5 DEF SessionTypeOK
  <1>5. PlainUnits'
    BY <1>1, <1>2, <1>3, TypeParts, InvParts DEF PlainUnits
  <1>6. WrappedProducers'
    BY <1>1, <1>2, <1>3, TypeParts, InvParts DEF WrappedProducers
  <1>7. ExtraOnOverrides'
    BY <1>1, <1>2, <1>3, TypeParts, InvParts DEF ExtraOnOverrides
  <1>8. WindowOnlyWrapped'
    BY <1>1, <1>2, <1>3, TypeParts, InvParts DEF WindowOnlyWrapped
  <1>9. ShadowStaysPlain'
    BY <1>1, <1>2, <1>3, TypeParts, InvParts DEF ShadowStaysPlain
  <1>10. AutoNeedsExtra'
    BY <1>1, <1>2, <1>3, TypeParts, InvParts DEF AutoNeedsExtra
  <1>11. WorkerClean'
    BY <1>1, <1>2, <1>3, TypeParts, InvParts DEF WorkerClean
  <1>12. FillsToCome'
    BY <1>1, <1>2, <1>3, TypeParts, InvParts DEF FillsToCome
  <1>13. StartsFirst'
    BY <1>1, <1>2, <1>3, TypeParts, InvParts DEF StartsFirst
  <1>14. NoAutoSteps'
    BY <1>1, <1>2, <1>3, TypeParts, InvParts DEF NoAutoSteps
  <1>15. ErrorsShow'
    BY <1>1, <1>2, <1>3, TypeParts, InvParts DEF ErrorsShow
  <1>16. DropsToCome'
    BY <1>1, <1>2, <1>3, TypeParts, InvParts DEF DropsToCome
  <1>17. StopsToCome'
    BY <1>1, <1>2, <1>3, TypeParts, InvParts DEF StopsToCome
  <1>18. RemovesToCome'
    BY <1>1, <1>2, <1>3, TypeParts, InvParts DEF RemovesToCome
  <1>19. ReloadToCome'
    BY <1>1, <1>2, <1>3, TypeParts, InvParts DEF ReloadToCome
  <1>20. EndToCome'
    BY <1>1, <1>2, <1>3, TypeParts, InvParts DEF EndToCome
  <1>21. AutoIsOver'
    BY <1>1, <1>2, <1>3, TypeParts, InvParts DEF AutoIsOver
  <1>22. PassStays'
    BY <1>1, <1>2, <1>3, TypeParts, InvParts DEF PassStays
  <1>23. EndsRestored'
    BY <1>1, <1>2, <1>3, TypeParts, InvParts DEF EndsRestored
  <1>24. QED
    BY <1>2, <1>4, <1>5, <1>6, <1>7, <1>8, <1>9, <1>10, <1>11, <1>12, <1>13, <1>14, <1>15, <1>16, <1>17, <1>18,
       <1>19, <1>20, <1>21, <1>22, <1>23 DEF SupervisedInv, UnitsInv, AutoInv, WorkerInv, RecoveryInv, AfterInv

\* A window fails, or a writer latches its marker.
LEMMA LatchKeeps == ASSUME SupervisedInv, Latch PROVE SupervisedInv'
  <1>1. SessionTypeOK
    BY DEF SupervisedInv
  <1>2. ScriptInv' /\ phase' = phase /\ kind' = kind /\ todo' = todo /\ Left' = Left
    BY InvParts DEF Latch, script, ScriptInv, Left
  <1>3. /\ window' = FALSE /\ marker' \in {marker, "writer"} /\ mishaps' \in 0 .. MaxMishaps
        /\ UNCHANGED <<runs, stopping, dropin, extra, manifest, loaded, pinned, errors, report, sessions, killed,
                       upset>>
    BY <1>1, MishapCounts DEF Latch, files, records, observed, SessionTypeOK
  <1>4. SessionTypeOK'
    <2>1. \A i \in DOMAIN todo' : todo'[i][1] \in Ops /\ todo'[i][2] \in Units \cup {"-"}
      BY <1>2, CommandTypes DEF ScriptInv
    <2>2. runs' \in [Units -> Images] /\ \A p \in Producers : runs'[p] # "auto"
      BY <1>1, <1>3, TypeParts DEF Images
    <2>3. stopping' \subseteq {u \in Units : runs'[u] # "off"}
      BY <1>1, <1>3, TypeParts
    <2>4. window' => marker' = "P300" /\ runs'[Main] = "auto"
      BY <1>1, <1>3, TypeParts
    <2>5. /\ dropin' \in [Units -> Files] /\ extra' \in Files /\ manifest' \in Files
          /\ loaded' \in [Units -> Images \ {"off"}]
      BY <1>1, <1>3 DEF SessionTypeOK, Files
    <2>6. QED
      BY <1>1, <1>2, <1>3, <2>1, <2>2, <2>3, <2>4, <2>5 DEF SessionTypeOK
  <1>5. PlainUnits'
    BY <1>1, <1>2, <1>3, TypeParts, InvParts DEF PlainUnits
  <1>6. WrappedProducers'
    BY <1>1, <1>2, <1>3, TypeParts, InvParts DEF WrappedProducers
  <1>7. ExtraOnOverrides'
    BY <1>1, <1>2, <1>3, TypeParts, InvParts DEF ExtraOnOverrides
  <1>8. WindowOnlyWrapped'
    BY <1>1, <1>2, <1>3, TypeParts, InvParts DEF WindowOnlyWrapped
  <1>9. ShadowStaysPlain'
    BY <1>1, <1>2, <1>3, TypeParts, InvParts DEF ShadowStaysPlain
  <1>10. AutoNeedsExtra'
    BY <1>1, <1>2, <1>3, TypeParts, InvParts DEF AutoNeedsExtra
  <1>11. WorkerClean'
    BY <1>1, <1>2, <1>3, TypeParts, InvParts DEF WorkerClean
  <1>12. FillsToCome'
    BY <1>1, <1>2, <1>3, TypeParts, InvParts DEF FillsToCome
  <1>13. StartsFirst'
    BY <1>1, <1>2, <1>3, TypeParts, InvParts DEF StartsFirst
  <1>14. NoAutoSteps'
    BY <1>1, <1>2, <1>3, TypeParts, InvParts DEF NoAutoSteps
  <1>15. ErrorsShow'
    BY <1>1, <1>2, <1>3, TypeParts, InvParts DEF ErrorsShow
  <1>16. DropsToCome'
    BY <1>1, <1>2, <1>3, TypeParts, InvParts DEF DropsToCome
  <1>17. StopsToCome'
    BY <1>1, <1>2, <1>3, TypeParts, InvParts DEF StopsToCome
  <1>18. RemovesToCome'
    BY <1>1, <1>2, <1>3, TypeParts, InvParts DEF RemovesToCome
  <1>19. ReloadToCome'
    BY <1>1, <1>2, <1>3, TypeParts, InvParts DEF ReloadToCome
  <1>20. EndToCome'
    BY <1>1, <1>2, <1>3, TypeParts, InvParts DEF EndToCome
  <1>21. AutoIsOver'
    BY <1>1, <1>2, <1>3, TypeParts, InvParts DEF AutoIsOver
  <1>22. PassStays'
    BY <1>1, <1>2, <1>3, TypeParts, InvParts DEF PassStays
  <1>23. EndsRestored'
    BY <1>1, <1>2, <1>3, TypeParts, InvParts DEF EndsRestored
  <1>24. QED
    BY <1>2, <1>4, <1>5, <1>6, <1>7, <1>8, <1>9, <1>10, <1>11, <1>12, <1>13, <1>14, <1>15, <1>16, <1>17, <1>18,
       <1>19, <1>20, <1>21, <1>22, <1>23 DEF SupervisedInv, UnitsInv, AutoInv, WorkerInv, RecoveryInv, AfterInv

-----------------------------------------------------------------------------
\* Before the first session the originals run, and nothing is to be done.
LEMMA SupervisedInit == ASSUME SessionInit PROVE SupervisedInv
  <1>1. /\ runs \in [Units -> Images] /\ loaded \in [Units -> Images \ {"off"}] /\ dropin \in [Units -> Files]
        /\ stopping = {} /\ phase = "none" /\ report = "none" /\ sessions = 0 /\ todo = <<>> /\ extra = "none"
        /\ \A u \in Units : runs[u] = "original" /\ loaded[u] = "original"
        /\ Main \in Units /\ Producers \subseteq Units
    BY UnitFacts DEF SessionInit, Images, Files
  <1>2. SessionTypeOK
    <2>1. \A i \in DOMAIN todo : todo[i][1] \in Ops /\ todo[i][2] \in Units \cup {"-"}
      BY <1>1
    <2>2. sessions \in 0 .. MaxSessions /\ mishaps \in 0 .. MaxMishaps
      BY CanaryAssumption DEF SessionInit
    <2>3. QED
      BY <1>1, <2>1, <2>2 DEF SessionInit, SessionTypeOK, Files
  <1>3. ScriptInv
    BY <1>1, ShortScripts DEF ScriptInv
  <1>4. UnitsInv
    BY <1>1 DEF SessionInit, UnitsInv, PlainUnits, WrappedProducers, ExtraOnOverrides, WindowOnlyWrapped
  <1>5. AutoInv
    BY <1>1 DEF AutoInv, ShadowStaysPlain, AutoNeedsExtra
  <1>6. WorkerInv
    BY <1>1 DEF WorkerInv, WorkerClean, FillsToCome, StartsFirst, NoAutoSteps
  <1>7. RecoveryInv
    BY <1>1 DEF RecoveryInv, ErrorsShow, DropsToCome, StopsToCome, RemovesToCome, ReloadToCome, EndToCome
  <1>8. AfterInv
    BY <1>1 DEF AfterInv, AutoIsOver, PassStays, EndsRestored
  <1>9. QED
    BY <1>2, <1>3, <1>4, <1>5, <1>6, <1>7, <1>8 DEF SupervisedInv

\* Every step of a session preserves the invariant.
LEMMA SupervisedStep == ASSUME SupervisedInv, [SessionNext]_sessionVars PROVE SupervisedInv'
  <1>1. CASE \E k \in {"shadow", "auto"} : Launch(k)
    BY <1>1, LaunchKeeps
  <1>2. CASE Worker
    BY <1>2, StopKeeps, LookKeeps, CreateKeeps, FillKeeps, WriteExtraKeeps, ReloadKeeps, StartKeeps, RestartKeeps,
       WorkerEndsKeeps DEF Worker
  <1>3. CASE WorkerDies
    BY <1>3, WorkerEndsKeeps
  <1>4. CASE Recovery
    BY <1>4, DropExtraKeeps, DropExtraGivesUpKeeps, DropManifestKeeps, RemoveKeeps, GoOnKeeps, GoOnStopsKeeps,
       ClearKeeps, ReportKeeps DEF Recovery
  <1>5. CASE RecoveryFails \/ RecoveryKilled
    BY <1>5, StopTimesOutKeeps, CallFailsKeeps, RecoveryKilledKeeps
  <1>6. CASE Services
    BY <1>6, StopEndsKeeps, CrashKeeps, OpenWindowKeeps, CloseWindowKeeps, LatchKeeps, PowerLossKeeps DEF Services
  <1>7. CASE UNCHANGED sessionVars
    <2>1. /\ runs' = runs /\ stopping' = stopping /\ dropin' = dropin /\ extra' = extra /\ manifest' = manifest
          /\ loaded' = loaded /\ marker' = marker /\ window' = window
          /\ phase' = phase /\ kind' = kind /\ todo' = todo
          /\ pinned' = pinned /\ errors' = errors /\ report' = report
          /\ sessions' = sessions /\ mishaps' = mishaps /\ killed' = killed /\ upset' = upset
      BY <1>7 DEF sessionVars, files, wire, script, records, bounds, observed
    <2>2. SessionTypeOK' /\ ScriptInv' /\ Left' = Left
      BY <2>1 DEF SupervisedInv, SessionTypeOK, ScriptInv, Left
    <2>3. UnitsInv' /\ AutoInv'
      BY <2>1, <2>2 DEF SupervisedInv, UnitsInv, PlainUnits, WrappedProducers, ExtraOnOverrides, WindowOnlyWrapped,
         AutoInv, ShadowStaysPlain, AutoNeedsExtra
    <2>4. WorkerInv' /\ RecoveryInv'
      BY <2>1, <2>2 DEF SupervisedInv, WorkerInv, WorkerClean, FillsToCome, StartsFirst, NoAutoSteps, RecoveryInv,
         ErrorsShow, DropsToCome, StopsToCome, RemovesToCome, ReloadToCome, EndToCome
    <2>5. AfterInv'
      BY <2>1 DEF SupervisedInv, AfterInv, AutoIsOver, PassStays, EndsRestored
    <2>6. QED
      BY <2>2, <2>3, <2>4, <2>5 DEF SupervisedInv
  <1>8. QED
    BY <1>1, <1>2, <1>3, <1>4, <1>5, <1>6, <1>7 DEF SessionNext

\* The invariant of the supervised sessions holds always.
LEMMA Supervised == SessionSpec => []SupervisedInv
  <1>1. SessionInit => SupervisedInv
    BY SupervisedInit
  <1>2. SupervisedInv /\ [SessionNext]_sessionVars => SupervisedInv'
    BY SupervisedStep
  <1>3. QED
    BY <1>1, <1>2, PTL DEF SessionSpec

\* While a canary session is on, in whatever order its worker, its recovery, the crashes
\* and the power cuts come: the splitter speaks P300 only among wrapped producers, and
\* switches by itself only with somebody to stop it (verify_enrollment, launch, recover).
THEOREM CanaryIsSupervised == SessionSpec => []CanaryInv
  <1>1. SupervisedInv => CanaryInv
    <2>1. SupervisedInv => SessionTypeOK /\ WindowOnlyWrapped /\ AutoIsOver
      BY DEF SupervisedInv, UnitsInv, AfterInv
    <2>2. AutoIsOver => AutoIsSupervised
      BY DEF AutoIsOver, AutoIsSupervised
    <2>3. QED
      BY <2>1, <2>2 DEF CanaryInv
  <1>2. QED
    BY <1>1, Supervised, PTL

\* What recovery.json says is right both ways: PASS only with the original services and
\* nothing left, and PASS unless something went wrong (recover).
THEOREM CanaryReportIsRight == SessionSpec => []RecoveryIsRight
  <1>1. SupervisedInv => RecoveryIsRight
    <2>1. SupervisedInv => PassStays /\ EndsRestored
      BY DEF SupervisedInv, AfterInv
    <2>2. PassStays => PassIsTrue
      BY DEF PassStays, PassIsTrue
    <2>3. QED
      BY <2>1, <2>2 DEF RecoveryIsRight
  <1>2. QED
    BY <1>1, Supervised, PTL

\* A session is launched only while every original runs and the activating override is
\* not there, though the preflight does not look for it (preflight).
THEOREM CanaryStartsClean == SessionSpec => LaunchFindsClean
  <1> DEFINE Clean == sessions' # sessions => extra = "none" /\ \A u \in Units : runs[u] = "original"
  <1>1. SupervisedInv /\ [SessionNext]_sessionVars => [Clean]_sessionVars
    <2> SUFFICES ASSUME SupervisedInv, [SessionNext]_sessionVars, sessions' # sessions
                 PROVE  extra = "none" /\ \A u \in Units : runs[u] = "original"
      OBVIOUS
    <2>1. \E k \in {"shadow", "auto"} : Launch(k)
      BY DEF SessionNext, sessionVars, bounds, Worker, WorkerDies, Recovery, RecoveryFails, RecoveryKilled, Services,
         Stop, Provision, Create, Fill, WriteExtra, Reload, Start, RestartMain, Look, Watch, Measure,
         DropExtra, DropManifest, RemoveOverride, GoOn, Clear, Report,
         StopEnds, Crash, OpenWindow, CloseWindow, Latch, PowerLoss
    <2>2. \A u \in Units : dropin[u] = "none" /\ runs[u] # "off" /\ u \notin stopping
      BY <2>1 DEF Launch, AllActive, Active
    <2>3. SessionTypeOK /\ PlainUnits /\ ExtraOnOverrides
      BY InvParts DEF SupervisedInv
    <2>4. QED
      BY <2>2, <2>3, TypeParts DEF PlainUnits, ExtraOnOverrides, SessionTypeOK, Files
  <1>2. QED
    BY <1>1, Supervised, PTL DEF SessionSpec, LaunchFindsClean

\* The recovery brings up no service but an original one (recover).
THEOREM CanaryRecoversOriginals == SessionSpec => RecoveryStartsOriginals
  <1> DEFINE Originals == phase = "recovery" /\ mishaps' = mishaps =>
                              \A u \in Units : runs'[u] \in {runs[u], "off", "original"}
  <1>1. SupervisedInv /\ [SessionNext]_sessionVars => [Originals]_sessionVars
    <2> SUFFICES ASSUME SupervisedInv, SessionNext, phase = "recovery", mishaps' = mishaps, NEW u \in Units
                 PROVE  runs'[u] \in {runs[u], "off", "original"}
      OBVIOUS
    <2>0. runs \in [Units -> Images] /\ ~Mishap
      <3>1. SessionTypeOK
        BY DEF SupervisedInv
      <3>2. mishaps \in Nat
        BY <3>1, CanaryAssumption DEF SessionTypeOK
      <3>3. QED
        BY <3>1, <3>2, TypeParts DEF Mishap
    <2>1. \/ Stop \/ Start \/ \E v \in Units : StopEnds(v)
          \/ runs' = runs
      BY <2>0 DEF SessionNext, Worker, WorkerDies, Recovery, RecoveryFails, RecoveryKilled, Services, Launch, Doing,
         Provision, Create, Fill, WriteExtra, Reload, RestartMain, Look, Watch, Measure,
         DropExtra, DropManifest, RemoveOverride, GoOn, Clear, Report, Crash, OpenWindow, CloseWindow, Latch, PowerLoss
    <2>2. CASE Stop
      BY <2>0, <2>2 DEF Stop, Stopped
    <2>3. CASE Start
      <3>1. loaded[u] = "original"
        BY <2>3, RecoveryStarts
      <3>2. CASE runs[Unit] = "off"
        BY <2>0, <2>3, <3>1, <3>2 DEF Start, Started
      <3>3. CASE runs[Unit] # "off"
        BY <2>3, <3>3 DEF Start
      <3>4. QED
        BY <3>2, <3>3
    <2>4. CASE \E v \in Units : StopEnds(v)
      BY <2>0, <2>4 DEF StopEnds, Stopped
    <2>5. CASE runs' = runs
      BY <2>5
    <2>6. QED
      BY <2>1, <2>2, <2>3, <2>4, <2>5
  <1>2. QED
    BY <1>1, Supervised, PTL DEF SessionSpec, RecoveryStartsOriginals
=============================================================================
