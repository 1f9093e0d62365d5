---------------------------- MODULE ReadsProofs -----------------------------
(***************************************************************************)
(* Proofs about what is read when: the bounded queue of the hybrid runtime  *)
(* (ReadQueue), the poll list of the splitter (PollScheduler) and the reads *)
(* on demand with the contract their clients rely on (DemandPath).          *)
(***************************************************************************)
EXTENDS PollScheduler, ReadQueue, DemandPath, QueueLemmas, FiniteSetTheorems

-----------------------------------------------------------------------------
\* The queue.

Line ==
    /\ pending \in Seq(Tickets) /\ Len(pending) <= QueueCapacity /\ Distinct(pending)
States ==
    /\ ticket \in [Tickets -> {"none", "queued", "running"} \cup Final]
    /\ protocol \in [Tickets -> Modes] /\ ttl \in [Tickets -> 0 .. Ttl]
    /\ inflight \in Tickets \cup {0} /\ consumer \in Threads \cup {"none"}
    /\ closed \in BOOLEAN
Places ==
    /\ \A n \in Tickets : (ticket[n] = "queued") <=> (n \in ToSet(pending))
    /\ \A n \in Tickets : (ticket[n] = "running") <=> (n = inflight)

\* Reads that pass over a waiting one are reads of one protocol in a row, which the queue
\* counts.
Turns ==
    /\ lastMode \in Modes \cup {"none"} /\ sameCount \in Nat /\ passed \in Nat
    /\ passed <= sameCount /\ passed <= MaxSameMode

LineInv == Line /\ States /\ Places /\ Turns

\* The constants of the queue are numbers.
LEMMA QueueNumbers ==
    /\ QueueCapacity \in Nat \ {0} /\ MaxSameMode \in Nat \ {0} /\ Ttl \in Nat \ {0}
    /\ MaxTickets \in Nat /\ Tickets \subseteq Nat \ {0} /\ "none" \notin Threads
  BY QueueAssumption DEF Tickets

\* What _expire leaves is the queue without what is overdue.
LEMMA KeptMembers ==
    ASSUME Line
    PROVE  /\ Kept \in Seq(Tickets) /\ Distinct(Kept)
           /\ Len(Kept) <= Len(pending) /\ Len(Kept) \in Nat /\ Len(Kept) <= QueueCapacity
           /\ ToSet(Kept) = ToSet(pending) \ Overdue
           /\ Overdue \subseteq ToSet(pending) /\ ToSet(pending) \subseteq Tickets
  <1>1. /\ Kept \in Seq(Tickets) /\ Distinct(Kept) /\ Len(Kept) <= Len(pending)
        /\ ToSet(Kept) = ToSet(pending) \ Overdue
    BY WithoutMembers DEF Line, Kept
  <1>2. ToSet(pending) \subseteq Tickets
    BY Members DEF Line
  <1>3. Len(Kept) \in Nat /\ Len(pending) \in Nat
    BY <1>1 DEF Line
  <1>4. Len(Kept) <= QueueCapacity
    BY <1>1, <1>3, QueueNumbers DEF Line
  <1>5. QED
    BY <1>1, <1>2, <1>3, <1>4 DEF Overdue

\* A queue has an oldest ticket of each protocol that waits in it.
LEMMA OldestWaits ==
    ASSUME NEW queue \in Seq(Tickets), NEW m \in ModesOf(queue)
    PROVE  Oldest(queue, m) \in ToSet(queue) /\ protocol[Oldest(queue, m)] = m
  <1> DEFINE own == {n \in ToSet(queue) : protocol[n] = m}
  <1>1. own \in SUBSET Nat /\ own # {}
    BY Members, QueueNumbers DEF ModesOf
  <1>2. PICK least \in own : \A n \in own : least <= n
    <2> HIDE DEF own
    <2> QED
      BY <1>1, LeastNumber
  <1>3. \E n \in ToSet(queue) : protocol[n] = m /\ \A k \in ToSet(queue) : protocol[k] = m => n <= k
    BY <1>2
  <1>4. QED
    BY <1>3 DEF Oldest

\* The protocol of the next read is one that waits; it is the last one's again, with the
\* other waiting, only while the other's turn has not come.
LEMMA DesiredWaits ==
    ASSUME NEW queue \in Seq(Tickets), queue # <<>>, NEW preferred, Turns,
           protocol \in [Tickets -> Modes]
    PROVE  LET m == Desired(preferred, queue)
           IN  /\ m \in ModesOf(queue) /\ m \in Modes
               /\ m = lastMode /\ ModesOf(queue) \ {m} # {} => sameCount < MaxSameMode
  <1> DEFINE others == ModesOf(queue) \ {lastMode}
             turn   == lastMode # "none" /\ sameCount >= MaxSameMode /\ others # {}
             m      == Desired(preferred, queue)
  <1>1. ModesOf(queue) \subseteq Modes /\ protocol[Head(queue)] \in ModesOf(queue)
    <2>1. Head(queue) \in ToSet(queue) /\ ToSet(queue) \subseteq Tickets
      BY TailMembers, Members
    <2>2. QED
      BY <2>1 DEF ModesOf
  <1>2. CASE turn
    <2>1. m \in others
      <3>1. m = CHOOSE n \in others : TRUE
        BY <1>2 DEF Desired
      <3>2. \E n \in others : TRUE
        BY <1>2
      <3>3. QED
        BY <3>1, <3>2
    <2>2. QED
      BY <1>1, <2>1
  <1>3. CASE ~turn
    <2>1. m = IF preferred \in ModesOf(queue) THEN preferred ELSE protocol[Head(queue)]
      BY <1>3 DEF Desired
    <2>2. m \in ModesOf(queue) /\ m \in Modes
      BY <1>1, <2>1
    <2>3. ASSUME m = lastMode, ModesOf(queue) \ {m} # {} PROVE sameCount < MaxSameMode
      <3>1. lastMode # "none"
        BY <2>2, <2>3 DEF Modes
      <3>2. ~(sameCount >= MaxSameMode)
        BY <1>3, <2>3, <3>1
      <3>3. QED
        BY <3>2, QueueNumbers DEF Turns
    <2>4. QED
      BY <2>2, <2>3
  <1>4. QED
    BY <1>2, <1>3

\* Deadlines of tickets that no longer wait are forgotten, the others kept.
LEMMA DeadlinesType ==
    ASSUME States, Deadlines
    PROVE  ttl' \in [Tickets -> 0 .. Ttl]
  <1>1. 0 \in 0 .. Ttl
    BY QueueNumbers
  <1>2. \A n \in Tickets : (IF n \in ToSet(pending') THEN ttl[n] ELSE 0) \in 0 .. Ttl
    BY <1>1 DEF States
  <1>3. QED
    BY <1>2 DEF Deadlines

\* Expiry changes the states of waiting tickets only, and of those that leave the queue.
LEMMA ExpireStates ==
    ASSUME States, Line, Places
    PROVE  /\ Expire \in [Tickets -> {"none", "queued", "running"} \cup Final]
           /\ \A n \in Tickets : (Expire[n] = "queued") <=> (n \in ToSet(Kept))
           /\ \A n \in Tickets : (Expire[n] = "running") <=> (n = inflight)
           /\ \A n \in Tickets : ticket[n] # "queued" => Expire[n] = ticket[n]
  <1>1. \A n \in Tickets : Expire[n] = IF n \in Overdue THEN "expired" ELSE ticket[n]
    BY DEF Expire
  <1>2. \A n \in Overdue : n \in ToSet(pending) /\ n \in Tickets /\ ticket[n] = "queued"
    BY KeptMembers DEF Places
  <1>3. "expired" \in Final
    BY DEF Final
  <1>4. Expire \in [Tickets -> {"none", "queued", "running"} \cup Final]
    BY <1>3 DEF Expire, States
  <1>5. \A n \in Tickets : (Expire[n] = "queued") <=> (n \in ToSet(Kept))
    BY <1>1, KeptMembers DEF Places
  <1>6. \A n \in Tickets : (Expire[n] = "running") <=> (n = inflight)
    BY <1>1, <1>2 DEF Places
  <1>7. QED
    BY <1>1, <1>2, <1>4, <1>5, <1>6

\* The empty queue.
LEMMA InitLineInv == QueueInit => LineInv
  <1> SUFFICES ASSUME QueueInit PROVE LineInv
    OBVIOUS
  <1>1. Line /\ ToSet(pending) = {}
    <2>1. <<>> \in Seq(Tickets) /\ Len(<<>>) = 0
      OBVIOUS
    <2>2. ToSet(<<>>) = {}
      BY <2>1, Members
    <2>3. QED
      BY <2>1, <2>2, QueueNumbers DEF QueueInit, Line, Distinct
  <1>2. States
    <2>1. 0 \in 0 .. Ttl
      BY QueueNumbers
    <2>2. QED
      BY <2>1 DEF QueueInit, States, Modes
  <1>3. Places
    BY <1>1, QueueNumbers DEF QueueInit, Places
  <1>4. Turns
    BY QueueNumbers DEF QueueInit, Turns
  <1>5. QED
    BY <1>1, <1>2, <1>3, <1>4 DEF LineInv

\* A request is queued, or refused.
LEMMA EnqueueInv ==
    ASSUME LineInv, NEW n \in Tickets, NEW m \in Modes, NEW d \in 1 .. Ttl, Enqueue(n, m, d)
    PROVE  LineInv'
  <1>1. Line /\ States /\ Places /\ Turns
    BY DEF LineInv
  <1>2. n \notin ToSet(pending) /\ n \notin ToSet(Kept) /\ n # inflight
    BY <1>1, KeptMembers DEF Enqueue, Places
  <1>3. ToSet(pending') = ToSet(Kept) \cup {n}
    BY <1>1, KeptMembers, AppendMembers DEF Enqueue
  <1>4. Line'
    <2>1. /\ pending' \in Seq(Tickets) /\ Len(pending') = Len(Kept) + 1 /\ Distinct(pending')
      BY <1>1, <1>2, KeptMembers, AppendMembers DEF Enqueue
    <2>2. Len(pending') <= QueueCapacity
      BY <1>1, <2>1, KeptMembers, QueueNumbers DEF Enqueue
    <2>3. QED
      BY <2>1, <2>2 DEF Line, Distinct
  <1>5. States'
    <2>1. d \in 0 .. Ttl
      BY QueueNumbers
    <2>2. ticket' \in [Tickets -> {"none", "queued", "running"} \cup Final]
      BY <1>1, ExpireStates DEF Enqueue
    <2>3. QED
      BY <1>1, <2>1, <2>2 DEF Enqueue, States
  <1>6. Places'
    <2>1. \A k \in Tickets : ticket'[k] = IF k = n THEN "queued" ELSE Expire[k]
      BY <1>1, ExpireStates DEF Enqueue
    <2>2. inflight' = inflight
      BY DEF Enqueue
    <2>3. QED
      BY <1>1, <1>2, <1>3, <2>1, <2>2, ExpireStates DEF Places
  <1>7. Turns'
    BY <1>1 DEF Enqueue, fairness, Turns
  <1>8. QED
    BY <1>4, <1>5, <1>6, <1>7 DEF LineInv

\* Requests that are too old are dropped.
LEMMA SweepInv ==
    ASSUME LineInv, Sweep
    PROVE  LineInv'
  <1>1. Line /\ States /\ Places /\ Turns
    BY DEF LineInv
  <1>2. pending' = Kept /\ ticket' = Expire /\ inflight' = inflight
    BY DEF Sweep
  <1>3. Line'
    BY <1>1, <1>2, KeptMembers DEF Line, Distinct
  <1>4. States'
    BY <1>1, ExpireStates, DeadlinesType DEF Sweep, States
  <1>5. Places'
    BY <1>1, <1>2, ExpireStates DEF Places
  <1>6. Turns'
    BY <1>1 DEF Sweep, fairness, Turns
  <1>7. QED
    BY <1>3, <1>4, <1>5, <1>6 DEF LineInv

\* A queued request is cancelled.
LEMMA CancelInv ==
    ASSUME LineInv, NEW n \in Tickets, CancelTicket(n)
    PROVE  LineInv'
  <1>1. Line /\ States /\ Places /\ Turns
    BY DEF LineInv
  <1>2. /\ pending' \in Seq(Tickets) /\ Distinct(pending') /\ Len(pending') <= Len(pending)
        /\ ToSet(pending') = ToSet(pending) \ {n}
    BY <1>1, WithoutMembers DEF CancelTicket, Line
  <1>3. Line'
    <2>1. Len(pending') \in Nat /\ Len(pending) \in Nat /\ Len(pending) <= QueueCapacity
      BY <1>1, <1>2 DEF Line
    <2>2. QED
      BY <1>2, <2>1, QueueNumbers DEF Line, Distinct
  <1>4. States'
    <2>1. "cancelled" \in Final
      BY DEF Final
    <2>2. QED
      BY <1>1, <2>1, DeadlinesType DEF CancelTicket, States
  <1>5. Places'
    <2>1. \A k \in Tickets : ticket'[k] = IF k = n THEN "cancelled" ELSE ticket[k]
      BY <1>1 DEF CancelTicket, States
    <2>2. inflight' = inflight /\ ticket[n] = "queued"
      BY DEF CancelTicket
    <2>3. QED
      BY <1>1, <1>2, <2>1, <2>2 DEF Places
  <1>6. Turns'
    BY <1>1 DEF CancelTicket, fairness, Turns
  <1>7. QED
    BY <1>3, <1>4, <1>5, <1>6 DEF LineInv

\* The oldest request of the mode that is due is taken.
LEMMA TakeInv ==
    ASSUME LineInv, NEW th \in Threads, NEW preferred, TakeTicket(th, preferred)
    PROVE  LineInv'
  <1>1. Line /\ States /\ Places /\ Turns
    BY DEF LineInv
  <1>2. /\ inflight = 0 /\ consumer' = th /\ closed' = closed /\ protocol' = protocol
        /\ Deadlines
    BY DEF TakeTicket
  <1>3. ttl' \in [Tickets -> 0 .. Ttl]
    BY <1>1, <1>2, DeadlinesType
  <1>4. CASE Kept = <<>>
    <2>1. pending' = Kept /\ ticket' = Expire /\ inflight' = inflight /\ UNCHANGED fairness
      BY <1>4 DEF TakeTicket
    <2>2. Line'
      BY <1>1, <2>1, KeptMembers DEF Line, Distinct
    <2>3. States'
      BY <1>1, <1>2, <1>3, <2>1, ExpireStates DEF States
    <2>4. Places'
      BY <1>1, <2>1, ExpireStates DEF Places
    <2>5. Turns'
      BY <1>1, <2>1 DEF fairness, Turns
    <2>6. QED
      BY <2>2, <2>3, <2>4, <2>5 DEF LineInv
  <1>5. CASE Kept # <<>>
    <2> DEFINE m    == Desired(preferred, Kept)
               n    == Oldest(Kept, m)
               rest == Without(Kept, {n})
    <2>1. /\ pending' = rest /\ ticket' = [Expire EXCEPT ![n] = "running"]
          /\ inflight' = n /\ lastMode' = m
          /\ sameCount' = IF m = lastMode THEN sameCount + 1 ELSE 1
          /\ passed' = IF ModesOf(rest) \ {m} = {} THEN 0 ELSE IF m = lastMode THEN passed + 1 ELSE 1
      BY <1>5 DEF TakeTicket
    <2>2. Kept \in Seq(Tickets) /\ protocol \in [Tickets -> Modes]
      BY <1>1, KeptMembers DEF States
    <2>3. m \in ModesOf(Kept) /\ m \in Modes /\ (m = lastMode /\ ModesOf(Kept) \ {m} # {} => sameCount < MaxSameMode)
      BY <1>1, <1>5, <2>2, DesiredWaits
    <2>4. n \in ToSet(Kept)
      BY <2>2, <2>3, OldestWaits
    <2>5. n \in Tickets /\ Expire[n] = "queued"
      BY <1>1, <2>4, KeptMembers, ExpireStates
    <2>6. /\ rest \in Seq(Tickets) /\ Distinct(rest) /\ Len(rest) <= Len(Kept)
          /\ ToSet(rest) = ToSet(Kept) \ {n}
      BY <1>1, <2>2, KeptMembers, WithoutMembers
    <2>7. ModesOf(rest) \subseteq ModesOf(Kept)
      BY <2>6 DEF ModesOf
    <2> HIDE DEF m, n, rest
    <2>8. Line'
      <3>1. Len(rest) \in Nat /\ Len(Kept) \in Nat /\ Len(Kept) <= QueueCapacity
        BY <1>1, <2>6, KeptMembers
      <3>2. Len(rest) <= QueueCapacity
        BY <2>6, <3>1, QueueNumbers
      <3>3. QED
        BY <2>1, <2>6, <3>2 DEF Line, Distinct
    <2>9. States'
      BY <1>1, <1>2, <1>3, <2>1, <2>5, ExpireStates DEF States
    <2>10. Places'
      <3>1. \A k \in Tickets : ticket'[k] = IF k = n THEN "running" ELSE Expire[k]
        BY <1>1, <2>1, ExpireStates
      <3>2. \A k \in Tickets : k # 0
        BY QueueNumbers
      <3>3. QED
        BY <1>1, <1>2, <2>1, <2>6, ExpireStates DEF Places
    <2>11. Turns'
      <3>1. /\ lastMode \in Modes \cup {"none"} /\ sameCount \in Nat /\ passed \in Nat
            /\ passed <= sameCount /\ passed <= MaxSameMode
        BY <1>1 DEF Turns
      <3>2. sameCount' \in Nat /\ sameCount' >= 1
        BY <2>1, <3>1
      <3>3. CASE ModesOf(rest) \ {m} = {}
        BY <2>1, <2>3, <3>2, <3>3, QueueNumbers DEF Turns
      <3>4. CASE ModesOf(rest) \ {m} # {} /\ m # lastMode
        BY <2>1, <2>3, <3>2, <3>4, QueueNumbers DEF Turns
      <3>5. CASE ModesOf(rest) \ {m} # {} /\ m = lastMode
        <4>1. sameCount < MaxSameMode
          BY <2>3, <2>7, <3>5
        <4>2. passed' = passed + 1 /\ sameCount' = sameCount + 1
          BY <2>1, <3>5
        <4>3. passed' \in Nat /\ passed' <= sameCount' /\ passed' <= MaxSameMode
          BY <3>1, <4>1, <4>2, QueueNumbers
        <4>4. QED
          BY <2>1, <2>3, <3>2, <4>3 DEF Turns
      <3>6. QED
        BY <3>3, <3>4, <3>5
    <2>12. QED
      BY <2>8, <2>9, <2>10, <2>11 DEF LineInv
  <1>6. QED
    BY <1>4, <1>5

\* A request ends.
LEMMA FinishInv ==
    ASSUME LineInv, NEW success \in BOOLEAN, Finish(success)
    PROVE  LineInv'
  <1>1. Line /\ States /\ Places /\ Turns
    BY DEF LineInv
  <1>2. PICK end \in Final : ticket' = [ticket EXCEPT ![inflight] = end]
    BY DEF Finish, Final
  <1>3. /\ inflight \in Tickets /\ inflight' = 0 /\ ticket[inflight] = "running"
        /\ pending' = pending /\ protocol' = protocol /\ ttl' = ttl
        /\ consumer' = consumer /\ closed' = closed
    BY <1>1 DEF Finish, States
  <1>4. Line'
    BY <1>1, <1>3 DEF Line, Distinct
  <1>5. States'
    BY <1>1, <1>2, <1>3 DEF States
  <1>6. Places'
    <2>1. \A k \in Tickets : ticket'[k] = IF k = inflight THEN end ELSE ticket[k]
      BY <1>1, <1>2 DEF States
    <2>2. end # "queued" /\ end # "running" /\ 0 \notin Tickets
      BY QueueNumbers DEF Final
    <2>3. QED
      BY <1>1, <1>3, <2>1, <2>2 DEF Places
  <1>7. Turns'
    BY <1>1 DEF Finish, fairness, Turns
  <1>8. QED
    BY <1>4, <1>5, <1>6, <1>7 DEF LineInv

\* The queue is closed.
LEMMA CloseInv ==
    ASSUME LineInv, CloseQueue
    PROVE  LineInv'
  <1>1. Line /\ States /\ Places /\ Turns
    BY DEF LineInv
  <1>2. /\ pending' = <<>> /\ inflight' = inflight
        /\ \A n \in Tickets : ticket'[n] = IF n \in ToSet(pending) THEN "cancelled" ELSE ticket[n]
    BY DEF CloseQueue
  <1>3. <<>> \in Seq(Tickets) /\ Len(<<>>) = 0 /\ ToSet(<<>>) = {}
    <2>1. <<>> \in Seq(Tickets) /\ Len(<<>>) = 0
      OBVIOUS
    <2>2. QED
      BY <2>1, Members
  <1>4. Line'
    BY <1>2, <1>3, QueueNumbers DEF Line, Distinct
  <1>5. States'
    <2>1. "cancelled" \in Final
      BY DEF Final
    <2>2. QED
      BY <1>1, <2>1, DeadlinesType DEF CloseQueue, States
  <1>6. Places'
    BY <1>1, <1>2, <1>3 DEF Places
  <1>7. Turns'
    BY <1>1 DEF CloseQueue, fairness, Turns
  <1>8. QED
    BY <1>4, <1>5, <1>6, <1>7 DEF LineInv

\* Time passes.
LEMMA TickInv ==
    ASSUME LineInv, TickQueue
    PROVE  LineInv'
  <1>1. Line /\ States /\ Places /\ Turns
    BY DEF LineInv
  <1>2. ttl' \in [Tickets -> 0 .. Ttl]
    <2>1. \A n \in Tickets : (IF n \in ToSet(pending) /\ ttl[n] > 0 THEN ttl[n] - 1 ELSE ttl[n]) \in 0 .. Ttl
      BY <1>1, QueueNumbers DEF States
    <2>2. QED
      BY <2>1 DEF TickQueue
  <1>3. QED
    BY <1>1, <1>2 DEF TickQueue, fairness, Line, States, Places, Turns, LineInv

\* Every step of the queue keeps the invariant.
LEMMA NextLineInv == LineInv /\ [QueueNext]_queueVars => LineInv'
  <1> SUFFICES ASSUME LineInv, [QueueNext]_queueVars PROVE LineInv'
    OBVIOUS
  <1>1. CASE UNCHANGED queueVars
    BY <1>1 DEF queueVars, fairness, LineInv, Line, States, Places, Turns
  <1>2. CASE QueueNext
    BY <1>2, EnqueueInv, SweepInv, CancelInv, TakeInv, FinishInv, CloseInv, TickInv DEF QueueNext
  <1>3. QED
    BY <1>1, <1>2

\* Every state of the queue satisfies the inductive invariant.
LEMMA SpecLineInv == QueueSpec => []LineInv
  BY InitLineInv, NextLineInv, PTL DEF QueueSpec

\* A queue without repetitions is as long as it has members.
LEMMA DistinctLength ==
    ASSUME NEW S, NEW queue \in Seq(S), Distinct(queue)
    PROVE  Len(queue) = Cardinality(ToSet(queue))
  <1> DEFINE f == [i \in 1 .. Len(queue) |-> queue[i]]
  <1>1. Len(queue) \in Nat
    OBVIOUS
  <1>2. \A e : e \in ToSet(queue) <=> \E i \in 1 .. Len(queue) : queue[i] = e
    BY Members
  <1>3. f \in Bijection(1 .. Len(queue), ToSet(queue))
    <2>1. f \in [1 .. Len(queue) -> ToSet(queue)]
      BY <1>2
    <2>2. \A i, j \in 1 .. Len(queue) : f[i] = f[j] => i = j
      BY DEF Distinct
    <2>3. \A e \in ToSet(queue) : \E i \in 1 .. Len(queue) : f[i] = e
      BY <1>2
    <2> HIDE DEF f
    <2>4. QED
      BY <2>1, <2>2, <2>3 DEF Bijection, Injection, Surjection, IsInjective
  <1>4. QED
    BY <1>1, <1>3, FS_CountingElements DEF ExistsBijection

-----------------------------------------------------------------------------
\* Expiry, cancellation, close and reads lose no ticket, and reads of one protocol never
\* pass over the other's more than max_same_mode times in a row (submit, take, _expire).
THEOREM QueueSafe == QueueSpec => []QueueInv
  <1>1. LineInv => QueueInv
    <2> SUFFICES ASSUME LineInv PROVE QueueInv
      OBVIOUS
    <2>1. Len(pending) = Cardinality(ToSet(pending))
      BY DistinctLength DEF LineInv, Line
    <2>2. QED
      BY <2>1
         DEF QueueInv, LineInv, Line, States, Places, Turns, QueueTypeOK, TicketsAreAccounted,
             NobodyStarves
  <1>2. QED
    BY <1>1, SpecLineInv, PTL

-----------------------------------------------------------------------------
\* The poll list.

\* Division by a positive number has one quotient and one remainder.
LEMMA Division ==
    ASSUME NEW x \in Nat, NEW p \in Nat \ {0}
    PROVE  /\ x \div p \in Nat /\ x % p \in 0 .. p - 1
           /\ x = (p * (x \div p)) + (x % p)
  BY SMT

\* Quotient and remainder are determined.
LEMMA OneDivision ==
    ASSUME NEW p \in Nat \ {0}, NEW a \in Nat, NEW b \in Nat, NEW r \in 0 .. p - 1, NEW s \in 0 .. p - 1,
           p * a + r = p * b + s
    PROVE  a = b /\ r = s
  <1>1. ASSUME a < b PROVE FALSE
    <2>1. p * (a + 1) <= p * b
      <3>1. a + 1 <= b
        BY <1>1
      <3>2. QED
        BY <3>1
    <2>2. p * (a + 1) = p * a + p
      OBVIOUS
    <2>3. QED
      BY <2>1, <2>2
  <1>2. ASSUME b < a PROVE FALSE
    <2>1. p * (b + 1) <= p * a
      <3>1. b + 1 <= a
        BY <1>2
      <3>2. QED
        BY <3>1
    <2>2. p * (b + 1) = p * b + p
      OBVIOUS
    <2>3. QED
      BY <2>1, <2>2
  <1>3. QED
    BY <1>1, <1>2

\* The remainder of the next number is the next one, or 0 again.
LEMMA NextRemainder ==
    ASSUME NEW x \in Nat, NEW p \in Nat \ {0}
    PROVE  (x + 1) % p = IF (x % p) + 1 < p THEN (x % p) + 1 ELSE 0
  <1> DEFINE q == x \div p
             r == x % p
             u == (x + 1) \div p
             v == (x + 1) % p
  <1>1. q \in Nat /\ r \in 0 .. p - 1 /\ x = p * q + r
    BY Division
  <1>2. u \in Nat /\ v \in 0 .. p - 1 /\ x + 1 = p * u + v
    <2>1. x + 1 \in Nat
      OBVIOUS
    <2>2. QED
      BY <2>1, Division
  <1> HIDE DEF q, r, u, v
  <1>3. CASE r + 1 < p
    <2>1. r + 1 \in 0 .. p - 1
      BY <1>1, <1>3
    <2>2. p * q + (r + 1) = p * u + v
      BY <1>1, <1>2
    <2>3. r + 1 = v
      BY <1>1, <1>2, <2>1, <2>2, OneDivision
    <2>4. QED
      BY <1>3, <2>3 DEF r, v
  <1>4. CASE ~(r + 1 < p)
    <2>1. r + 1 = p
      BY <1>1, <1>4
    <2>2. p * (q + 1) = p * q + p
      BY <1>1
    <2>3. p * (q + 1) + 0 = p * u + v
      BY <1>1, <1>2, <2>1, <2>2
    <2>4. q + 1 \in Nat /\ 0 \in 0 .. p - 1
      BY <1>1
    <2>5. v = 0
      BY <1>2, <2>3, <2>4, OneDivision
    <2>6. QED
      BY <1>4, <2>5 DEF r, v
  <1>5. QED
    BY <1>3, <1>4

\* A counter kept modulo a multiple of a period runs through the period.
LEMMA NextCycle ==
    ASSUME NEW w \in Nat \ {0}, NEW p \in Nat \ {0}, w % p = 0, NEW c \in 0 .. w - 1
    PROVE  /\ (c + 1) % w \in 0 .. w - 1
           /\ ((c + 1) % w) % p = IF (c % p) + 1 < p THEN (c % p) + 1 ELSE 0
  <1> c \in Nat
    OBVIOUS
  <1>1. (c + 1) % w = IF (c % w) + 1 < w THEN (c % w) + 1 ELSE 0
    BY NextRemainder
  <1>2. c % w = c
    BY SMT
  <1>3. CASE c + 1 < w
    <2>1. (c + 1) % w = c + 1
      BY <1>1, <1>2, <1>3
    <2>2. c + 1 \in 0 .. w - 1
      BY <1>3
    <2>3. (c + 1) % p = IF (c % p) + 1 < p THEN (c % p) + 1 ELSE 0
      BY NextRemainder
    <2>4. QED
      BY <2>1, <2>2, <2>3
  <1>4. CASE ~(c + 1 < w)
    <2>1. (c + 1) % w = 0 /\ c + 1 = w
      BY <1>1, <1>2, <1>4
    <2>2. 0 % p = 0 /\ 0 \in 0 .. w - 1
      BY SMT
    <2>3. (c + 1) % p = 0 /\ c \in Nat
      BY <2>1
    <2>4. (IF (c % p) + 1 < p THEN (c % p) + 1 ELSE 0) = 0
      BY <2>3, NextRemainder
    <2>5. QED
      BY <2>1, <2>2, <2>4
  <1>5. QED
    BY <1>3, <1>4

PollTypes ==
    /\ items \in Profiles /\ once \in {"startup", "over"}
    /\ pointer \in 1 .. Len(items) + 1 /\ cycle \in 0 .. Wrap - 1
    /\ forceFlag \in BOOLEAN /\ reloadFlag \in BOOLEAN /\ forceAll \in BOOLEAN
    /\ onceComplete \in BOOLEAN /\ (onceComplete <=> once = "over")
    /\ commands \in 0 .. MaxCommands
    /\ cycles \in [Indexes -> Nat]

\* What was read since the pointer was at the start is what was due.
Passed == pass = {i \in 1 .. pointer - 1 : Due(i)}

\* The cycles since the last one in which an item of phase ph was due, in cycle x of its
\* period p, and how old its value may be then.
Since(x, p, ph) == IF x >= ph THEN x - ph ELSE x + p - ph
Allowed(i) ==
    LET x == cycle % PeriodOf(i)
    IN  IF x = Phase(i) /\ i \notin pass THEN PeriodOf(i) ELSE Since(x, PeriodOf(i), Phase(i))

Young == \A i \in Regular : cycles[i] <= Allowed(i)

CycleInv == PollTypes /\ Passed /\ Young

\* A list has its items in places from 1, every recurring one with a period and a phase.
LEMMA ItemFacts ==
    ASSUME items \in Profiles
    PROVE  /\ Len(items) \in Nat /\ Indexes = 1 .. Len(items) /\ Regular \subseteq Indexes
           /\ \A i \in Regular :
                /\ items[i].group \in Groups /\ items[i].group # Once
                /\ PeriodOf(i) \in Nat \ {0} /\ Ordinal(i) \in Int
                /\ Phase(i) \in 0 .. PeriodOf(i) - 1
  <1>1. Len(items) \in Nat /\ Indexes = 1 .. Len(items) /\ Regular \subseteq Indexes
    BY PollAssumption DEF Indexes, Regular
  <1>2. ASSUME NEW i \in Regular
        PROVE  /\ items[i].group \in Groups /\ items[i].group # Once
               /\ PeriodOf(i) \in Nat \ {0} /\ Ordinal(i) \in Int
               /\ Phase(i) \in 0 .. PeriodOf(i) - 1
    <2>1. items[i].group \in Groups /\ items[i].group # Once
      BY PollAssumption DEF Regular, Indexes
    <2>2. PeriodOf(i) \in Nat \ {0}
      BY <2>1, PollAssumption DEF PeriodOf
    <2>3. Ordinal(i) \in Int
      <3> DEFINE upto == {k \in 1 .. i : items[k].group = items[i].group /\ ~Continues(k)}
      <3>1. IsFiniteSet(1 .. i)
        BY <1>1, FS_Interval
      <3>2. IsFiniteSet(upto)
        BY <3>1, FS_Subset
      <3>3. Cardinality(upto) \in Nat
        BY <3>2, FS_CardinalityType
      <3> HIDE DEF upto
      <3>4. Cardinality(upto) - 1 \in Int
        BY <3>3
      <3>5. QED
        BY <3>4 DEF Ordinal, upto
    <2>4. \A x \in Int, p \in Nat \ {0} : x % p \in 0 .. p - 1
      BY SMT
    <2>5. QED
      BY <2>1, <2>2, <2>3, <2>4 DEF Phase
  <1>3. QED
    BY <1>1, <1>2

\* Every regular item has a period and a phase within it.
LEMMA Phases ==
    items \in Profiles => \A k \in Regular : PeriodOf(k) \in Nat \ {0} /\ Phase(k) \in 0 .. PeriodOf(k) - 1
  BY ItemFacts

\* Periods and phases are those of the list.
LEMMA SameList ==
    ASSUME items' = items
    PROVE  /\ Indexes' = Indexes /\ Regular' = Regular
           /\ \A i : /\ Continues(i)' <=> Continues(i)
                    /\ PeriodOf(i)' = PeriodOf(i) /\ Phase(i)' = Phase(i)
  <1>1. \A i : Continues(i)' <=> Continues(i)
    BY DEF Continues
  <1>2. \A i : PeriodOf(i)' = PeriodOf(i) /\ Ordinal(i)' = Ordinal(i)
    BY <1>1 DEF PeriodOf, Ordinal
  <1>3. QED
    BY <1>1, <1>2 DEF Indexes, Regular, Phase

\* What is due depends on the cycle, the refresh and the startup.
LEMMA SameDue ==
    ASSUME UNCHANGED <<list, cycle, forceAll, onceComplete>>
    PROVE  \A i : Due(i)' <=> Due(i)
  BY SameList DEF list, Due, StartupSeed

\* One cycle more, one cycle older: the arithmetic of a period.
LEMMA OlderByOne ==
    ASSUME NEW p \in Nat \ {0}, NEW ph \in 0 .. p - 1, NEW x \in 0 .. p - 1, NEW y \in 0 .. p - 1,
           y = IF x + 1 < p THEN x + 1 ELSE 0, NEW a \in Nat, a <= Since(x, p, ph)
    PROVE  a + 1 <= IF y = ph THEN p ELSE Since(y, p, ph)
  BY DEF Since

\* A young value stays young within its cycle; a new list has only young values.
LEMMA YoungAgain ==
    ASSUME items' = items, cycle' = cycle, pass' \subseteq pass, cycles' = cycles, Young, PollTypes
    PROVE  Young'
  <1> SUFFICES ASSUME NEW i \in Regular PROVE cycles[i] <= Allowed(i)'
    BY SameList DEF Young
  <1>1. cycles[i] <= Allowed(i)
    BY DEF Young
  <1>2. PeriodOf(i) \in Nat \ {0} /\ Phase(i) \in 0 .. PeriodOf(i) - 1
    BY ItemFacts DEF PollTypes
  <1>3. Allowed(i)' = IF cycle % PeriodOf(i) = Phase(i) /\ i \notin pass' THEN PeriodOf(i)
                      ELSE Since(cycle % PeriodOf(i), PeriodOf(i), Phase(i))
    BY SameList DEF Allowed
  <1>4. CASE i \in pass' \/ i \notin pass
    BY <1>1, <1>3, <1>4 DEF Allowed
  <1>5. CASE i \notin pass' /\ i \in pass
    <2>1. CASE cycle % PeriodOf(i) = Phase(i)
      <3>1. cycles[i] <= 0
        BY <1>1, <1>2, <1>5, <2>1 DEF Allowed, Since
      <3>2. Allowed(i)' = PeriodOf(i)
        BY <1>3, <1>5, <2>1
      <3>3. cycles[i] \in Nat /\ PeriodOf(i) \in Nat
        BY <1>2, ItemFacts DEF PollTypes
      <3>4. QED
        BY <3>1, <3>2, <3>3
    <2>2. CASE cycle % PeriodOf(i) # Phase(i)
      BY <1>1, <1>3, <2>2 DEF Allowed
    <2>3. QED
      BY <2>1, <2>2
  <1>6. QED
    BY <1>4, <1>5

\* The poll list at the start.
LEMMA InitCycleInv == PollInit => CycleInv
  <1> SUFFICES ASSUME PollInit PROVE CycleInv
    OBVIOUS
  <1>1. PollTypes
    <2>1. 1 \in 1 .. Len(items) + 1 /\ 0 \in 0 .. Wrap - 1 /\ 0 \in 0 .. MaxCommands
      BY ItemFacts, PollAssumption DEF PollInit
    <2>2. QED
      BY <2>1 DEF PollInit, PollTypes
  <1>2. Passed
    BY DEF PollInit, Passed
  <1>3. Young
    <2> SUFFICES ASSUME NEW i \in Regular PROVE cycles[i] <= Allowed(i)
      BY DEF Young
    <2>1. /\ PeriodOf(i) \in Nat \ {0} /\ Phase(i) \in 0 .. PeriodOf(i) - 1 /\ i \in Indexes
      BY ItemFacts DEF PollInit
    <2>2. cycles[i] = 0 /\ 0 % PeriodOf(i) \in 0 .. PeriodOf(i) - 1 /\ cycle = 0
      BY <2>1, Division DEF PollInit
    <2>3. QED
      BY <2>1, <2>2 DEF Allowed, Since
  <1>4. QED
    BY <1>1, <1>2, <1>3 DEF CycleInv

\* An item is polled, or is not due.
LEMMA PollItemInv ==
    ASSUME CycleInv, PollItem
    PROVE  CycleInv'
  <1>1. PollTypes /\ Passed /\ Young
    BY DEF CycleInv
  <1>2. PICK i \in pointer .. Len(items) :
          /\ Due(i) /\ \A k \in pointer .. i - 1 : ~Due(k)
          /\ pointer' = i + 1 /\ pass' = pass \cup {i} /\ cycles' = [cycles EXCEPT ![i] = 0]
    BY DEF PollItem
  <1>3. UNCHANGED <<list, cycle, flags, onceComplete, commands>>
    BY DEF PollItem
  <1>4. items \in Profiles /\ Len(items) \in Nat /\ Indexes = 1 .. Len(items) /\ pointer \in 1 .. Len(items) + 1
    BY <1>1, ItemFacts DEF PollTypes
  <1>5. i \in Nat /\ i \in Indexes
    BY <1>4
  <1>6. PollTypes'
    <2>1. i + 1 \in 1 .. Len(items) + 1
      BY <1>4, <1>5
    <2>2. cycles' \in [Indexes -> Nat]
      BY <1>1, <1>2, <1>5 DEF PollTypes
    <2>3. QED
      BY <1>1, <1>2, <1>3, <2>2, SameList DEF PollTypes, list, flags
  <1>7. Passed'
    <2>1. \A k : Due(k)' <=> Due(k)
      BY <1>3, SameDue DEF flags
    <2>2. 1 .. (i + 1) - 1 = (1 .. pointer - 1) \cup (pointer .. i - 1) \cup {i}
      BY <1>4, <1>5
    <2>3. {k \in 1 .. (i + 1) - 1 : Due(k)} = {k \in 1 .. pointer - 1 : Due(k)} \cup {i}
      BY <1>2, <2>2
    <2>4. QED
      BY <1>1, <1>2, <2>1, <2>3 DEF Passed
  <1>8. Young'
    <2> SUFFICES ASSUME NEW j \in Regular PROVE cycles'[j] <= Allowed(j)'
      BY <1>3, SameList DEF Young, list
    <2>1. PeriodOf(j) \in Nat \ {0} /\ Phase(j) \in 0 .. PeriodOf(j) - 1 /\ j \in Indexes /\ cycles[j] <= Allowed(j)
      BY <1>1, <1>4, ItemFacts DEF Young
    <2>2. Allowed(j)' = IF cycle % PeriodOf(j) = Phase(j) /\ j \notin pass' THEN PeriodOf(j)
                        ELSE Since(cycle % PeriodOf(j), PeriodOf(j), Phase(j))
      BY <1>3, SameList DEF Allowed, list
    <2>3. cycle % PeriodOf(j) \in 0 .. PeriodOf(j) - 1
      <3>1. cycle \in Nat
        BY <1>1, PollAssumption DEF PollTypes
      <3>2. QED
        BY <2>1, <3>1, Division
    <2>4. CASE j = i
      <3>1. cycles'[j] = 0
        BY <1>1, <1>2, <2>1, <2>4 DEF PollTypes
      <3>2. QED
        BY <2>1, <2>2, <2>3, <3>1 DEF Since
    <2>5. CASE j # i
      <3>1. cycles'[j] = cycles[j] /\ (j \in pass' <=> j \in pass)
        BY <1>1, <1>2, <2>1, <2>5 DEF PollTypes
      <3>2. QED
        BY <2>1, <2>2, <3>1 DEF Allowed
    <2>6. QED
      BY <2>4, <2>5
  <1>9. QED
    BY <1>6, <1>7, <1>8 DEF CycleInv

\* A cycle ends when everything that was due has been read.
LEMMA EndPass ==
    ASSUME PollTypes, Passed, EndOfCycle
    PROVE  pass = {i \in Indexes : Due(i)}
  <1>1. Len(items) \in Nat /\ Indexes = 1 .. Len(items) /\ pointer \in 1 .. Len(items) + 1
    BY ItemFacts DEF PollTypes
  <1>2. Indexes = (1 .. pointer - 1) \cup (pointer .. Len(items))
    BY <1>1
  <1>3. \A k \in pointer .. Len(items) : ~Due(k)
    BY DEF EndOfCycle
  <1>4. QED
    BY <1>2, <1>3 DEF Passed

\* The cycle ends.
LEMMA EndOfCycleInv ==
    ASSUME CycleInv, EndOfCycle
    PROVE  CycleInv'
  <1>1. PollTypes /\ Passed /\ Young
    BY DEF CycleInv
  <1>2. items \in Profiles /\ Len(items) \in Nat /\ Indexes = 1 .. Len(items)
    BY <1>1, ItemFacts DEF PollTypes
  <1>3. /\ items' = items /\ cycle' = (cycle + 1) % Wrap /\ pointer' = 1 /\ pass' = {}
        /\ once' = "over" /\ onceComplete' = TRUE /\ forceAll' = FALSE
        /\ cycles' = [i \in Indexes |-> IF i \in Regular THEN cycles[i] + 1 ELSE 0]
        /\ UNCHANGED <<forceFlag, reloadFlag, commands>>
    BY DEF EndOfCycle
  <1>4. Wrap \in Nat \ {0} /\ cycle \in 0 .. Wrap - 1
    BY <1>1, PollAssumption DEF PollTypes
  <1>5. PollTypes'
    <2>1. (cycle + 1) % Wrap \in 0 .. Wrap - 1
      <3>1. cycle + 1 \in Nat
        BY <1>4
      <3>2. QED
        BY <1>4, <3>1, Division
    <2>2. cycles' \in [Indexes -> Nat]
      BY <1>1, <1>3 DEF PollTypes
    <2>3. 1 \in 1 .. Len(items) + 1
      BY <1>2
    <2>4. QED
      BY <1>1, <1>3, <2>1, <2>2, <2>3, SameList DEF PollTypes
  <1>6. Passed'
    BY <1>3 DEF Passed
  <1>7. Young'
    <2> SUFFICES ASSUME NEW i \in Regular PROVE cycles'[i] <= Allowed(i)'
      BY <1>3, SameList DEF Young
    <2> DEFINE p  == PeriodOf(i)
               ph == Phase(i)
               x  == cycle % p
               y  == cycle' % p
    <2>1. p \in Nat \ {0} /\ ph \in 0 .. p - 1 /\ i \in Indexes /\ items[i].group \in Groups /\ items[i].group # Once
      BY <1>2, ItemFacts
    <2>2. Allowed(i)' = IF y = ph THEN p ELSE Since(y, p, ph)
      BY <1>3, SameList DEF Allowed
    <2>3. cycles'[i] = cycles[i] + 1 /\ cycles[i] \in Nat
      BY <1>1, <1>3, <2>1 DEF PollTypes
    <2>4. y = IF x + 1 < p THEN x + 1 ELSE 0
      <3>1. Wrap % p = 0
        BY <2>1, PollAssumption DEF PeriodOf
      <3>2. QED
        BY <1>3, <1>4, <2>1, <3>1, NextCycle
    <2>5. x \in 0 .. p - 1
      <3>1. cycle \in Nat
        BY <1>4
      <3>2. QED
        BY <2>1, <3>1, Division
    <2>6. y \in 0 .. p - 1
      <3> HIDE DEF x, y, p
      <3> QED
        BY <2>1, <2>4, <2>5
    <2>7. cycles[i] <= Since(x, p, ph)
      <3>1. cycles[i] <= Allowed(i)
        BY <1>1 DEF Young
      <3>2. x = ph => i \in pass
        <4>1. x = ph => Due(i)
          BY <2>1 DEF Due
        <4>2. QED
          BY <1>1, <2>1, <4>1, EndPass
      <3>3. QED
        BY <3>1, <3>2 DEF Allowed
    <2>8. cycles[i] + 1 <= IF y = ph THEN p ELSE Since(y, p, ph)
      <3> HIDE DEF x, y, p, ph
      <3> QED
        BY <2>1, <2>3, <2>4, <2>5, <2>7, OlderByOne
    <2>9. QED
      BY <2>2, <2>3, <2>8
  <1>8. QED
    BY <1>5, <1>6, <1>7 DEF CycleInv

\* A forced poll is taken.
LEMMA TakeForceInv ==
    ASSUME CycleInv, TakeForce
    PROVE  CycleInv'
  <1>1. PollTypes /\ Passed /\ Young
    BY DEF CycleInv
  <1>2. /\ items' = items /\ once' = once /\ pointer' = 1 /\ pass' = {} /\ forceFlag' = FALSE /\ forceAll' = TRUE
        /\ UNCHANGED <<cycle, reloadFlag, onceComplete, commands, cycles>>
    BY DEF TakeForce, list
  <1>3. 1 \in 1 .. Len(items) + 1
    BY <1>1, ItemFacts DEF PollTypes
  <1>4. PollTypes'
    BY <1>1, <1>2, <1>3, SameList DEF PollTypes
  <1>5. Passed'
    BY <1>2 DEF Passed
  <1>6. Young'
    BY <1>1, <1>2, YoungAgain DEF PollTypes
  <1>7. QED
    BY <1>4, <1>5, <1>6 DEF CycleInv

\* The list is read again.
LEMMA TakeReloadInv ==
    ASSUME CycleInv, NEW profile \in Profiles, TakeReload(profile)
    PROVE  CycleInv'
  <1>1. PollTypes /\ Passed /\ Young
    BY DEF CycleInv
  <1>2. /\ items' = profile /\ pointer' = 1 /\ pass' = {} /\ reloadFlag' = FALSE
        /\ once' = IF onceComplete THEN "over" ELSE "startup"
        /\ cycles' = IF profile = items THEN cycles ELSE [i \in DOMAIN profile |-> 0]
        /\ UNCHANGED <<cycle, forceFlag, forceAll, onceComplete, commands>>
    BY DEF TakeReload
  <1>3. Len(profile) \in Nat /\ DOMAIN profile = 1 .. Len(profile) /\ Indexes' = DOMAIN profile
    BY <1>2, PollAssumption DEF Indexes
  <1>4. PollTypes'
    <2>1. 1 \in 1 .. Len(profile) + 1
      BY <1>3
    <2>2. cycles' \in [Indexes' -> Nat]
      BY <1>1, <1>2, <1>3 DEF PollTypes, Indexes
    <2>3. QED
      BY <1>1, <1>2, <2>1, <2>2 DEF PollTypes
  <1>5. Passed'
    BY <1>2 DEF Passed
  <1>6. Young'
    <2>1. CASE profile = items
      BY <1>1, <1>2, <2>1, YoungAgain DEF PollTypes
    <2>2. CASE profile # items
      <3> SUFFICES ASSUME NEW i \in Regular' PROVE cycles'[i] <= Allowed(i)'
        BY DEF Young
      <3>1. i \in Indexes' /\ cycles'[i] = 0
        BY <1>2, <1>3, <2>2 DEF Regular
      <3>2. PeriodOf(i)' \in Nat \ {0} /\ Phase(i)' \in 0 .. PeriodOf(i)' - 1
        <4>1. (items \in Profiles => \A k \in Regular : PeriodOf(k) \in Nat \ {0} /\ Phase(k) \in 0 .. PeriodOf(k) - 1)'
          BY Phases, PTL
        <4>2. QED
          BY <1>2, <4>1
      <3>3. cycle \in Nat /\ cycle' = cycle
        BY <1>1, <1>2, PollAssumption DEF PollTypes
      <3>4. cycle' % PeriodOf(i)' \in 0 .. PeriodOf(i)' - 1
        BY <3>2, <3>3, Division
      <3>5. QED
        BY <3>1, <3>2, <3>4 DEF Allowed, Since
    <2>3. QED
      BY <2>1, <2>2
  <1>7. QED
    BY <1>4, <1>5, <1>6 DEF CycleInv

\* A command arrives.
LEMMA CommandInv ==
    ASSUME CycleInv, Command
    PROVE  CycleInv'
  <1>1. PollTypes /\ Passed /\ Young
    BY DEF CycleInv
  <1>2. /\ commands' = commands + 1 /\ commands < MaxCommands
        /\ forceFlag' \in BOOLEAN /\ reloadFlag' \in BOOLEAN
        /\ UNCHANGED <<list, pointer, cycle, forceAll, onceComplete, pass, cycles>>
    BY <1>1 DEF Command, PollTypes
  <1>3. PollTypes'
    <2>1. commands' \in 0 .. MaxCommands
      BY <1>1, <1>2, PollAssumption DEF PollTypes
    <2>2. QED
      BY <1>1, <1>2, <2>1, SameList DEF PollTypes, list
  <1>4. Passed'
    BY <1>1, <1>2, SameDue DEF Passed
  <1>5. Young'
    BY <1>1, <1>2, YoungAgain DEF list
  <1>6. QED
    BY <1>3, <1>4, <1>5 DEF CycleInv

\* Every step of the poll keeps the invariant.
LEMMA NextCycleInv == CycleInv /\ [PollNext]_pollVars => CycleInv'
  <1> SUFFICES ASSUME CycleInv, [PollNext]_pollVars PROVE CycleInv'
    OBVIOUS
  <1>1. CASE UNCHANGED pollVars
    <2>1. UNCHANGED <<list, pointer, cycle, flags, onceComplete, commands, pass, cycles>>
      BY <1>1 DEF pollVars
    <2>2. items' = items /\ PollTypes /\ Passed /\ Young
      BY <2>1 DEF list, CycleInv
    <2>3. PollTypes'
      BY <2>1, <2>2, SameList DEF PollTypes, list, flags
    <2>4. Passed'
      BY <2>1, <2>2, SameDue DEF Passed, flags
    <2>5. Young'
      BY <2>1, <2>2, YoungAgain
    <2>6. QED
      BY <2>3, <2>4, <2>5 DEF CycleInv
  <1>2. CASE PollNext
    BY <1>2, PollItemInv, EndOfCycleInv, TakeForceInv, TakeReloadInv, CommandInv
       DEF PollNext, MainLoop
  <1>3. QED
    BY <1>1, <1>2

\* Every state of the poll list satisfies the inductive invariant.
LEMMA SpecCycleInv == PollSpec => []CycleInv
  BY InitCycleInv, NextCycleInv, PTL DEF PollSpec

\* No item of a recurring group waits longer than its period for its next read, whatever
\* is refreshed or reloaded (item_phases, poll_cycle).
THEOREM PollSafe == PollSpec => []PollInv
  <1>1. CycleInv => PollInv
    <2> SUFFICES ASSUME CycleInv PROVE PollInv
      OBVIOUS
    <2>1. PollTypes /\ Passed /\ Young
      BY DEF CycleInv
    <2>2. Len(items) \in Nat /\ Indexes = 1 .. Len(items) /\ pointer \in 1 .. Len(items) + 1
      BY <2>1, ItemFacts DEF PollTypes
    <2>3. pass \subseteq Indexes /\ \A i \in pass : i < pointer
      BY <2>1, <2>2 DEF Passed
    <2>4. PollTypeOK
      BY <2>1, <2>3 DEF PollTypes, PollTypeOK
    <2>5. NobodyIsForgotten
      <3> SUFFICES ASSUME NEW i \in Regular PROVE cycles[i] <= PeriodOf(i)
        BY DEF NobodyIsForgotten
      <3>1. PeriodOf(i) \in Nat \ {0} /\ Phase(i) \in 0 .. PeriodOf(i) - 1 /\ cycles[i] \in Nat /\ cycles[i] <= Allowed(i)
        BY <2>1, ItemFacts DEF PollTypes, Young
      <3>2. cycle % PeriodOf(i) \in 0 .. PeriodOf(i) - 1
        <4>1. cycle \in Nat
          BY <2>1, PollAssumption DEF PollTypes
        <4>2. QED
          BY <3>1, <4>1, Division
      <3>3. Allowed(i) \in Nat /\ Allowed(i) <= PeriodOf(i)
        BY <3>1, <3>2 DEF Allowed, Since
      <3>4. QED
        BY <3>1, <3>3
    <2>6. QED
      BY <2>4, <2>5 DEF PollInv
  <1>2. QED
    BY <1>1, SpecCycleInv, PTL

-----------------------------------------------------------------------------
\* What a cycle reads.

\* Only the end of a cycle changes its number.
LEMMA WhoEndsCycles ==
    ASSUME [PollNext]_pollVars, CycleEnds
    PROVE  EndOfCycle
  BY DEF PollNext, MainLoop, PollItem, TakeForce, TakeReload, Command, CycleEnds, pollVars

\* The parts of CyclesAreWhole: an item of the group ONCE is not polled again,
LEMMA OnceStep ==
    ASSUME CycleInv, [PollNext]_pollVars, onceComplete
    PROVE  \A i \in pass' : i \in pass \/ items'[i].group # Once
  <1> SUFFICES ASSUME NEW i \in pass', i \notin pass PROVE items'[i].group # Once
    OBVIOUS
  <1>1. PollItem
    BY DEF PollNext, MainLoop, EndOfCycle, TakeForce, TakeReload, Command, pollVars
  <1>2. items' = items /\ Due(i)
    BY <1>1 DEF PollItem, list
  <1>3. once # "startup"
    BY DEF CycleInv, PollTypes
  <1>4. QED
    BY <1>2, <1>3 DEF Due

\* a snapshot polls everything,
LEMMA SnapshotStep ==
    ASSUME CycleInv, EndOfCycle
    PROVE  (StartupSeed => pass = Indexes) /\ (forceAll => Regular \subseteq pass)
  <1>1. pass = {i \in Indexes : Due(i)}
    BY EndPass DEF CycleInv
  <1>2. StartupSeed => \A i : Due(i)
    BY DEF StartupSeed, Due, CycleInv, PollTypes
  <1>3. forceAll => \A i \in Regular : Due(i) /\ i \in Indexes
    BY DEF Regular, Due
  <1>4. QED
    BY <1>1, <1>2, <1>3

\* An item that continues a byte has the phase of the item before it.
LEMMA SamePhase ==
    ASSUME items \in Profiles, NEW i \in Indexes, Continues(i)
    PROVE  i - 1 \in Indexes /\ (Due(i) <=> Due(i - 1))
  <1>1. Len(items) \in Nat /\ Indexes = 1 .. Len(items)
    BY ItemFacts
  <1>2. i - 1 \in Indexes /\ i \in Nat /\ i > 1
    BY <1>1 DEF Continues
  <1>3. items[i].group = items[i - 1].group
    BY DEF Continues
  <1>4. {k \in 1 .. i : items[k].group = items[i].group /\ ~Continues(k)}
        = {k \in 1 .. i - 1 : items[k].group = items[i - 1].group /\ ~Continues(k)}
    <2>1. 1 .. i = (1 .. i - 1) \cup {i}
      BY <1>2
    <2>2. QED
      BY <1>3, <2>1
  <1>5. Phase(i) = Phase(i - 1) /\ PeriodOf(i) = PeriodOf(i - 1)
    BY <1>3, <1>4 DEF Phase, Ordinal, PeriodOf
  <1>6. QED
    BY <1>2, <1>3, <1>5 DEF Due

\* the items of one transaction are polled together,
LEMMA BitsStep ==
    ASSUME CycleInv, EndOfCycle
    PROVE  \A i \in Indexes : Continues(i) => (i \in pass <=> i - 1 \in pass)
  <1>1. pass = {i \in Indexes : Due(i)}
    BY EndPass DEF CycleInv
  <1>2. QED
    BY <1>1, SamePhase DEF CycleInv, PollTypes

\* Division keeps the order.
LEMMA DivisionGrows ==
    ASSUME NEW a \in Nat, NEW b \in Nat, a <= b, NEW p \in Nat \ {0}
    PROVE  a \div p <= b \div p
  <1> DEFINE qa == a \div p
             qb == b \div p
             ra == a % p
             rb == b % p
  <1>1. /\ qa \in Nat /\ qb \in Nat /\ ra \in 0 .. p - 1 /\ rb \in 0 .. p - 1
        /\ a = p * qa + ra /\ b = p * qb + rb
    BY Division
  <1> HIDE DEF qa, qb, ra, rb
  <1>2. ASSUME qb + 1 <= qa PROVE FALSE
    <2>1. p * (qb + 1) <= p * qa
      BY <1>1, <1>2
    <2>2. p * (qb + 1) = p * qb + p
      BY <1>1
    <2>3. p * qb \in Nat /\ p * qa \in Nat
      BY <1>1
    <2>4. QED
      BY <1>1, <2>1, <2>2, <2>3
  <1>3. qa <= qb
    BY <1>1, <1>2
  <1>4. QED
    BY <1>3 DEF qa, qb

\* The transactions of a group,
TransactionsOf(g) == {i \in Indexes : items[i].group = g /\ ~Continues(i)}

\* ... in the order of the list, have the ordinals from 0.
LEMMA Ordinals ==
    ASSUME items \in Profiles, NEW g
    PROVE  LET T == TransactionsOf(g) IN
           /\ IsFiniteSet(T) /\ Cardinality(T) \in Nat
           /\ \A i \in T : Ordinal(i) \in Nat /\ Ordinal(i) < Cardinality(T)
           /\ \A i, j \in T : Ordinal(i) = Ordinal(j) => i = j
  <1> DEFINE T == TransactionsOf(g)
             upto(i) == {k \in 1 .. i : items[k].group = items[i].group /\ ~Continues(k)}
  <1> USE DEF TransactionsOf
  <1>1. Len(items) \in Nat /\ Indexes = 1 .. Len(items)
    BY ItemFacts
  <1>2. IsFiniteSet(T) /\ Cardinality(T) \in Nat
    <2>1. IsFiniteSet(1 .. Len(items)) /\ T \in SUBSET (1 .. Len(items))
      BY <1>1, FS_Interval
    <2>2. QED
      BY <2>1, FS_Subset, FS_CardinalityType
  <1>3. ASSUME NEW i \in T
        PROVE  /\ i \in Nat /\ i \in upto(i) /\ upto(i) \in SUBSET T /\ IsFiniteSet(upto(i))
               /\ Cardinality(upto(i)) \in Nat \ {0} /\ Cardinality(upto(i)) <= Cardinality(T)
               /\ Ordinal(i) = Cardinality(upto(i)) - 1
    <2>1. i \in Nat /\ i \in upto(i) /\ upto(i) \in SUBSET T
      BY <1>1
    <2> HIDE DEF upto, T
    <2>2. IsFiniteSet(upto(i)) /\ Cardinality(upto(i)) <= Cardinality(T) /\ Cardinality(upto(i)) \in Nat
      BY <1>2, <2>1, FS_Subset, FS_CardinalityType
    <2>3. Cardinality(upto(i)) # 0
      BY <2>1, <2>2, FS_EmptySet
    <2>4. Ordinal(i) = Cardinality(upto(i)) - 1
      BY DEF Ordinal, upto
    <2>5. QED
      BY <2>1, <2>2, <2>3, <2>4
  <1>4. ASSUME NEW i \in T, NEW j \in T, i < j
        PROVE  Ordinal(i) # Ordinal(j)
    <2>1. upto(i) \in SUBSET upto(j) /\ j \notin upto(i)
      <3>1. i \in Nat /\ j \in Nat /\ items[i].group = items[j].group
        BY <1>1
      <3>2. 1 .. i \subseteq 1 .. j /\ j \notin 1 .. i
        BY <1>4, <3>1
      <3>3. QED
        BY <3>1, <3>2
    <2>2. j \in upto(j) /\ IsFiniteSet(upto(j))
      BY <1>3
    <2> HIDE DEF upto, T
    <2>3. Cardinality(upto(i)) # Cardinality(upto(j))
      BY <2>1, <2>2, FS_Subset
    <2>4. QED
      BY <1>3, <2>3
  <1>5. \A i, j \in T : Ordinal(i) = Ordinal(j) => i = j
    <2> SUFFICES ASSUME NEW i \in T, NEW j \in T, Ordinal(i) = Ordinal(j) PROVE i = j
      OBVIOUS
    <2>1. i \in Nat /\ j \in Nat
      BY <1>3
    <2>2. i < j \/ j < i \/ i = j
      BY <2>1
    <2>3. QED
      BY <1>4, <2>2
  <1>6. \A i \in T : Ordinal(i) \in Nat /\ Ordinal(i) < Cardinality(T)
    <2> SUFFICES ASSUME NEW i \in T PROVE Ordinal(i) \in Nat /\ Ordinal(i) < Cardinality(T)
      OBVIOUS
    <2> HIDE DEF upto, T
    <2>1. QED
      BY <1>2, <1>3
  <1>7. QED
    BY <1>2, <1>5, <1>6

\* Of numbers below n, no more than one in p has a given remainder.
LEMMA OneInPeriod ==
    ASSUME NEW T, NEW n \in Nat, NEW p \in Nat \ {0}, NEW r, NEW o \in [T -> Nat],
           IsFiniteSet(T), \A i \in T : o[i] < n, NEW D \in SUBSET T, \A i \in D : o[i] % p = r,
           \A i, j \in T : o[i] = o[j] => i = j
    PROVE  Cardinality(D) * p <= n + p - 1
  <1> DEFINE f == [i \in D |-> o[i] \div p]
  <1>1. CASE n = 0
    <2>1. D = {}
      BY <1>1
    <2>2. Cardinality(D) = 0
      BY <2>1, FS_EmptySet
    <2>3. 0 * p <= n + p - 1
      BY <1>1
    <2>4. QED
      BY <2>2, <2>3
  <1>2. CASE n # 0
    <2> DEFINE q == (n - 1) \div p
    <2>1. n - 1 \in Nat
      BY <1>2
    <2>2. q \in Nat /\ (n - 1) % p \in 0 .. p - 1 /\ n - 1 = p * q + ((n - 1) % p)
      BY <2>1, Division
    <2>3. \A i \in D : o[i] \in Nat /\ o[i] <= n - 1
      OBVIOUS
    <2>4. \A i \in D : o[i] \div p \in 0 .. q
      <3>1. \A i \in D : o[i] \div p \in Nat /\ o[i] \div p <= q
        BY <2>1, <2>3, Division, DivisionGrows
      <3> HIDE DEF q
      <3>2. QED
        BY <2>2, <3>1
    <2>5. f \in [D -> 0 .. q]
      BY <2>4
    <2>6. ASSUME NEW i \in D, NEW j \in D, f[i] = f[j] PROVE i = j
      <3>1. o[i] = p * (o[i] \div p) + r /\ o[j] = p * (o[j] \div p) + r
        <4>1. o[i] \in Nat /\ o[j] \in Nat /\ o[i] % p = r /\ o[j] % p = r
          BY <2>3
        <4>2. /\ o[i] = p * (o[i] \div p) + (o[i] % p)
              /\ o[j] = p * (o[j] \div p) + (o[j] % p)
          BY <4>1, Division
        <4>3. QED
          BY <4>1, <4>2
      <3>2. o[i] = o[j]
        BY <2>6, <3>1
      <3>3. QED
        BY <3>2
    <2>7. f \in Injection(D, 0 .. q)
      <3> HIDE DEF f, q
      <3> QED
        BY <2>5, <2>6 DEF Injection, IsInjective
    <2>8. IsFiniteSet(0 .. q) /\ Cardinality(0 .. q) = q + 1
      <3> HIDE DEF q
      <3>1. 0 \in Int /\ q \in Int /\ ~(0 > q) /\ q - 0 + 1 = q + 1
        BY <2>2
      <3>2. QED
        BY <3>1, FS_Interval
    <2>9. IsFiniteSet(D) /\ Cardinality(D) \in Nat /\ Cardinality(D) <= q + 1
      <3> HIDE DEF f, q
      <3> QED
        BY <2>7, <2>8, FS_Injection, FS_CardinalityType
    <2> HIDE DEF q
    <2>10. Cardinality(D) * p <= (q + 1) * p
      BY <2>2, <2>9
    <2>11. (q + 1) * p = p * q + p
      BY <2>2
    <2>12. p * q \in Nat /\ Cardinality(D) * p \in Nat
      BY <2>2, <2>9
    <2>13. p * q <= n - 1
      BY <2>2, <2>12
    <2>14. QED
      BY <2>10, <2>11, <2>12, <2>13
  <1>3. QED
    BY <1>1, <1>2

\* and a group is spread over its cycles.
LEMMA LoadStep ==
    ASSUME CycleInv, EndOfCycle, ~forceAll, onceComplete, NEW g \in Groups
    PROVE  LET own == {i \in Regular : items[i].group = g}
           IN  Cardinality(Transactions(own \cap pass)) * Period[g]
                   <= Cardinality(Transactions(own)) + Period[g] - 1
  <1> DEFINE own == {i \in Regular : items[i].group = g}
             T   == Transactions(own)
             p   == Period[g]
             r   == cycle % p
             o   == [i \in T |-> Ordinal(i)]
             D   == {i \in T : o[i] % p = r}
  <1>1. items \in Profiles /\ p \in Nat \ {0} /\ g # Once
    BY PollAssumption DEF CycleInv, PollTypes
  <1>2. T = TransactionsOf(g) /\ \A i \in T : i \in Indexes /\ items[i].group = g /\ ~Continues(i)
    BY <1>1 DEF Transactions, Regular, TransactionsOf
  <1>3. /\ IsFiniteSet(T) /\ Cardinality(T) \in Nat
        /\ \A i \in T : Ordinal(i) \in Nat /\ Ordinal(i) < Cardinality(T)
        /\ \A i, j \in T : Ordinal(i) = Ordinal(j) => i = j
    <2> HIDE DEF T
    <2> QED
      BY <1>1, <1>2, Ordinals
  <1>4. Transactions(own \cap pass) = D
    <2>1. pass = {i \in Indexes : Due(i)}
      BY EndPass DEF CycleInv
    <2>2. \A i \in T : Due(i) <=> Ordinal(i) % p = r
      BY <1>1, <1>2 DEF Due, StartupSeed, Phase, PeriodOf
    <2>3. Transactions(own \cap pass) = {i \in T : i \in pass}
      BY DEF Transactions
    <2>4. \A i \in T : i \in pass <=> o[i] % p = r
      BY <1>2, <2>1, <2>2
    <2>5. QED
      BY <2>3, <2>4
  <1>5. o \in [T -> Nat] /\ (\A i \in T : o[i] < Cardinality(T)) /\ (\A i, j \in T : o[i] = o[j] => i = j)
    BY <1>3
  <1>6. Cardinality(D) * p <= Cardinality(T) + p - 1
    <2>1. D \in SUBSET T /\ \A i \in D : o[i] % p = r
      OBVIOUS
    <2> HIDE DEF T, D, o, p, r
    <2> QED
      BY <1>1, <1>3, <1>5, <2>1, OneInPeriod
  <1>7. QED
    BY <1>4, <1>6

-----------------------------------------------------------------------------
\* Nothing is read twice at the start, snapshots are complete, an ordinary cycle reads no
\* more of a group than its share, and the bits of a byte are read together (due condition,
\* item_phases, reload, continuation).
THEOREM PollCycles == PollSpec => CyclesAreWhole
  <1>1. CycleInv /\ [PollNext]_pollVars =>
            [onceComplete => \A i \in pass' : i \in pass \/ items'[i].group # Once]_pollVars
    BY OnceStep
  <1>2. CycleInv /\ [PollNext]_pollVars =>
            [CycleEnds => (StartupSeed => pass = Indexes) /\ (forceAll => Regular \subseteq pass)]_pollVars
    BY WhoEndsCycles, SnapshotStep
  <1>3. CycleInv /\ [PollNext]_pollVars =>
            [(CycleEnds /\ ~forceAll /\ onceComplete) =>
                (\A g \in Groups :
                    LET own == {i \in Regular : items[i].group = g}
                    IN  Cardinality(Transactions(own \cap pass)) * Period[g]
                            <= Cardinality(Transactions(own)) + Period[g] - 1)]_pollVars
    BY WhoEndsCycles, LoadStep
  <1>4. CycleInv /\ [PollNext]_pollVars =>
            [CycleEnds => (\A i \in Indexes : Continues(i) => (i \in pass <=> i - 1 \in pass))]_pollVars
    BY WhoEndsCycles, BitsStep
  <1>5. PollSpec => OnceOnlyAtStart
    BY <1>1, SpecCycleInv, PTL DEF PollSpec, OnceOnlyAtStart
  <1>6. PollSpec => SnapshotsAreComplete
    BY <1>2, SpecCycleInv, PTL DEF PollSpec, SnapshotsAreComplete
  <1>7. PollSpec => LoadIsSpread
    BY <1>3, SpecCycleInv, PTL DEF PollSpec, LoadIsSpread
  <1>8. PollSpec => BitsStayTogether
    BY <1>4, SpecCycleInv, PTL DEF PollSpec, BitsStayTogether
  <1>9. QED
    BY <1>5, <1>6, <1>7, <1>8 DEF CyclesAreWhole

-----------------------------------------------------------------------------
\* The reads on demand.  LifeInv is the inductive invariant: the state of a ticket tells
\* in how many windows it was read and whether its record may hold bytes.

\* TypeOK in three parts: the queue and its records, the clocks, and the rest.
QueueType ==
    /\ known \subseteq seen /\ seen \subseteq Ids
    /\ IsFiniteSet(known) /\ Cardinality(known) <= MaxRecords
    /\ order \in Seq(known) /\ Len(order) <= Capacity
    /\ \A id \in ToSet(order) : state[id] = "queued"

ClockType ==
    /\ age \in [Ids -> 0 .. Keep + 1]
    /\ wait \in 0 .. Interval + Backoff /\ cool \in 0 .. Interval
    /\ p80 \in BOOLEAN /\ p06 \in 0 .. Stale /\ gap \in 0 .. Stale
    /\ spent \in 0 .. MaxWindow

RecordType ==
    /\ pc \in {"poll", "rpc", "tick", "frozen", "window", "legacy", "dead"}
    /\ asked \in [Ids -> Kinds \X Ttls]
    /\ state \in [Ids -> {"none"} \cup Live \cup Ended]
    /\ result \in [Ids -> 0 .. windows]
    /\ failed \in BOOLEAN /\ lost \in BOOLEAN
    /\ windows \in Nat
    /\ runs \in [Ids -> SUBSET (1 .. windows)]

\* The windows and the bytes of a request, by the state of its ticket.
ReadInv ==
    \A id \in Ids :
        /\ state[id] = "none" <=> id \notin seen
        /\ state[id] \in Live => id \in known
        /\ state[id] \in {"none", "queued"} => runs[id] = {}
        /\ state[id] = "running" => runs[id] = {windows}
        /\ runs[id] = {} \/ \E w \in 1 .. windows : runs[id] = {w}
        /\ result[id] # 0 => id \in known /\ state[id] = "completed" /\ result[id] \in runs[id]
        /\ state[id] = "completed" /\ id \in known /\ ~lost => result[id] # 0

\* A window begins with a P06 sample that is young enough for its two ticks.
GapInv == pc = "window" => gap + 2 <= MaxAge + spent

LifeInv == QueueType /\ ClockType /\ RecordType /\ ReadInv /\ NothingStranded /\ GapInv

-----------------------------------------------------------------------------
\* The parts are all of it.
LEMMA TypeParts == TypeOK /\ IsFiniteSet(known) <=> QueueType /\ ClockType /\ RecordType
  <1>1. ASSUME order \in Seq(known)
        PROVE  (\A i \in 1 .. Len(order) : state[order[i]] = "queued")
                  <=> (\A id \in ToSet(order) : state[id] = "queued")
    BY <1>1, Members
  <1>2. QED
    BY <1>1 DEF TypeOK, QueueType, ClockType, RecordType

\* The constants as the proofs use them.
LEMMA Numbers ==
    /\ Capacity \in Nat /\ Capacity > 0 /\ MaxRecords \in Nat /\ MaxRecords > 0
    /\ Keep \in Nat /\ Backoff \in Nat /\ Interval \in Nat
    /\ MaxAge \in Nat /\ MaxWindow \in Nat /\ MaxDistinct \in Nat
    /\ Stale \in Nat /\ Stale = MaxAge + 1
  BY DemandAssumption DEF Stale

\* Nothing was asked yet.
LEMMA InitLifeInv == Init => LifeInv
  <1> SUFFICES ASSUME Init PROVE LifeInv
    OBVIOUS
  <1>1. QueueType
    <2>1. order = <<>> /\ order \in Seq({}) /\ known = {} /\ seen = {} /\ Len(order) = 0
      BY DEF Init
    <2>2. ToSet(order) = {}
      BY <2>1, Members
    <2>3. IsFiniteSet(known) /\ Cardinality(known) = 0
      BY <2>1, FS_EmptySet
    <2>4. QED
      BY <2>1, <2>2, <2>3, Numbers DEF QueueType
  <1>2. ClockType
    <2>1. /\ age = [id \in Ids |-> 0] /\ wait = 0 /\ cool = 0 /\ p80 = FALSE
          /\ p06 = Stale /\ gap = 0 /\ spent = 0
      BY DEF Init
    <2>2. age \in [Ids -> 0 .. Keep + 1]
      BY <2>1, Numbers
    <2>3. 0 \in 0 .. Interval + Backoff /\ 0 \in 0 .. Interval /\ 0 \in 0 .. MaxWindow
      BY Numbers
    <2>4. Stale \in 0 .. Stale /\ 0 \in 0 .. Stale
      BY Numbers
    <2>5. QED
      BY <2>1, <2>2, <2>3, <2>4 DEF ClockType
  <1>3. RecordType
    <2>1. \E x : x \in Kinds \X Ttls
      <3>1. PICK kind \in Kinds, t \in Ttls : TRUE
        BY DemandAssumption
      <3>2. <<kind, t>> \in Kinds \X Ttls
        OBVIOUS
      <3>3. QED
        BY <3>2
    <2>2. (CHOOSE x \in Kinds \X Ttls : TRUE) \in Kinds \X Ttls
      BY <2>1
    <2>3. asked \in [Ids -> Kinds \X Ttls]
      BY <2>2 DEF Init
    <2>4. QED
      <3>1. /\ pc = "poll" /\ failed = FALSE /\ lost = FALSE /\ windows = 0
            /\ state = [id \in Ids |-> "none"] /\ result = [id \in Ids |-> 0] /\ runs = [id \in Ids |-> {}]
        BY DEF Init
      <3>2. state \in [Ids -> {"none"} \cup Live \cup Ended]
        BY <3>1
      <3>3. windows \in Nat /\ result \in [Ids -> 0 .. windows] /\ runs \in [Ids -> SUBSET (1 .. windows)]
        BY <3>1
      <3>4. QED
        BY <2>3, <3>1, <3>2, <3>3 DEF RecordType
  <1>4. ReadInv /\ NothingStranded /\ GapInv
    BY DEF Init, ReadInv, NothingStranded, Running, GapInv, Live
  <1>5. QED
    BY <1>1, <1>2, <1>3, <1>4 DEF LifeInv

-----------------------------------------------------------------------------
\* What is selected waits in the queue, and is feasible.
LEMMA SelectedFromQueue ==
    ASSUME LifeInv
    PROVE  /\ Selected \subseteq ToSet(order)
           /\ \A id \in Selected : id \in known /\ state[id] = "queued"
           /\ Selected # {} => p06 + 2 <= MaxAge
  <1> DEFINE kinds(n) == {Kind(order[i]) : i \in 1 .. n}
             Fitting(n) == /\ Cardinality(kinds(n)) <= MaxDistinct
                           /\ n = Len(order) \/ Cardinality(kinds(n + 1)) > MaxDistinct
             T == {n \in 0 .. Len(order) : ~(Cardinality(kinds(n)) <= MaxDistinct)}
  <1>1. order \in Seq(known) /\ Len(order) \in Nat /\ \A id \in ToSet(order) : id \in known /\ state[id] = "queued"
    BY Members DEF LifeInv, QueueType
  <1>2. \E n \in 0 .. Len(order) : Fitting(n)
    <2>1. ASSUME NEW n \in Nat PROVE Cardinality(kinds(n)) \in Nat
      <3>1. IsFiniteSet(1 .. n)
        BY FS_Interval
      <3>2. [i \in 1 .. n |-> Kind(order[i])] \in Surjection(1 .. n, kinds(n))
        BY DEF Surjection
      <3>3. IsFiniteSet(kinds(n))
        BY <3>1, <3>2, FS_Surjection DEF ExistsSurjection
      <3>4. QED
        BY <3>3, FS_CardinalityType
    <2>2. CASE T = {}
      <3>1. Cardinality(kinds(Len(order))) <= MaxDistinct
        <4>1. Len(order) \in 0 .. Len(order)
          BY <1>1
        <4> HIDE DEF kinds
        <4>2. QED
          BY <2>2, <4>1
      <3> HIDE DEF kinds
      <3>2. QED
        BY <1>1, <3>1
    <2>3. CASE T # {}
      <3>1. T \in SUBSET Nat
        BY <1>1
      <3>2. PICK m \in T : \A n \in T : m <= n
        <4> HIDE DEF T
        <4>1. QED
          BY <2>3, <3>1, LeastNumber
      <3>3. m # 0
        <4>1. kinds(0) = {}
          OBVIOUS
        <4>2. Cardinality(kinds(0)) = 0
          BY <4>1, FS_EmptySet
        <4>3. Cardinality(kinds(0)) <= MaxDistinct
          BY <4>2, Numbers
        <4> HIDE DEF kinds
        <4>4. QED
          BY <3>2, <4>3
      <3>4. m \in 1 .. Len(order) /\ m - 1 \in 0 .. Len(order) /\ (m - 1) + 1 = m /\ m \in Nat /\ m - 1 \in Nat
        <4>1. m \in 0 .. Len(order)
          BY <3>2
        <4>2. QED
          BY <1>1, <3>3, <4>1
      <3>5. m - 1 \notin T
        <4>1. ~(m <= m - 1)
          BY <3>4
        <4> HIDE DEF T
        <4>2. QED
          BY <3>2, <4>1
      <3> HIDE DEF kinds
      <3>6. Cardinality(kinds(m - 1)) <= MaxDistinct
        BY <3>4, <3>5
      <3>7. Cardinality(kinds(m)) > MaxDistinct
        BY <2>1, <3>2, <3>4, Numbers
      <3>8. QED
        BY <3>4, <3>6, <3>7
    <2>4. QED
      BY <2>2, <2>3
  <1> DEFINE length == CHOOSE n \in 0 .. Len(order) : Fitting(n)
             ids    == {order[i] : i \in 1 .. length}
  <1>3. length \in 0 .. Len(order)
    <2> HIDE DEF Fitting
    <2>1. QED
      BY <1>2
  <1>4. Selected = IF failed \/ cool > 0 \/ ~Feasible(ids) THEN {} ELSE ids
    BY DEF Selected
  <1> HIDE DEF length
  <1>5. ids \subseteq ToSet(order)
    BY <1>1, <1>3, Members
  <1>6. QED
    BY <1>1, <1>4, <1>5 DEF Feasible

-----------------------------------------------------------------------------
\* The control socket.

\* The tickets whose time is up leave the queue, and old records are forgotten.
LEMMA PollLifeInv ==
    ASSUME LifeInv, Poll
    PROVE  LifeInv'
  <1>1. /\ pc = "poll" /\ pc' = "rpc"
        /\ state' = [id \in Ids |-> IF id \in Expired THEN "expired" ELSE state[id]]
        /\ order' = Without(order, Expired)
        /\ known' = {id \in known : state'[id] \in Live \/ age[id] <= Keep}
        /\ result' = [id \in Ids |-> IF id \in known' THEN result[id] ELSE 0]
        /\ UNCHANGED <<seen, asked, age, failed, wait, cool, p80, p06, gap, spent, windows, runs, lost>>
    BY DEF Poll, samples, ghost
  <1>2. QueueType /\ ClockType /\ RecordType
    BY DEF LifeInv
  <1>3. \A id \in Expired : state[id] = "queued"
    BY DEF Expired
  <1>4. known' \subseteq known /\ known \subseteq Ids
    BY <1>1, <1>2 DEF QueueType
  <1>5. QueueType'
    <2>1. /\ order' \in Seq(known) /\ Len(order') <= Len(order)
          /\ ToSet(order') = ToSet(order) \ Expired
          /\ ToSet(order) \subseteq known /\ Len(order) \in Nat /\ Len(order') \in Nat
      BY <1>1, <1>2, WithoutMembers, Members DEF QueueType
    <2>2. \A id \in ToSet(order') : id \in known /\ state'[id] = "queued"
      BY <1>1, <1>2, <1>4, <2>1 DEF QueueType
    <2>3. ToSet(order') \subseteq known'
      BY <1>1, <2>2 DEF Live
    <2>4. order' \in Seq(known')
      BY <2>1, <2>3, QueueOfMembers
    <2>5. IsFiniteSet(known') /\ Cardinality(known') <= Cardinality(known) /\ Cardinality(known') \in Nat /\ Cardinality(known) \in Nat
      BY <1>2, <1>4, FS_Subset, FS_CardinalityType DEF QueueType
    <2>6. Len(order') <= Capacity /\ Cardinality(known') <= MaxRecords
      BY <1>2, <2>1, <2>5, Numbers DEF QueueType
    <2>7. QED
      BY <1>1, <1>2, <2>2, <2>4, <2>5, <2>6 DEF QueueType
  <1>6. ClockType' /\ RecordType'
    <2>1. ClockType'
      BY <1>1, <1>2 DEF ClockType
    <2>2. state' \in [Ids -> {"none"} \cup Live \cup Ended]
      BY <1>1, <1>2 DEF RecordType, Ended
    <2>3. result' \in [Ids -> 0 .. windows]
      BY <1>1, <1>2 DEF RecordType
    <2>4. QED
      BY <1>1, <1>2, <2>1, <2>2, <2>3 DEF RecordType
  <1>7. ReadInv'
    <2> SUFFICES ASSUME NEW id \in Ids
                 PROVE  /\ state'[id] = "none" <=> id \notin seen'
                        /\ state'[id] \in Live => id \in known'
                        /\ state'[id] \in {"none", "queued"} => runs'[id] = {}
                        /\ state'[id] = "running" => runs'[id] = {windows'}
                        /\ runs'[id] = {} \/ \E w \in 1 .. windows' : runs'[id] = {w}
                        /\ result'[id] # 0 => id \in known' /\ state'[id] = "completed" /\ result'[id] \in runs'[id]
                        /\ state'[id] = "completed" /\ id \in known' /\ ~lost' => result'[id] # 0
      BY DEF ReadInv
    <2>1. /\ state'[id] = IF id \in Expired THEN "expired" ELSE state[id]
          /\ result'[id] = IF id \in known' THEN result[id] ELSE 0
          /\ id \in known' <=> id \in known /\ (state'[id] \in Live \/ age[id] <= Keep)
      BY <1>1
    <2>2. /\ state[id] = "none" <=> id \notin seen
          /\ state[id] \in Live => id \in known
          /\ state[id] \in {"none", "queued"} => runs[id] = {}
          /\ state[id] = "running" => runs[id] = {windows}
          /\ runs[id] = {} \/ \E w \in 1 .. windows : runs[id] = {w}
          /\ result[id] # 0 => id \in known /\ state[id] = "completed" /\ result[id] \in runs[id]
          /\ state[id] = "completed" /\ id \in known /\ ~lost => result[id] # 0
      BY DEF LifeInv, ReadInv
    <2>3. QED
      BY <1>1, <1>3, <2>1, <2>2 DEF Live
  <1>8. NothingStranded' /\ GapInv'
    BY <1>1 DEF LifeInv, NothingStranded, Running, GapInv
  <1>9. QED
    BY <1>5, <1>6, <1>7, <1>8 DEF LifeInv

\* A request is accepted: an identifier nobody has used.
LEMMA SubmitInv ==
    ASSUME LifeInv, NEW id \in Ids, NEW kind \in Kinds, NEW life \in Ttls, Submit(id, kind, life)
    PROVE  LifeInv'
  <1>1. /\ pc = "rpc" /\ id \notin known /\ id \notin seen
        /\ Cardinality(known) < MaxRecords /\ Len(order) < Capacity
        /\ known' = known \cup {id} /\ seen' = seen \cup {id}
        /\ asked' = [asked EXCEPT ![id] = <<kind, life>>]
        /\ state' = [state EXCEPT ![id] = "queued"]
        /\ age' = [age EXCEPT ![id] = 0]
        /\ order' = Append(order, id)
        /\ UNCHANGED <<pc, result, failed, wait, cool, p80, p06, gap, spent, windows, runs, lost>>
    BY DEF Submit, samples, ghost
  <1>2. QueueType /\ ClockType /\ RecordType
    BY DEF LifeInv
  <1>3. state[id] = "none" /\ runs[id] = {} /\ result[id] = 0
    BY <1>1 DEF LifeInv, ReadInv
  <1>4. QueueType'
    <2>1. order \in Seq(known') /\ ToSet(order) \subseteq known /\ Len(order) \in Nat
      BY <1>1, <1>2, Members, QueueOfMembers DEF QueueType
    <2>2. order' \in Seq(known') /\ Len(order') = Len(order) + 1 /\ ToSet(order') = ToSet(order) \cup {id}
      BY <1>1, <2>1, AppendMembers
    <2>3. \A x \in ToSet(order') : state'[x] = "queued"
      BY <1>1, <1>2, <2>1, <2>2 DEF QueueType, RecordType
    <2>4. IsFiniteSet(known') /\ Cardinality(known') = Cardinality(known) + 1 /\ Cardinality(known) \in Nat
      BY <1>1, <1>2, FS_AddElement, FS_CardinalityType DEF QueueType
    <2>5. Len(order') <= Capacity /\ Cardinality(known') <= MaxRecords
      BY <1>1, <2>1, <2>2, <2>4, Numbers
    <2>6. QED
      BY <1>1, <1>2, <2>3, <2>4, <2>5 DEF QueueType
  <1>5. ClockType' /\ RecordType'
    <2>1. age' \in [Ids -> 0 .. Keep + 1]
      BY <1>1, <1>2, Numbers DEF ClockType
    <2>2. asked' \in [Ids -> Kinds \X Ttls] /\ state' \in [Ids -> {"none"} \cup Live \cup Ended]
      BY <1>1, <1>2 DEF RecordType, Live
    <2>3. QED
      BY <1>1, <1>2, <2>1, <2>2 DEF ClockType, RecordType
  <1>6. ReadInv'
    BY <1>1, <1>2, <1>3 DEF LifeInv, ReadInv, RecordType, Live
  <1>7. NothingStranded' /\ GapInv'
    BY <1>1, <1>2 DEF LifeInv, NothingStranded, Running, GapInv
  <1>8. QED
    BY <1>4, <1>5, <1>6, <1>7 DEF LifeInv

\* A request that still waits is withdrawn.
LEMMA CancelLifeInv ==
    ASSUME LifeInv, NEW id \in Ids, Cancel(id)
    PROVE  LifeInv'
  <1>1. /\ pc = "rpc" /\ id \in known /\ id \in ToSet(order)
        /\ state' = [state EXCEPT ![id] = "cancelled"]
        /\ order' = Without(order, {id})
        /\ UNCHANGED <<pc, known, seen, asked, age, result, failed, wait, cool, p80, p06, gap, spent,
                       windows, runs, lost>>
    BY DEF Cancel, samples, ghost
  <1>2. QueueType /\ ClockType /\ RecordType
    BY DEF LifeInv
  <1>3. state[id] = "queued"
    BY <1>1, <1>2 DEF QueueType
  <1>4. QueueType'
    <2>1. /\ order' \in Seq(known) /\ Len(order') <= Len(order)
          /\ ToSet(order') = ToSet(order) \ {id}
          /\ Len(order) \in Nat /\ Len(order') \in Nat
      BY <1>1, <1>2, WithoutMembers, Members DEF QueueType
    <2>2. \A x \in ToSet(order') : state'[x] = "queued"
      <3>1. ToSet(order) \subseteq Ids
        BY <1>2, Members DEF QueueType
      <3>2. QED
        BY <1>1, <1>2, <2>1, <3>1 DEF QueueType, RecordType
    <2>3. Len(order') <= Capacity
      BY <1>2, <2>1, Numbers DEF QueueType
    <2>4. QED
      BY <1>1, <1>2, <2>1, <2>2, <2>3 DEF QueueType
  <1>5. ClockType' /\ RecordType'
    <2>1. state' \in [Ids -> {"none"} \cup Live \cup Ended]
      BY <1>1, <1>2 DEF RecordType, Ended
    <2>2. QED
      BY <1>1, <1>2, <2>1 DEF ClockType, RecordType
  <1>6. ReadInv'
    BY <1>1, <1>2, <1>3 DEF LifeInv, ReadInv, RecordType, Live
  <1>7. NothingStranded' /\ GapInv'
    BY <1>1, <1>2 DEF LifeInv, NothingStranded, Running, GapInv
  <1>8. QED
    BY <1>4, <1>5, <1>6, <1>7 DEF LifeInv

-----------------------------------------------------------------------------
\* The main loop.

\* A step that leaves requests and windows alone and begins no window.
LEMMA QuietInv ==
    ASSUME LifeInv, ClockType', UNCHANGED <<requests, ghost>>, failed' \in BOOLEAN,
           pc' \in {"poll", "rpc", "tick", "frozen", "window", "legacy", "dead"},
           pc = "window" <=> pc' = "window",
           GapInv'
    PROVE  LifeInv'
  <1>1. QueueType' /\ RecordType'
    BY DEF LifeInv, QueueType, RecordType, requests, ghost
  <1>2. ReadInv' /\ NothingStranded'
    BY DEF LifeInv, ReadInv, NothingStranded, Running, requests, ghost
  <1>3. QED
    BY <1>1, <1>2 DEF LifeInv

\* The steps of the loop between two windows.
LEMMA LoopInv ==
    ASSUME LifeInv, EndOfPoll \/ Tick \/ Refused \/ Legacy
    PROVE  LifeInv'
  <1>1. ClockType /\ failed \in BOOLEAN
    BY DEF LifeInv, RecordType
  <1>2. /\ UNCHANGED <<requests, ghost, age, cool, spent>>
        /\ pc # "window" /\ pc' \in {"poll", "tick", "frozen", "legacy", "dead"}
        /\ failed' \in {failed, TRUE}
    BY DEF EndOfPoll, Tick, Refused, Legacy
  <1>3. wait' \in {wait, Backoff} /\ p80' \in BOOLEAN /\ p06' \in {p06, 0, Stale} /\ gap' = gap
    BY <1>1 DEF EndOfPoll, Tick, Refused, Legacy, samples, ClockType
  <1>4. ClockType'
    <2>1. wait' \in 0 .. Interval + Backoff
      <3>1. Backoff \in 0 .. Interval + Backoff
        BY Numbers
      <3>2. QED
        BY <1>1, <1>3, <3>1 DEF ClockType
    <2>2. p06' \in 0 .. Stale
      BY <1>1, <1>3, Numbers DEF ClockType
    <2>3. QED
      BY <1>1, <1>2, <1>3, <2>1, <2>2 DEF ClockType
  <1>5. GapInv'
    BY <1>2 DEF GapInv
  <1>6. QED
    BY <1>1, <1>2, <1>4, <1>5, QuietInv

\* One tick more on both sides of the budget.
LEMMA OneLater ==
    ASSUME NEW g \in Nat, NEW later \in Nat, NEW limit \in Nat, NEW n \in Nat,
           g + 2 <= limit + n, later <= g + 1
    PROVE  later + 2 <= limit + (n + 1)
  OBVIOUS

\* Time passes, in a window for its P06 gap as well.
LEMMA TimeInv ==
    ASSUME LifeInv, Time
    PROVE  LifeInv'
  <1>1. ClockType /\ known \subseteq Ids /\ pc \in {"poll", "rpc", "tick", "frozen", "window", "legacy", "dead"}
    BY DEF LifeInv, RecordType, QueueType
  <1>2. /\ UNCHANGED <<pc, requests, failed, ghost>>
        /\ \/ pc \in {"legacy", "frozen"} /\ UNCHANGED spent
           \/ pc = "window" /\ spent < MaxWindow /\ spent' = spent + 1
        /\ age' = [id \in Ids |-> IF id \in known THEN Older(age[id], Keep + 1) ELSE age[id]]
        /\ wait' = Sooner(wait) /\ cool' = Sooner(cool)
        /\ p80' \in {p80, FALSE} /\ p06' = Older(p06, Stale)
        /\ gap' = IF pc = "window" THEN Older(gap, Stale) ELSE gap
    BY DEF Time
  <1>3. ASSUME NEW limit \in Nat, NEW n \in 0 .. limit
        PROVE  Older(n, limit) \in 0 .. limit /\ Sooner(n) \in 0 .. limit /\ Older(n, limit) <= n + 1
    BY DEF Older, Sooner
  <1>4. ClockType'
    <2>1. age' \in [Ids -> 0 .. Keep + 1]
      <3>1. Keep + 1 \in Nat
        BY Numbers
      <3>2. \A id \in Ids : Older(age[id], Keep + 1) \in 0 .. Keep + 1 /\ age[id] \in 0 .. Keep + 1
        BY <1>1, <1>3, <3>1 DEF ClockType
      <3>3. QED
        BY <1>2, <3>2
    <2>2. wait' \in 0 .. Interval + Backoff /\ cool' \in 0 .. Interval
      <3>1. Interval + Backoff \in Nat /\ Interval \in Nat
        BY Numbers
      <3>2. QED
        BY <1>1, <1>2, <1>3, <3>1 DEF ClockType
    <2>3. p80' \in BOOLEAN /\ p06' \in 0 .. Stale /\ gap' \in 0 .. Stale
      BY <1>1, <1>2, <1>3, Numbers DEF ClockType
    <2>4. spent' \in 0 .. MaxWindow
      BY <1>1, <1>2, Numbers DEF ClockType
    <2>5. QED
      BY <2>1, <2>2, <2>3, <2>4 DEF ClockType
  <1>5. GapInv'
    <2>1. CASE pc = "window"
      <3>1. gap + 2 <= MaxAge + spent /\ gap \in 0 .. Stale /\ spent \in 0 .. MaxWindow
        BY <1>1, <2>1 DEF LifeInv, GapInv, ClockType
      <3>2. spent' = spent + 1 /\ gap' <= gap + 1 /\ gap' \in 0 .. Stale
        BY <1>2, <1>3, <2>1, <3>1, Numbers
      <3>3. gap \in Nat /\ gap' \in Nat /\ spent \in Nat /\ MaxAge \in Nat
        BY <3>1, <3>2, Numbers
      <3>4. gap' + 2 <= MaxAge + (spent + 1)
        BY <3>1, <3>2, <3>3, OneLater
      <3>5. QED
        BY <3>2, <3>4 DEF GapInv
    <2>2. CASE pc # "window"
      BY <1>2, <2>2 DEF GapInv
    <2>3. QED
      BY <2>1, <2>2
  <1>6. failed' \in BOOLEAN
    BY <1>2 DEF LifeInv, RecordType
  <1>7. QED
    BY <1>2, <1>4, <1>5, <1>6, QuietInv

\* The window opens over what was selected, and over nothing else.
LEMMA EnterInv ==
    ASSUME LifeInv, Enter
    PROVE  LifeInv'
  <1> DEFINE ids == Selected
  <1>1. /\ pc = "frozen" /\ pc' = "window" /\ ids # {}
        /\ state' = [id \in Ids |-> IF id \in ids THEN "running" ELSE state[id]]
        /\ order' = Without(order, ids)
        /\ windows' = windows + 1
        /\ runs' = [id \in Ids |-> IF id \in ids THEN runs[id] \cup {windows + 1} ELSE runs[id]]
        /\ p80' = FALSE /\ p06' = Stale /\ gap' = p06 /\ spent' = 0
        /\ UNCHANGED <<known, seen, asked, result, lost, age, failed, wait, cool>>
    BY DEF Enter, Reserve
  <1>2. /\ \A id \in ids : id \in known /\ id \in Ids /\ state[id] = "queued"
        /\ p06 + 2 <= MaxAge
    BY <1>1, SelectedFromQueue DEF LifeInv, QueueType
  <1> HIDE DEF ids
  <1>3. QueueType /\ ClockType /\ RecordType /\ windows \in Nat
    BY DEF LifeInv, RecordType
  <1>4. Running = {}
    BY <1>1 DEF LifeInv, NothingStranded
  <1>5. QueueType'
    <2>1. /\ order' \in Seq(known) /\ Len(order') <= Len(order)
          /\ ToSet(order') = ToSet(order) \ ids /\ ToSet(order) \subseteq Ids
          /\ Len(order) \in Nat /\ Len(order') \in Nat
      BY <1>1, <1>3, WithoutMembers, Members DEF QueueType
    <2>2. \A x \in ToSet(order') : state'[x] = "queued"
      BY <1>1, <1>3, <2>1 DEF QueueType
    <2>3. Len(order') <= Capacity
      BY <1>3, <2>1, Numbers DEF QueueType
    <2>4. QED
      BY <1>1, <1>3, <2>1, <2>2, <2>3 DEF QueueType
  <1>6. ClockType'
    <2>1. 0 \in 0 .. MaxWindow /\ Stale \in 0 .. Stale
      BY Numbers
    <2>2. QED
      BY <1>1, <1>3, <2>1 DEF ClockType
  <1>7. RecordType'
    <2>1. state' \in [Ids -> {"none"} \cup Live \cup Ended]
      BY <1>1, <1>3 DEF RecordType, Live
    <2>2. windows' \in Nat /\ 0 .. windows \subseteq 0 .. windows' /\ 1 .. windows \subseteq 1 .. windows'
          /\ windows + 1 \in 1 .. windows'
      BY <1>1, <1>3
    <2>3. result' \in [Ids -> 0 .. windows']
      BY <1>1, <1>3, <2>2 DEF RecordType
    <2>4. runs' \in [Ids -> SUBSET (1 .. windows')]
      BY <1>1, <1>3, <2>2 DEF RecordType
    <2>5. QED
      BY <1>1, <1>3, <2>1 DEF RecordType
  <1>8. ReadInv'
    <2> SUFFICES ASSUME NEW id \in Ids
                 PROVE  /\ state'[id] = "none" <=> id \notin seen'
                        /\ state'[id] \in Live => id \in known'
                        /\ state'[id] \in {"none", "queued"} => runs'[id] = {}
                        /\ state'[id] = "running" => runs'[id] = {windows'}
                        /\ runs'[id] = {} \/ \E w \in 1 .. windows' : runs'[id] = {w}
                        /\ result'[id] # 0 => id \in known' /\ state'[id] = "completed" /\ result'[id] \in runs'[id]
                        /\ state'[id] = "completed" /\ id \in known' /\ ~lost' => result'[id] # 0
      BY DEF ReadInv
    <2>1. /\ state[id] = "none" <=> id \notin seen
          /\ state[id] \in Live => id \in known
          /\ state[id] \in {"none", "queued"} => runs[id] = {}
          /\ runs[id] = {} \/ \E w \in 1 .. windows : runs[id] = {w}
          /\ result[id] # 0 => id \in known /\ state[id] = "completed" /\ result[id] \in runs[id]
          /\ state[id] = "completed" /\ id \in known /\ ~lost => result[id] # 0
          /\ state[id] # "running"
      BY <1>4 DEF LifeInv, ReadInv, Running
    <2>2. 1 .. windows \subseteq 1 .. windows' /\ windows' \in 1 .. windows' /\ windows' = windows + 1
      BY <1>1, <1>3
    <2>3. CASE id \in ids
      <3>1. state'[id] = "running" /\ state[id] = "queued" /\ runs'[id] = {windows'} /\ id \in known
        BY <1>1, <1>2, <2>1, <2>3
      <3>2. QED
        BY <1>1, <1>3, <2>1, <2>2, <3>1 DEF Live, QueueType
    <2>4. CASE id \notin ids
      <3>1. state'[id] = state[id] /\ runs'[id] = runs[id]
        BY <1>1, <2>4
      <3>2. QED
        BY <1>1, <2>1, <2>2, <3>1
    <2>5. QED
      BY <2>3, <2>4
  <1>9. NothingStranded' /\ GapInv'
    BY <1>1, <1>2, <1>3, Numbers DEF NothingStranded, GapInv, ClockType
  <1>10. QED
    BY <1>5, <1>6, <1>7, <1>8, <1>9 DEF LifeInv

\* The window is over: whatever was read in it ends with it.
LEMMA VerifiedInv ==
    ASSUME LifeInv, WindowVerified
    PROVE  LifeInv'
  <1>1. /\ pc = "window" /\ pc' = "legacy"
        /\ state' = [id \in Ids |-> IF id \in Completed THEN "completed"
                                    ELSE IF id \in Running THEN "expired" ELSE state[id]]
        /\ p80' = TRUE /\ p06' = 0 /\ gap' = 0 /\ cool' = Interval
        /\ \/ result' = Answers(Completed) /\ wait' = Interval /\ UNCHANGED lost
           \/ lost' = TRUE /\ UNCHANGED <<result, wait>>
        /\ UNCHANGED <<known, seen, asked, order, age, failed, spent, windows, runs>>
    BY DEF WindowVerified
  <1>2. QueueType /\ ClockType /\ RecordType /\ windows \in Nat
    BY DEF LifeInv, RecordType
  <1>3. \A id \in Ids : id \in Running <=> state[id] = "running"
    BY DEF Running
  <1>4. Completed \subseteq Running /\ Running \subseteq Ids
    BY DEF Completed, Running
  <1>5. QueueType'
    <2>1. ToSet(order) \subseteq Ids
      BY <1>2, Members DEF QueueType
    <2>2. \A id \in ToSet(order) : state'[id] = "queued"
      BY <1>1, <1>2, <1>3, <1>4, <2>1 DEF QueueType
    <2>3. QED
      BY <1>1, <1>2, <2>2 DEF QueueType
  <1>6. ClockType'
    <2>1. 0 \in 0 .. Stale /\ Interval \in 0 .. Interval /\ Interval \in 0 .. Interval + Backoff
      BY Numbers
    <2>2. QED
      BY <1>1, <1>2, <2>1 DEF ClockType
  <1>7. RecordType'
    <2>1. state' \in [Ids -> {"none"} \cup Live \cup Ended]
      BY <1>1, <1>2 DEF RecordType, Ended
    <2>2. result' \in [Ids -> 0 .. windows]
      <3>1. windows \in 0 .. windows
        BY <1>2
      <3>2. QED
        BY <1>1, <1>2, <3>1 DEF RecordType, Answers
    <2>3. lost' \in BOOLEAN
      BY <1>1, <1>2 DEF RecordType
    <2>4. QED
      BY <1>1, <1>2, <2>1, <2>2, <2>3 DEF RecordType
  <1>8. ReadInv'
    <2> SUFFICES ASSUME NEW id \in Ids
                 PROVE  /\ state'[id] = "none" <=> id \notin seen'
                        /\ state'[id] \in Live => id \in known'
                        /\ state'[id] \in {"none", "queued"} => runs'[id] = {}
                        /\ state'[id] = "running" => runs'[id] = {windows'}
                        /\ runs'[id] = {} \/ \E w \in 1 .. windows' : runs'[id] = {w}
                        /\ result'[id] # 0 => id \in known' /\ state'[id] = "completed" /\ result'[id] \in runs'[id]
                        /\ state'[id] = "completed" /\ id \in known' /\ ~lost' => result'[id] # 0
      BY DEF ReadInv
    <2>1. /\ state[id] = "none" <=> id \notin seen
          /\ state[id] \in Live => id \in known
          /\ state[id] \in {"none", "queued"} => runs[id] = {}
          /\ state[id] = "running" => runs[id] = {windows}
          /\ runs[id] = {} \/ \E w \in 1 .. windows : runs[id] = {w}
          /\ result[id] # 0 => id \in known /\ state[id] = "completed" /\ result[id] \in runs[id]
          /\ state[id] = "completed" /\ id \in known /\ ~lost => result[id] # 0
      BY DEF LifeInv, ReadInv
    <2>2. CASE id \in Running
      <3>1. /\ state[id] = "running" /\ runs'[id] = {windows} /\ result[id] = 0 /\ id \in known
            /\ state'[id] = IF id \in Completed THEN "completed" ELSE "expired"
        BY <1>1, <1>3, <2>1, <2>2 DEF Live
      <3>2. windows # 0 /\ windows \in 1 .. windows
        BY <1>2, <2>1, <3>1
      <3>3. id \in seen
        BY <2>1, <3>1
      <3>4. result'[id] = 0 \/ (id \in Completed /\ result'[id] = windows)
        BY <1>1, <3>1 DEF Answers
      <3>5. id \in Completed /\ ~lost' => result'[id] = windows
        BY <1>1 DEF Answers
      <3>6. QED
        BY <1>1, <3>1, <3>2, <3>3, <3>4, <3>5 DEF Live
    <2>3. CASE id \notin Running
      <3>1. state'[id] = state[id] /\ result'[id] = result[id] /\ (~lost' => ~lost)
        BY <1>1, <1>4, <2>3 DEF Answers
      <3>2. QED
        BY <1>1, <2>1, <3>1
    <2>4. QED
      BY <2>2, <2>3
  <1>9. NothingStranded' /\ GapInv'
    <2>1. Running' = {}
      BY <1>1, <1>3, <1>4 DEF Running
    <2>2. QED
      BY <1>1, <2>1 DEF NothingStranded, GapInv
  <1>10. QED
    BY <1>5, <1>6, <1>7, <1>8, <1>9 DEF LifeInv

\* The window fails, and its tickets with it.
LEMMA FailsInv ==
    ASSUME LifeInv, WindowFails
    PROVE  LifeInv'
  <1>1. /\ pc' \in {"dead", "legacy"} /\ failed' = TRUE
        /\ state' = [id \in Ids |-> IF id \in Running THEN "failed" ELSE state[id]]
        /\ p80' = FALSE /\ p06' = Stale
        /\ UNCHANGED <<known, seen, asked, order, result, age, wait, cool, gap, spent, windows, runs, lost>>
    BY DEF WindowFails, ghost
  <1>2. QueueType /\ ClockType /\ RecordType
    BY DEF LifeInv
  <1>3. \A id \in Ids : id \in Running <=> state[id] = "running"
    BY DEF Running
  <1>4. QueueType'
    <2>1. ToSet(order) \subseteq Ids
      BY <1>2, Members DEF QueueType
    <2>2. QED
      BY <1>1, <1>2, <1>3, <2>1 DEF QueueType
  <1>5. ClockType' /\ RecordType'
    <2>1. state' \in [Ids -> {"none"} \cup Live \cup Ended]
      BY <1>1, <1>2 DEF RecordType, Ended
    <2>2. Stale \in 0 .. Stale
      BY Numbers
    <2>3. QED
      BY <1>1, <1>2, <2>1, <2>2 DEF ClockType, RecordType
  <1>6. ReadInv'
    BY <1>1, <1>2, <1>3 DEF LifeInv, ReadInv, Live
  <1>7. NothingStranded' /\ GapInv'
    <2>1. Running' = {}
      BY <1>1, <1>3 DEF Running
    <2>2. QED
      BY <1>1, <2>1 DEF NothingStranded, GapInv
  <1>8. QED
    BY <1>4, <1>5, <1>6, <1>7 DEF LifeInv

-----------------------------------------------------------------------------
\* LifeInv is inductive.
LEMMA NextLifeInv == LifeInv /\ [Next]_vars => LifeInv'
  <1> SUFFICES ASSUME LifeInv, [Next]_vars PROVE LifeInv'
    OBVIOUS
  <1>1. CASE Rpc
    <2>1. ASSUME NEW id \in Ids, Cancel(id) PROVE LifeInv'
      BY <2>1, CancelLifeInv
    <2>2. ASSUME NEW id \in Ids, NEW kind \in Kinds, NEW life \in Ttls, Submit(id, kind, life) PROVE LifeInv'
      BY <2>2, SubmitInv
    <2>3. QED
      BY <1>1, <2>1, <2>2 DEF Rpc
  <1>2. CASE Loop
    BY <1>2, PollLifeInv, LoopInv, EnterInv, VerifiedInv, FailsInv DEF Loop
  <1>3. CASE Time
    BY <1>3, TimeInv
  <1>4. CASE UNCHANGED vars
    BY <1>4
       DEF vars, requests, samples, ghost, LifeInv, QueueType, ClockType, RecordType, ReadInv,
           NothingStranded, Running, GapInv
  <1>5. QED
    BY <1>1, <1>2, <1>3, <1>4 DEF Next

\* The invariant of the demand path.
LEMMA SpecLifeInv == Spec => []LifeInv
  BY InitLifeInv, NextLifeInv, PTL DEF Spec

-----------------------------------------------------------------------------
\* A request is read once at most, sees its own bytes, is never left reserved, and its
\* window keeps the P06 budget (submit, plan_phase_windows, complete, note_outcome).
THEOREM DemandSafe == Spec => []DemandInv
  <1>1. LifeInv => DemandInv
    <2> SUFFICES ASSUME LifeInv PROVE DemandInv
      OBVIOUS
    <2>1. TypeOK
      BY TypeParts DEF LifeInv
    <2>2. AtMostOneRead
      <3>1. \A id \in Ids : runs[id] = {} \/ \E w : runs[id] = {w}
        BY DEF LifeInv, ReadInv
      <3>2. Cardinality({}) = 0 /\ \A w : Cardinality({w}) = 1
        BY FS_EmptySet, FS_Singleton
      <3>3. ASSUME NEW id \in Ids PROVE Cardinality(runs[id]) <= 1
        <4>1. CASE runs[id] = {}
          BY <3>2, <4>1
        <4>2. CASE \E w : runs[id] = {w}
          <5>1. PICK w : runs[id] = {w}
            BY <4>2
          <5>2. Cardinality({w}) = 1
            BY <3>2
          <5>3. Cardinality(runs[id]) = 1
            BY <5>1, <5>2
          <5>4. QED
            BY <5>3
        <4>3. QED
          BY <3>1, <4>1, <4>2
      <3>4. QED
        BY <3>3 DEF AtMostOneRead
    <2>3. ResultIsItsOwn
      BY DEF LifeInv, ReadInv, ResultIsItsOwn, QueueType
    <2>4. P06GapBounded
      <3> SUFFICES ASSUME pc = "window", spent <= 2 PROVE gap <= MaxAge
        BY DEF P06GapBounded
      <3>1. gap \in Nat /\ spent \in Nat /\ MaxAge \in Nat /\ gap + 2 <= MaxAge + spent
        BY Numbers DEF LifeInv, GapInv, ClockType
      <3>2. QED
        BY <3>1
    <2>5. QED
      BY <2>1, <2>2, <2>3, <2>4 DEF LifeInv, DemandInv
  <1>2. QED
    BY <1>1, SpecLifeInv, PTL

-----------------------------------------------------------------------------
\* Every step of the code is a step of the contract, or nothing a client sees.
LEMMA StepRefines ==
    ASSUME LifeInv, [Next]_vars
    PROVE  [Contract!Next]_(Contract!contractVars)
  <1> USE DEF Contract!contractVars, Contract!Being, Contract!Become
  <1>0. RecordType /\ known \subseteq Ids
    BY DEF LifeInv, QueueType
  <1>1. ASSUME Poll PROVE [Contract!Next]_(Contract!contractVars)
    <2> DEFINE old == {id \in Ids : id \notin known' /\ result[id] # 0}
    <2>1. /\ state' = [id \in Ids |-> IF id \in Expired THEN "expired" ELSE state[id]]
          /\ result' = [id \in Ids |-> IF id \in known' THEN result[id] ELSE 0]
          /\ known' \subseteq known /\ windows' = windows
      BY <1>1 DEF Poll, ghost
    <2>2. Expired \subseteq {id \in Ids : state[id] = "queued"}
      BY DEF Expired
    <2>3. old \subseteq {id \in Ids : state'[id] \in Contract!Over}
      BY <2>1, <2>2 DEF Contract!Over, LifeInv, ReadInv
    <2>4. result' = [id \in Ids |-> IF id \in old THEN 0 ELSE result[id]]
      BY <2>1
    <2> HIDE DEF old
    <2>5. Contract!Tidy
      BY <2>1, <2>2, <2>3, <2>4 DEF Contract!Tidy
    <2>6. QED
      BY <2>5 DEF Contract!Next
  <1>2. ASSUME NEW id \in Ids, NEW kind \in Kinds, NEW life \in Ttls, Submit(id, kind, life)
        PROVE  [Contract!Next]_(Contract!contractVars)
    <2>1. state[id] = "none" /\ state' = [state EXCEPT ![id] = "queued"] /\ UNCHANGED <<result, windows>>
      BY <1>2 DEF Submit, ghost, LifeInv, ReadInv
    <2>2. state' = [x \in Ids |-> IF x \in {id} THEN "queued" ELSE state[x]]
      BY <1>0, <2>1 DEF RecordType
    <2>3. Contract!Ask
      BY <2>1, <2>2 DEF Contract!Ask
    <2>4. QED
      BY <2>3 DEF Contract!Next
  <1>3. ASSUME NEW id \in Ids, Cancel(id) PROVE [Contract!Next]_(Contract!contractVars)
    <2>1. state[id] = "queued" /\ state' = [state EXCEPT ![id] = "cancelled"] /\ UNCHANGED <<result, windows>>
      BY <1>3 DEF Cancel, ghost, LifeInv, QueueType
    <2>2. state' = [x \in Ids |-> IF x \in {id} THEN "cancelled" ELSE state[x]]
      BY <1>0, <2>1 DEF RecordType
    <2>3. Contract!Withdraw
      BY <2>1, <2>2 DEF Contract!Withdraw
    <2>4. QED
      BY <2>3 DEF Contract!Next
  <1>4. ASSUME Enter PROVE [Contract!Next]_(Contract!contractVars)
    <2>1. /\ Selected # {}
          /\ state' = [id \in Ids |-> IF id \in Selected THEN "running" ELSE state[id]]
          /\ windows' = windows + 1 /\ result' = result /\ pc = "frozen"
      BY <1>4 DEF Enter, Reserve
    <2>2. {id \in Ids : state[id] = "running"} = {}
      BY <2>1 DEF LifeInv, NothingStranded, Running
    <2>3. Selected \subseteq {id \in Ids : state[id] = "queued"}
      BY <1>0, SelectedFromQueue
    <2>4. Contract!Open
      BY <2>1, <2>2, <2>3 DEF Contract!Open
    <2>5. QED
      BY <2>4 DEF Contract!Next
  <1>5. ASSUME WindowVerified PROVE [Contract!Next]_(Contract!contractVars)
    <2> DEFINE running == {id \in Ids : state[id] = "running"}
    <2>1. Completed \subseteq running /\ Running = running
      BY DEF Completed, Running
    <2>2. /\ state' = [id \in Ids |-> IF id \in Completed THEN "completed"
                                      ELSE IF id \in running THEN "expired" ELSE state[id]]
          /\ windows' = windows
          /\ result' = Answers(Completed) \/ result' = result
      BY <1>5, <2>1 DEF WindowVerified
    <2>3. \E shown \in {Completed, {}} :
            result' = [id \in Ids |-> IF id \in shown THEN windows ELSE result[id]]
      <3>1. CASE result' = Answers(Completed)
        BY <3>1 DEF Answers
      <3>2. CASE result' = result
        <4>1. result = [id \in Ids |-> IF id \in {} THEN windows ELSE result[id]]
          BY <1>0 DEF RecordType
        <4>2. QED
          BY <3>2, <4>1
      <3>3. QED
        BY <2>2, <3>1, <3>2
    <2>4. Contract!Close
      BY <2>1, <2>2, <2>3 DEF Contract!Close
    <2>5. QED
      BY <2>4 DEF Contract!Next
  <1>6. ASSUME WindowFails PROVE [Contract!Next]_(Contract!contractVars)
    <2>1. Contract!Fail
      BY <1>6 DEF WindowFails, Running, ghost, Contract!Fail
    <2>2. QED
      BY <2>1 DEF Contract!Next
  <1>7. ASSUME EndOfPoll \/ Tick \/ Refused \/ Legacy \/ Time \/ UNCHANGED vars
        PROVE  UNCHANGED Contract!contractVars
    BY <1>7 DEF EndOfPoll, Tick, Refused, Legacy, Time, vars, requests, ghost
  <1>8. QED
    BY <1>1, <1>2, <1>3, <1>4, <1>5, <1>6, <1>7 DEF Next, Rpc, Loop

\* The code keeps the contract of the control socket, whatever refuses, fails or runs out
\* of time inside (submit, cancel, _prune, reserve, complete, note_outcome).
THEOREM DemandImplementsContract == Spec => ImplementsContract
  <1>1. Init => Contract!Init
    BY DEF Init, Contract!Init
  <1>2. LifeInv /\ [Next]_vars => [Contract!Next]_(Contract!contractVars)
    BY StepRefines
  <1>3. QED
    BY <1>1, <1>2, SpecLifeInv, PTL DEF Spec, ImplementsContract, Contract!Spec
=============================================================================
