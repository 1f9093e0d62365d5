------------------------------ MODULE ReadQueue ------------------------------
(***************************************************************************)
(* BoundedReadQueue of scheduler.py: clients submit and cancel reads of both  *)
(* protocols, one consumer thread takes them one at a time, preferring the    *)
(* protocol the controller speaks, and finishes them.                         *)
(*                                                                          *)
(* Every call holds the lock, so a call is a step.  Expiry is noticed by the  *)
(* next call that looks for it, as in the code.                              *)
(***************************************************************************)
EXTENDS Naturals, Sequences, FiniteSets, SequencesExt, Queues

CONSTANTS
    QueueCapacity, \* capacity
    MaxSameMode,   \* max_same_mode
    Ttl,           \* the largest time to live, in ticks
    Threads,       \* threads that call take
    MaxTickets     \* bound: tickets

Modes == {"vs1", "p300"}

ASSUME QueueAssumption ==
    /\ {QueueCapacity, MaxSameMode, Ttl} \subseteq Nat \ {0}
    /\ MaxTickets \in Nat /\ "none" \notin Threads

Tickets == 1 .. MaxTickets   \* a ticket is its sequence number

VARIABLES
    pending,   \* _pending
    ticket,    \* ticket[n]: the state of ticket n
    protocol,  \* protocol[n]: kind.mode
    ttl,       \* ttl[n]: ticks until its deadline
    inflight,  \* _inflight, 0 without one
    consumer,  \* _consumer_tid
    lastMode, sameCount, \* _last_mode, _same_mode_count
    closed,
    passed     \* not in the code: takes in a row that passed over a ticket of the other protocol

fairness  == <<lastMode, sameCount, passed>>
queueVars == <<pending, ticket, protocol, ttl, inflight, consumer, closed, fairness>>

Final == {"completed", "failed", "cancelled", "expired"}

QueueTypeOK ==
    /\ pending \in Seq(Tickets) /\ Len(pending) <= QueueCapacity
    /\ ticket \in [Tickets -> {"none", "queued", "running"} \cup Final]
    /\ protocol \in [Tickets -> Modes] /\ ttl \in [Tickets -> 0 .. Ttl]
    /\ inflight \in Tickets \cup {0} /\ consumer \in Threads \cup {"none"}
    /\ lastMode \in Modes \cup {"none"} /\ sameCount \in Nat /\ passed \in Nat
    /\ closed \in BOOLEAN

\* The deadlines that still matter: those of waiting tickets.
Deadlines == ttl' = [n \in Tickets |-> IF n \in ToSet(pending') THEN ttl[n] ELSE 0]

QueueInit ==
    /\ pending = <<>> /\ ticket = [n \in Tickets |-> "none"]
    /\ protocol = [n \in Tickets |-> "vs1"] /\ ttl = [n \in Tickets |-> 0]
    /\ inflight = 0 /\ consumer = "none" /\ closed = FALSE
    /\ lastMode = "none" /\ sameCount = 0 /\ passed = 0

\* _expire
Overdue == {n \in ToSet(pending) : ttl[n] = 0}
Kept    == Without(pending, Overdue)
Expire  == [n \in Tickets |-> IF n \in Overdue THEN "expired" ELSE ticket[n]]

\* submit, when it is not refused; a full queue only forgets what is overdue.
Enqueue(n, m, d) ==
    /\ ~closed /\ ticket[n] = "none" /\ \A k \in 1 .. n - 1 : ticket[k] # "none"
    /\ Len(Kept) < QueueCapacity
    /\ pending' = Append(Kept, n)
    /\ ticket' = [Expire EXCEPT ![n] = "queued"]
    /\ protocol' = [protocol EXCEPT ![n] = m]
    /\ ttl' = [ttl EXCEPT ![n] = d]
    /\ UNCHANGED <<inflight, consumer, closed, fairness>>

\* pending_count, and a submit that is refused.
Sweep ==
    /\ Overdue # {}
    /\ pending' = Kept /\ ticket' = Expire
    /\ Deadlines /\ UNCHANGED <<protocol, inflight, consumer, closed, fairness>>

\* cancel: what is on the wire stays.
CancelTicket(n) ==
    /\ ticket[n] = "queued"
    /\ pending' = Without(pending, {n})
    /\ ticket' = [ticket EXCEPT ![n] = "cancelled"]
    /\ Deadlines /\ UNCHANGED <<protocol, inflight, consumer, closed, fairness>>

ModesOf(queue) == {protocol[n] : n \in ToSet(queue)}

\* Mutant: the preferred protocol always comes first.
DesiredPreferred(preferred, queue) ==
    IF preferred \in ModesOf(queue) THEN preferred ELSE protocol[Head(queue)]

\* The protocol of the next read: the other one after max_same_mode reads in a row, then
\* the preferred one, then that of the oldest ticket.
Desired(preferred, queue) ==
    IF lastMode # "none" /\ sameCount >= MaxSameMode /\ ModesOf(queue) \ {lastMode} # {}
    THEN CHOOSE m \in ModesOf(queue) \ {lastMode} : TRUE
    ELSE IF preferred \in ModesOf(queue) THEN preferred ELSE protocol[Head(queue)]

Oldest(queue, m) == CHOOSE n \in ToSet(queue) : protocol[n] = m /\ \A k \in ToSet(queue) : protocol[k] = m => n <= k

\* take, of one thread only, and not during a read.
TakeTicket(thread, preferred) ==
    /\ ~closed /\ consumer \in {"none", thread} /\ inflight = 0
    /\ consumer' = thread
    /\ IF Kept = <<>>
       THEN pending' = Kept /\ ticket' = Expire /\ UNCHANGED <<inflight, fairness>>
       ELSE LET m == Desired(preferred, Kept)
                n == Oldest(Kept, m)
                rest == Without(Kept, {n})
            IN  /\ pending' = rest
                /\ ticket' = [Expire EXCEPT ![n] = "running"]
                /\ inflight' = n /\ lastMode' = m
                /\ sameCount' = IF m = lastMode THEN sameCount + 1 ELSE 1
                /\ passed' = IF ModesOf(rest) \ {m} = {} THEN 0 ELSE IF m = lastMode THEN passed + 1 ELSE 1
    /\ Deadlines /\ UNCHANGED <<protocol, closed>>

\* Mutant: a read that failed stays in flight.
FinishSuccess(success) ==
    /\ inflight # 0 /\ ticket[inflight] = "running"
    /\ ticket' = [ticket EXCEPT ![inflight] = IF success THEN "completed" ELSE "failed"]
    /\ inflight' = IF success THEN 0 ELSE inflight
    /\ UNCHANGED <<pending, protocol, ttl, consumer, closed, fairness>>

\* finish
Finish(success) ==
    /\ inflight # 0 /\ ticket[inflight] = "running"
    /\ ticket' = [ticket EXCEPT ![inflight] = IF success THEN "completed" ELSE "failed"]
    /\ inflight' = 0
    /\ UNCHANGED <<pending, protocol, ttl, consumer, closed, fairness>>

\* close is refused during a read.
CloseQueue ==
    /\ inflight = 0 /\ ~closed /\ closed' = TRUE
    /\ pending' = <<>>
    /\ ticket' = [n \in Tickets |-> IF n \in ToSet(pending) THEN "cancelled" ELSE ticket[n]]
    /\ Deadlines /\ UNCHANGED <<protocol, inflight, consumer, fairness>>

\* Time: the deadlines of waiting tickets come nearer.
TickQueue ==
    /\ \E n \in ToSet(pending) : ttl[n] > 0
    /\ ttl' = [n \in Tickets |-> IF n \in ToSet(pending) /\ ttl[n] > 0 THEN ttl[n] - 1 ELSE ttl[n]]
    /\ UNCHANGED <<pending, ticket, protocol, inflight, consumer, closed, fairness>>

\* A read succeeds or fails.
ReadsOn == (pending # <<>> /\ \E th \in Threads, m \in Modes \cup {"none"} : TakeTicket(th, m))
         \/ \E success \in BOOLEAN : Finish(success)

QueueNext ==
    \/ \E n \in Tickets : CancelTicket(n) \/ \E m \in Modes, d \in 1 .. Ttl : Enqueue(n, m, d)
    \/ \E th \in Threads, m \in Modes \cup {"none"} : TakeTicket(th, m)
    \/ \E success \in BOOLEAN : Finish(success)
    \/ Sweep \/ CloseQueue \/ TickQueue

QueueSpec == QueueInit /\ [][QueueNext]_queueVars

-----------------------------------------------------------------------------
\* A ticket is where its state says, and nowhere else: in the queue, on the wire, or
\* ended (submit, take, cancel, finish).
TicketsAreAccounted ==
    /\ \A n \in Tickets : (ticket[n] = "queued") <=> (n \in ToSet(pending))
    /\ \A n \in Tickets : (ticket[n] = "running") <=> (n = inflight)
    /\ Len(pending) = Cardinality(ToSet(pending))

\* Reads of one protocol pass over waiting reads of the other at most max_same_mode times
\* in a row, whatever the consumer prefers (forced_other).
NobodyStarves == passed <= MaxSameMode

\* Expiry, cancellation, close and reads lose no ticket and pass over none for long
\* (BoundedReadQueue).
QueueInv == QueueTypeOK /\ TicketsAreAccounted /\ NobodyStarves

\* Every ticket ends as long as the consumer takes and finishes.
TicketsEnd == \A n \in Tickets : ticket[n] = "queued" ~> ticket[n] \in Final
=============================================================================
