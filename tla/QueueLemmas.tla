---------------------------- MODULE QueueLemmas ----------------------------
(***************************************************************************)
(* What the operations of a queue do to its members, for the proofs about    *)
(* the components that keep one.  The facts about Without go by the least    *)
(* length at which one of them would fail.                                   *)
(***************************************************************************)
EXTENDS Queues, SequencesExt, WellFoundedInduction, TLAPS

\* Every member stands in the queue once.
Distinct(queue) == \A i, j \in 1 .. Len(queue) : queue[i] = queue[j] => i = j

\* The recursion of Without.
Solves(kept, queue, gone) ==
    kept = [n \in 0 .. Len(queue) |->
              IF n = 0 THEN <<>>
              ELSE IF queue[n] \in gone THEN kept[n - 1] ELSE Append(kept[n - 1], queue[n])]

-----------------------------------------------------------------------------
\* The first and the last of a queue.
LEMMA QueueEnds ==
    ASSUME NEW S, NEW q \in Seq(S), q # <<>>
    PROVE  /\ Head(q) \in S /\ Tail(q) \in Seq(S)
           /\ Tail(q) = <<>> => Head(q) = q[Len(q)] /\ Len(q) = 1
           /\ Tail(q) # <<>> => Tail(q)[Len(Tail(q))] = q[Len(q)]
           /\ \A i \in 1 .. Len(Tail(q)) : i + 1 \in 1 .. Len(q) /\ Tail(q)[i] = q[i + 1]
           /\ 1 \in 1 .. Len(q) /\ Head(q) = q[1]
  <1>1. Len(q) \in Nat /\ Len(q) >= 1 /\ Head(q) = q[1]
    OBVIOUS
  <1>2. /\ Tail(q) \in Seq(S) /\ Len(Tail(q)) = Len(q) - 1
        /\ \A i \in 1 .. Len(q) - 1 : Tail(q)[i] = q[i + 1]
    OBVIOUS
  <1>3. Head(q) \in S
    BY <1>1
  <1>4. Tail(q) = <<>> <=> Len(q) = 1
    BY <1>1, <1>2
  <1>5. ASSUME Tail(q) # <<>> PROVE Tail(q)[Len(Tail(q))] = q[Len(q)]
    <2>1. Len(q) - 1 \in 1 .. Len(q) - 1 /\ (Len(q) - 1) + 1 = Len(q)
      BY <1>1, <1>4, <1>5
    <2>2. QED
      BY <1>2, <2>1
  <1>6. QED
    BY <1>1, <1>2, <1>3, <1>4, <1>5

\* A queue and its newest entry.
LEMMA QueueNewest ==
    ASSUME NEW S, NEW q \in Seq(S), NEW r \in S
    PROVE  /\ Append(q, r) \in Seq(S) /\ Append(q, r) # <<>>
           /\ Append(q, r)[Len(Append(q, r))] = r
           /\ \A i \in 1 .. Len(Append(q, r)) : (i \in 1 .. Len(q) /\ Append(q, r)[i] = q[i]) \/ Append(q, r)[i] = r
  OBVIOUS

\* The members of a queue are what can be found at its places.
LEMMA Members ==
    ASSUME NEW S, NEW queue \in Seq(S)
    PROVE  /\ \A e : e \in ToSet(queue) <=> \E i \in 1 .. Len(queue) : queue[i] = e
           /\ ToSet(queue) \subseteq S
           /\ queue = <<>> <=> ToSet(queue) = {}
           /\ queue = <<>> <=> Len(queue) = 0
  <1>1. DOMAIN queue = 1 .. Len(queue) /\ Len(queue) \in Nat /\ \A i \in 1 .. Len(queue) : queue[i] \in S
    OBVIOUS
  <1>2. queue = <<>> <=> Len(queue) = 0
    OBVIOUS
  <1>3. \A e : e \in ToSet(queue) <=> \E i \in 1 .. Len(queue) : queue[i] = e
    BY <1>1 DEF ToSet
  <1>4. Len(queue) # 0 => queue[1] \in ToSet(queue)
    BY <1>1, <1>3
  <1>5. QED
    BY <1>1, <1>2, <1>3, <1>4

\* Append adds one member, at the end.
LEMMA AppendMembers ==
    ASSUME NEW S, NEW queue \in Seq(S), NEW e \in S
    PROVE  /\ Append(queue, e) \in Seq(S)
           /\ Len(Append(queue, e)) = Len(queue) + 1
           /\ Append(queue, e) # <<>>
           /\ ToSet(Append(queue, e)) = ToSet(queue) \cup {e}
           /\ Distinct(queue) /\ e \notin ToSet(queue) => Distinct(Append(queue, e))
  <1> DEFINE longer == Append(queue, e)
  <1>1. /\ longer \in Seq(S) /\ Len(longer) = Len(queue) + 1
        /\ longer[Len(queue) + 1] = e
        /\ \A i \in 1 .. Len(queue) : longer[i] = queue[i]
        /\ Len(queue) \in Nat
    OBVIOUS
  <1> HIDE DEF longer
  <1>2. longer # <<>>
    BY <1>1
  <1>3. ToSet(longer) = ToSet(queue) \cup {e}
    <2>1. ASSUME NEW x PROVE x \in ToSet(longer) <=> x \in ToSet(queue) \/ x = e
      <3>1. x \in ToSet(longer) <=> \E i \in 1 .. Len(queue) + 1 : longer[i] = x
        BY <1>1, Members
      <3>2. x \in ToSet(queue) <=> \E i \in 1 .. Len(queue) : longer[i] = x
        BY <1>1, Members
      <3>3. QED
        BY <1>1, <3>1, <3>2
    <2>2. QED
      BY <2>1
  <1>4. ASSUME Distinct(queue), e \notin ToSet(queue) PROVE Distinct(longer)
    <2>1. \A i \in 1 .. Len(queue) : longer[i] # e
      BY <1>1, <1>4, Members
    <2>2. QED
      BY <1>1, <1>4, <2>1 DEF Distinct
  <1>5. QED
    BY <1>1, <1>2, <1>3, <1>4 DEF longer

\* Taking the first one leaves the others, and not a second one of it.
LEMMA TailMembers ==
    ASSUME NEW S, NEW queue \in Seq(S), queue # <<>>
    PROVE  /\ Head(queue) \in S /\ Head(queue) = queue[1]
           /\ Tail(queue) \in Seq(S)
           /\ Len(Tail(queue)) = Len(queue) - 1
           /\ ToSet(queue) = ToSet(Tail(queue)) \cup {Head(queue)}
           /\ Distinct(queue) => Distinct(Tail(queue)) /\ Head(queue) \notin ToSet(Tail(queue))
  <1> DEFINE rest == Tail(queue)
             first == Head(queue)
  <1>1. /\ first = queue[1] /\ first \in S
        /\ rest \in Seq(S) /\ Len(rest) = Len(queue) - 1
        /\ \A i \in 1 .. Len(rest) : rest[i] = queue[i + 1]
        /\ Len(queue) \in Nat /\ Len(queue) > 0
    OBVIOUS
  <1> HIDE DEF rest, first
  <1>2. ToSet(queue) = ToSet(rest) \cup {first}
    <2>1. ASSUME NEW x PROVE x \in ToSet(queue) <=> x \in ToSet(rest) \/ x = first
      <3>1. x \in ToSet(queue) <=> \E i \in 1 .. Len(queue) : queue[i] = x
        BY Members
      <3>2. x \in ToSet(rest) <=> \E i \in 1 .. Len(queue) - 1 : queue[i + 1] = x
        <4>1. x \in ToSet(rest) <=> \E i \in 1 .. Len(rest) : rest[i] = x
          BY <1>1, Members
        <4>2. \A i \in 1 .. Len(queue) - 1 : rest[i] = queue[i + 1]
          BY <1>1
        <4>3. QED
          BY <1>1, <4>1, <4>2
      <3>3. (\E i \in 1 .. Len(queue) : queue[i] = x) => x = first \/ \E i \in 1 .. Len(queue) - 1 : queue[i + 1] = x
        <4> SUFFICES ASSUME NEW i \in 1 .. Len(queue), queue[i] = x, i # 1
                     PROVE  \E k \in 1 .. Len(queue) - 1 : queue[k + 1] = x
          BY <1>1
        <4>1. i - 1 \in 1 .. Len(queue) - 1 /\ (i - 1) + 1 = i
          BY <1>1
        <4>2. QED
          BY <4>1
      <3>4. QED
        BY <1>1, <3>1, <3>2, <3>3
    <2>2. QED
      BY <2>1
  <1>3. ASSUME Distinct(queue) PROVE Distinct(rest) /\ first \notin ToSet(rest)
    <2>1. \A i, j \in 1 .. Len(queue) : queue[i] = queue[j] => i = j
      BY <1>3 DEF Distinct
    <2>2. \A i \in 1 .. Len(rest) : i + 1 \in 1 .. Len(queue) /\ i + 1 # 1 /\ rest[i] = queue[i + 1]
      BY <1>1
    <2>3. Distinct(rest)
      BY <1>1, <2>1, <2>2 DEF Distinct
    <2>4. first \notin ToSet(rest)
      BY <1>1, <2>1, <2>2, Members
    <2>5. QED
      BY <2>3, <2>4
  <1>4. QED
    BY <1>1, <1>2, <1>3 DEF rest, first


\* A queue is a queue of whatever its members are.
LEMMA QueueOfMembers ==
    ASSUME NEW S, NEW R, NEW queue \in Seq(S), ToSet(queue) \subseteq R
    PROVE  queue \in Seq(R)
  <1>1. \A i \in 1 .. Len(queue) : queue[i] \in R
    BY Members
  <1>2. queue = [i \in 1 .. Len(queue) |-> queue[i]] /\ Len(queue) \in Nat
    OBVIOUS
  <1>3. QED
    BY <1>1, <1>2

-----------------------------------------------------------------------------
\* Where numbers have a property, one of them is the smallest.
LEMMA LeastNumber ==
    ASSUME NEW T \in SUBSET Nat, T # {}
    PROVE  \E least \in T : \A n \in T : least <= n
  <1>1. PICK least \in T : \A n \in T : ~(<<n, least>> \in OpToRel(<, Nat))
    BY NatLessThanWellFounded, WFMin
  <1>2. \A n \in T : ~(n < least)
    BY <1>1 DEF OpToRel
  <1>3. QED
    BY <1>2

\* What holds of 0 and goes over from each number to the next holds of all of them.
LEMMA UpTo ==
    ASSUME NEW N \in Nat, NEW G, 0 \in G, \A n \in 1 .. N : n - 1 \in G => n \in G
    PROVE  \A n \in 0 .. N : n \in G
  <1> DEFINE T == {n \in 0 .. N : n \notin G}
  <1>1. SUFFICES ASSUME T # {} PROVE FALSE
    OBVIOUS
  <1>2. PICK n \in T : \A k \in T : n <= k
    <2>1. T \in SUBSET Nat
      OBVIOUS
    <2> HIDE DEF T
    <2>2. QED
      BY <1>1, <2>1, LeastNumber
  <1>3. n \in 1 .. N /\ n - 1 \in 0 .. N
    BY <1>2
  <1>4. n - 1 \notin T
    <2> HIDE DEF T
    <2>1. QED
      BY <1>2, <1>3
  <1>5. QED
    BY <1>2, <1>3, <1>4

\* Without is well defined: its recursion has a solution up to every length.
LEMMA WithoutExists ==
    ASSUME NEW S, NEW queue \in Seq(S), NEW gone
    PROVE  \E kept : Solves(kept, queue, gone)
  <1> DEFINE Grown(f, n) == IF n = 0 THEN <<>>
                            ELSE IF queue[n] \in gone THEN f[n - 1] ELSE Append(f[n - 1], queue[n])
             Upto(f, m)  == f = [n \in 0 .. m |-> Grown(f, n)]
             T           == {m \in 0 .. Len(queue) : ~ \E f : Upto(f, m)}
  <1>1. Len(queue) \in Nat
    OBVIOUS
  <1>2. SUFFICES ASSUME T # {} PROVE FALSE
    <2>1. SUFFICES ASSUME T = {} PROVE \E kept : Solves(kept, queue, gone)
      OBVIOUS
    <2>2. Len(queue) \in 0 .. Len(queue)
      BY <1>1
    <2>3. PICK f : Upto(f, Len(queue))
      BY <2>1, <2>2
    <2>4. QED
      BY <2>3 DEF Solves
  <1>3. PICK m \in T : \A n \in T : m <= n
    <2>1. T \in SUBSET Nat
      BY <1>1
    <2> HIDE DEF T
    <2>2. QED
      BY <1>2, <2>1, LeastNumber
  <1>4. m # 0
    <2>1. Upto([n \in 0 .. 0 |-> <<>>], 0)
      OBVIOUS
    <2>2. QED
      BY <2>1
  <1>5. m - 1 \in 0 .. Len(queue) /\ m - 1 \notin T /\ m \in Nat
    <2>1. m \in 0 .. Len(queue)
      BY <1>3
    <2>2. m \in Nat /\ m - 1 \in 0 .. Len(queue) /\ ~(m <= m - 1)
      BY <1>1, <1>4, <2>1
    <2> HIDE DEF T
    <2>3. QED
      BY <1>3, <2>2
  <1>6. PICK f : Upto(f, m - 1)
    BY <1>5
  <1> DEFINE g == [n \in 0 .. m |-> IF n = m THEN Grown(f, m) ELSE f[n]]
  <1>7. ASSUME NEW n \in 0 .. m PROVE g[n] = Grown(g, n)
    <2>1. n # 0 => n - 1 \in 0 .. m /\ n - 1 # m
      BY <1>5
    <2>2. n # 0 => g[n - 1] = f[n - 1]
      BY <2>1
    <2>3. Grown(g, n) = Grown(f, n)
      BY <2>2
    <2>4. n # m => n \in 0 .. m - 1
      BY <1>5
    <2>5. n # m => f[n] = Grown(f, n)
      BY <1>6, <2>4
    <2>6. QED
      BY <2>3, <2>5
  <1>8. Upto(g, m)
    BY <1>7
  <1>9. QED
    BY <1>3, <1>8 DEF Solves

\* What Without keeps of each beginning of the queue.
LEMMA WithoutSteps ==
    ASSUME NEW S, NEW queue \in Seq(S), NEW gone
    PROVE  \E kept : /\ Without(queue, gone) = kept[Len(queue)] /\ kept[0] = <<>>
                     /\ \A n \in 1 .. Len(queue) :
                         kept[n] = IF queue[n] \in gone THEN kept[n - 1] ELSE Append(kept[n - 1], queue[n])
  <1> DEFINE kept[n \in 0 .. Len(queue)] ==
                IF n = 0 THEN <<>>
                ELSE IF queue[n] \in gone THEN kept[n - 1] ELSE Append(kept[n - 1], queue[n])
             Body(k) == IF k = 0 THEN <<>>
                        ELSE IF queue[k] \in gone THEN kept[k - 1] ELSE Append(kept[k - 1], queue[k])
  <1>1. Len(queue) \in Nat
    OBVIOUS
  <1>2. kept = [k \in 0 .. Len(queue) |-> Body(k)]
    <2>1. kept = CHOOSE f : Solves(f, queue, gone)
      BY DEF Solves
    <2> HIDE DEF kept
    <2>2. \E f : Solves(f, queue, gone)
      BY WithoutExists
    <2>3. Solves(kept, queue, gone)
      BY <2>1, <2>2
    <2>4. QED
      BY <2>3 DEF Solves
  <1>3. Without(queue, gone) = kept[Len(queue)]
    BY DEF Without
  <1> HIDE DEF kept
  <1>4. kept[0] = <<>>
    BY <1>1, <1>2
  <1>5. ASSUME NEW n \in 1 .. Len(queue)
        PROVE  kept[n] = IF queue[n] \in gone THEN kept[n - 1] ELSE Append(kept[n - 1], queue[n])
    <2>1. n \in 0 .. Len(queue) /\ n # 0
      BY <1>1
    <2> HIDE DEF Body
    <2>2. kept[n] = Body(n)
      BY <1>2, <2>1
    <2>3. QED
      BY <2>1, <2>2 DEF Body
  <1>6. QED
    BY <1>3, <1>4, <1>5

\* If it is the end that goes, the beginning stays.
LEMMA WithoutEnd ==
    ASSUME NEW S, NEW queue \in Seq(S), NEW gone, NEW m \in 0 .. Len(queue),
           \A i \in 1 .. Len(queue) : queue[i] \in gone <=> i > m
    PROVE  Without(queue, gone) = [i \in 1 .. m |-> queue[i]]
  <1>1. Len(queue) \in Nat /\ m \in Nat /\ m <= Len(queue) /\ \A i \in 1 .. Len(queue) : queue[i] \in S
    OBVIOUS
  <1>2. PICK kept : /\ Without(queue, gone) = kept[Len(queue)] /\ kept[0] = <<>>
                    /\ \A n \in 1 .. Len(queue) :
                         kept[n] = IF queue[n] \in gone THEN kept[n - 1] ELSE Append(kept[n - 1], queue[n])
    BY WithoutSteps
  <1> DEFINE First(n) == [i \in 1 .. n |-> queue[i]]
             Held(n)  == kept[n] = First(IF n <= m THEN n ELSE m)
             G        == {n \in 0 .. Len(queue) : Held(n)}
  <1>3. \A n \in 0 .. Len(queue) : First(n) \in Seq(S) /\ Len(First(n)) = n
    BY <1>1
  <1>4. Held(0)
    BY <1>1, <1>2
  <1>5. ASSUME NEW n \in 1 .. Len(queue), Held(n - 1) PROVE Held(n)
    <2>1. n \in Nat /\ n - 1 \in 0 .. Len(queue) /\ n \in 0 .. Len(queue)
      BY <1>1
    <2>2. CASE n <= m
      <3>1. kept[n] = Append(First(n - 1), queue[n])
        <4>1. queue[n] \notin gone /\ (IF n - 1 <= m THEN n - 1 ELSE m) = n - 1
          BY <1>1, <2>1, <2>2
        <4>2. kept[n] = Append(kept[n - 1], queue[n])
          BY <1>2, <4>1
        <4>3. QED
          BY <1>5, <4>1, <4>2
      <3>2. Append(First(n - 1), queue[n]) = First(n)
        <4>1. /\ Append(First(n - 1), queue[n]) \in Seq(S) /\ Len(Append(First(n - 1), queue[n])) = n
              /\ \A i \in 1 .. n : Append(First(n - 1), queue[n])[i] = queue[i]
          BY <1>1, <1>3, <2>1
        <4>2. Append(First(n - 1), queue[n]) = [i \in 1 .. n |-> Append(First(n - 1), queue[n])[i]]
          BY <4>1
        <4>3. QED
          BY <4>1, <4>2
      <3>3. QED
        BY <2>2, <3>1, <3>2
    <2>3. CASE ~(n <= m)
      <3>1. queue[n] \in gone
        BY <1>1, <2>1, <2>3
      <3>2. kept[n] = kept[n - 1]
        BY <1>2, <3>1
      <3>3. (IF n - 1 <= m THEN n - 1 ELSE m) = m
        BY <1>1, <2>1, <2>3
      <3>4. QED
        BY <1>5, <2>3, <3>2, <3>3
    <2>4. QED
      BY <2>2, <2>3
  <1>6. Held(Len(queue))
    <2>1. 0 \in G /\ \A n \in 1 .. Len(queue) : n - 1 \in G => n \in G
      BY <1>1, <1>4, <1>5
    <2> HIDE DEF G
    <2>2. Len(queue) \in Nat /\ Len(queue) \in 0 .. Len(queue)
      BY <1>1
    <2>3. \A n \in 0 .. Len(queue) : n \in G
      BY <2>1, <2>2, UpTo
    <2>4. QED
      BY <2>2, <2>3 DEF G
  <1>7. QED
    BY <1>1, <1>2, <1>6

\* It takes out what it is told to and nothing else.
LEMMA WithoutMembers ==
    ASSUME NEW S, NEW queue \in Seq(S), NEW gone
    PROVE  /\ Without(queue, gone) \in Seq(S)
           /\ Len(Without(queue, gone)) <= Len(queue)
           /\ ToSet(Without(queue, gone)) = ToSet(queue) \ gone
           /\ Distinct(queue) => Distinct(Without(queue, gone))
  <1>1. Len(queue) \in Nat
    OBVIOUS
  <1>2. PICK kept : /\ Without(queue, gone) = kept[Len(queue)] /\ kept[0] = <<>>
                    /\ \A n \in 1 .. Len(queue) :
                         kept[n] = IF queue[n] \in gone THEN kept[n - 1] ELSE Append(kept[n - 1], queue[n])
    BY WithoutSteps
  <1> DEFINE Good(n) == /\ kept[n] \in Seq(S) /\ Len(kept[n]) <= n
                        /\ \A e : e \in ToSet(kept[n]) <=> e \notin gone /\ \E i \in 1 .. n : queue[i] = e
                        /\ Distinct(queue) => Distinct(kept[n])
             T       == {n \in 0 .. Len(queue) : ~Good(n)}
  <1>3. Good(0)
    <2>1. kept[0] \in Seq(S) /\ Len(kept[0]) = 0
      BY <1>2
    <2>2. ToSet(kept[0]) = {}
      BY <1>2, <2>1, Members
    <2>3. Distinct(kept[0])
      BY <2>1 DEF Distinct
    <2>4. QED
      BY <2>1, <2>2, <2>3
  <1>4. ASSUME NEW n \in 1 .. Len(queue), Good(n - 1) PROVE Good(n)
    <2>1. queue[n] \in S
      BY <1>1
    <2>2. \A e : (\E i \in 1 .. n : queue[i] = e) <=> e = queue[n] \/ \E i \in 1 .. n - 1 : queue[i] = e
      BY <1>1
    <2>3. CASE queue[n] \in gone
      BY <1>2, <1>4, <2>2, <2>3
    <2>4. CASE queue[n] \notin gone
      <3>1. kept[n] = Append(kept[n - 1], queue[n])
        BY <1>2, <2>4
      <3>2. /\ kept[n] \in Seq(S) /\ Len(kept[n]) = Len(kept[n - 1]) + 1
            /\ ToSet(kept[n]) = ToSet(kept[n - 1]) \cup {queue[n]}
            /\ Distinct(kept[n - 1]) /\ queue[n] \notin ToSet(kept[n - 1]) => Distinct(kept[n])
        BY <1>4, <2>1, <3>1, AppendMembers
      <3>3. Len(kept[n]) <= n
        <4>1. Len(kept[n - 1]) \in Nat /\ Len(kept[n - 1]) <= n - 1
          BY <1>4
        <4>2. QED
          BY <1>1, <3>2, <4>1
      <3>4. Distinct(queue) => queue[n] \notin ToSet(kept[n - 1])
        <4>1. \A i \in 1 .. n - 1 : i \in 1 .. Len(queue) /\ i # n
          BY <1>1
        <4>2. Distinct(queue) => ~ \E i \in 1 .. n - 1 : queue[i] = queue[n]
          BY <4>1 DEF Distinct
        <4>3. QED
          BY <1>4, <4>2
      <3>5. QED
        BY <1>4, <2>2, <2>4, <3>2, <3>3, <3>4
    <2>5. QED
      BY <2>3, <2>4
  <1> HIDE DEF Good
  <1>5. T = {}
    <2> SUFFICES ASSUME T # {} PROVE FALSE
      OBVIOUS
    <2>1. T \in SUBSET Nat
      BY <1>1
    <2>2. PICK n \in T : \A k \in T : n <= k
      <3> HIDE DEF T
      <3>1. QED
        BY <2>1, LeastNumber
    <2>3. n # 0
      BY <1>3, <2>2
    <2>4. n \in 1 .. Len(queue) /\ n - 1 \in 0 .. Len(queue) /\ n - 1 \notin T
      BY <1>1, <2>2, <2>3
    <2>5. QED
      BY <1>4, <2>2, <2>4
  <1>6. Good(Len(queue))
    BY <1>1, <1>5
  <1>7. QED
    BY <1>2, <1>6, Members DEF Good
=============================================================================
