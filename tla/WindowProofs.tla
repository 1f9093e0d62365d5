---------------------------- MODULE WindowProofs ----------------------------
(***************************************************************************)
(* Proofs about the P300 window: the lease that keeps the writers out of it *)
(* (ProducerFence), for every set of writers and any number of faults, and  *)
(* the batches of reads that are carried out in it (ReadPhases), for every  *)
(* list of jobs and budget.                                                 *)
(***************************************************************************)
EXTENDS ProducerFence, ReadPhases, QueueLemmas, FiniteSetTheorems

-----------------------------------------------------------------------------
\* The lease.  FenceInv is the inductive invariant: who is where decides who holds the
\* flock, and, as long as no fault has torn the marker, the marker or the pending write or
\* the saved prior marker accounts for the protocol on the wire and for every unverified
\* write.

\* An actor is inside its critical section exactly when it holds the flock.
HolderInv ==
    /\ \A w \in Writers : InTransaction(w) <=> holder = w
    /\ InWindow <=> holder = Dispatcher
    /\ services # "running" => \A a \in Actors : pc[a] = "idle"

\* What each stage of a transaction and of a window knows of the marker.
StageInv ==
    /\ \A w \in Writers :
        /\ InTransaction(w) => prior[w] \notin P300Markers /\ marker \notin P300Markers
        /\ InTransaction(w) => HasCause(prior[w])
        /\ failed[w] /\ InTransaction(w) => w \in debt
        /\ pc[w] = "marking" => ~failed[w] /\ pending[w] = "ACTIVE" /\ marker = "EMPTY"
        /\ pc[w] = "body" => \/ marker = "ACTIVE"
                             \/ failed[w] /\ marker = "FAILED"
                             \/ failed[w] /\ marker = "EMPTY" /\ torn
        /\ pc[w] \in {"latch_stay", "latch_raise"} =>
                failed[w] /\ pending[w] = "FAILED" /\ marker = "EMPTY"
        /\ pc[w] = "restoring" => ~failed[w] /\ pending[w] = prior[w] /\ marker = "EMPTY"
    /\ pc[Dispatcher] \in {"window", "beginning", "closing"} => marker = "EMPTY"
    /\ pc[Dispatcher] = "beginning" => pending[Dispatcher] = "P300_ACTIVE"
    /\ pc[Dispatcher] = "started" => marker = "P300_ACTIVE"
    /\ pc[Dispatcher] = "closing" => pending[Dispatcher] \in {"EMPTY", "P300_FAILED"}

\* P300 on the wire is accounted for by the marker, or by the window's last write.
WireInv ==
    torn \/ wire = "VS1"
         \/ (pc[Dispatcher] = "started" /\ ~verified)
         \/ (pc[Dispatcher] = "closing" /\ pending[Dispatcher] = "P300_FAILED")
         \/ (holder = NoOne /\ marker \in P300Markers /\ services # "restored")

\* An unverified write is accounted for by the marker or by the transaction that
\* is going to put the marker back.
DebtInv ==
    torn \/ debt = {}
         \/ (holder = NoOne /\ marker \in WriterMarkers)
         \/ \E w \in Writers : holder = w /\ (failed[w] \/ prior[w] \in WriterMarkers)

FenceInv == TypeOK /\ HolderInv /\ StageInv /\ WireInv /\ DebtInv /\ LatchHasCause

\* The initial states satisfy the inductive invariant.
LEMMA InitFenceInv == Init => FenceInv
  <1> SUFFICES ASSUME Init PROVE FenceInv
    OBVIOUS
  <1> USE FenceAssumption DEF FenceAssumption, Init, InTransaction, InWindow, Actors,
          Markers, WriterMarkers, P300Markers
  <1>1. TypeOK
    BY DEF TypeOK
  <1>2. HolderInv
    BY DEF HolderInv
  <1>3. StageInv
    BY DEF StageInv, HasCause
  <1>4. WireInv /\ DebtInv /\ LatchHasCause
    BY DEF WireInv, DebtInv, LatchHasCause, HasCause
  <1>5. QED
    BY <1>1, <1>2, <1>3, <1>4 DEF FenceInv

\* Every step keeps the inductive invariant.  There is one lemma for each group of steps, one
\* step of its proof for each action and, under it, one for each part of the invariant.
\* First a writer: its wait, and the phases of its transaction.
LEMMA WriterKeepsFence ==
    ASSUME FenceInv, NEW w \in Writers, WriterStep(w)
    PROVE  FenceInv'
  <1> USE FenceAssumption DEF FenceAssumption, FenceInv, Actors, InTransaction, InWindow, real, code
  <1>1. ASSUME Enter(w) PROVE FenceInv'
    <2> USE <1>1 DEF Enter
    <2>1. TypeOK'
      BY DEF TypeOK
    <2>2. HolderInv'
      BY DEF HolderInv
    <2>3. StageInv'
      BY DEF StageInv, HasCause
    <2>4. WireInv'
      BY DEF WireInv
    <2>5. DebtInv'
      BY DEF DebtInv
    <2>6. LatchHasCause'
      BY DEF LatchHasCause, HasCause
    <2>7. QED
      BY <2>1, <2>2, <2>3, <2>4, <2>5, <2>6 DEF FenceInv
  <1>2. ASSUME TimeOut(w) PROVE FenceInv'
    <2> USE <1>2 DEF TimeOut
    <2>1. TypeOK'
      BY DEF TypeOK
    <2>2. HolderInv'
      BY DEF HolderInv
    <2>3. StageInv'
      BY DEF StageInv, HasCause
    <2>4. WireInv'
      BY DEF WireInv
    <2>5. DebtInv'
      BY DEF DebtInv
    <2>6. LatchHasCause'
      BY DEF LatchHasCause, HasCause
    <2>7. QED
      BY <2>1, <2>2, <2>3, <2>4, <2>5, <2>6 DEF FenceInv
  <1>3. ASSUME Reject(w) PROVE FenceInv'
    <2> USE <1>3 DEF Reject
    <2>1. TypeOK'
      BY DEF TypeOK
    <2>2. HolderInv'
      BY DEF HolderInv
    <2>3. StageInv'
      BY DEF StageInv, HasCause
    <2>4. WireInv'
      BY DEF HolderInv, WireInv
    <2>5. DebtInv'
      BY DEF DebtInv
    <2>6. LatchHasCause'
      BY DEF LatchHasCause, HasCause, P300Markers, WriterMarkers
    <2>7. QED
      BY <2>1, <2>2, <2>3, <2>4, <2>5, <2>6 DEF FenceInv
  <1>4. ASSUME Acquire(w) PROVE FenceInv'
    <2> USE <1>4 DEF Acquire
    <2>1. TypeOK'
      BY DEF TypeOK, Markers, WriterMarkers, Truncate
    <2>2. HolderInv'
      BY DEF TypeOK, HolderInv, Truncate
    <2>3. StageInv'
      BY DEF TypeOK, HolderInv, StageInv, LatchHasCause, HasCause, P300Markers, Truncate
    <2>4. WireInv'
      BY DEF TypeOK, HolderInv, WireInv
    <2>5. DebtInv'
      BY DEF TypeOK, DebtInv
    <2>6. LatchHasCause'
      BY DEF LatchHasCause, HasCause
    <2>7. QED
      BY <2>1, <2>2, <2>3, <2>4, <2>5, <2>6 DEF FenceInv
  <1>5. ASSUME Activate(w) PROVE FenceInv'
    <2> USE <1>5 DEF Activate
    <2>1. TypeOK'
      BY DEF TypeOK, Write
    <2>2. HolderInv'
      BY DEF HolderInv, Write
    <2>3. StageInv'
      BY DEF TypeOK, HolderInv, StageInv, HasCause, P300Markers, Write
    <2>4. WireInv'
      BY DEF TypeOK, HolderInv, WireInv
    <2>5. DebtInv'
      BY DEF TypeOK, HolderInv, DebtInv
    <2>6. LatchHasCause'
      BY DEF TypeOK, HolderInv, LatchHasCause, HasCause
    <2>7. QED
      BY <2>1, <2>2, <2>3, <2>4, <2>5, <2>6 DEF FenceInv
  <1>6. ASSUME LatchAndStay(w) PROVE FenceInv'
    <2> USE <1>6 DEF LatchAndStay
    <2>1. TypeOK'
      BY DEF TypeOK, Markers, WriterMarkers, Truncate
    <2>2. HolderInv'
      BY DEF HolderInv, Truncate
    <2>3. StageInv'
      BY DEF TypeOK, HolderInv, StageInv, HasCause, P300Markers, Truncate
    <2>4. WireInv'
      BY DEF TypeOK, HolderInv, WireInv
    <2>5. DebtInv'
      BY DEF TypeOK, HolderInv, DebtInv
    <2>6. LatchHasCause'
      BY DEF LatchHasCause, HasCause
    <2>7. QED
      BY <2>1, <2>2, <2>3, <2>4, <2>5, <2>6 DEF FenceInv
  <1>7. ASSUME LatchedStays(w) PROVE FenceInv'
    <2> USE <1>7 DEF LatchedStays
    <2>1. TypeOK'
      BY DEF TypeOK, Write
    <2>2. HolderInv'
      BY DEF HolderInv, Write
    <2>3. StageInv'
      BY DEF TypeOK, HolderInv, StageInv, HasCause, P300Markers, Write
    <2>4. WireInv'
      BY DEF TypeOK, HolderInv, WireInv
    <2>5. DebtInv'
      BY DEF TypeOK, HolderInv, StageInv, HasCause, DebtInv
    <2>6. LatchHasCause'
      BY DEF TypeOK, HolderInv, LatchHasCause, HasCause
    <2>7. QED
      BY <2>1, <2>2, <2>3, <2>4, <2>5, <2>6 DEF FenceInv
  <1>8. ASSUME Raise(w) PROVE FenceInv'
    <2> USE <1>8 DEF Raise
    <2>1. TypeOK'
      BY DEF TypeOK, Markers, WriterMarkers, Truncate
    <2>2. HolderInv'
      BY DEF HolderInv, Truncate
    <2>3. StageInv'
      BY DEF TypeOK, HolderInv, StageInv, HasCause, P300Markers, Truncate
    <2>4. WireInv'
      BY DEF TypeOK, HolderInv, WireInv
    <2>5. DebtInv'
      BY DEF TypeOK, HolderInv, DebtInv
    <2>6. LatchHasCause'
      BY DEF LatchHasCause, HasCause
    <2>7. QED
      BY <2>1, <2>2, <2>3, <2>4, <2>5, <2>6 DEF FenceInv
  <1>9. ASSUME Restore(w) PROVE FenceInv'
    <2> USE <1>9 DEF Restore
    <2>1. TypeOK'
      BY DEF TypeOK, Markers, Truncate
    <2>2. HolderInv'
      BY DEF HolderInv, Truncate
    <2>3. StageInv'
      BY DEF TypeOK, HolderInv, StageInv, HasCause, P300Markers, Truncate
    <2>4. WireInv'
      BY DEF TypeOK, HolderInv, WireInv
    <2>5. DebtInv'
      BY DEF TypeOK, HolderInv, DebtInv
    <2>6. LatchHasCause'
      BY DEF TypeOK, HolderInv, LatchHasCause, HasCause
    <2>7. QED
      BY <2>1, <2>2, <2>3, <2>4, <2>5, <2>6 DEF FenceInv
  <1>10. ASSUME LeaveLatched(w) PROVE FenceInv'
    <2> USE <1>10 DEF LeaveLatched
    <2>1. TypeOK'
      BY DEF TypeOK
    <2>2. HolderInv'
      BY DEF TypeOK, HolderInv
    <2>3. StageInv'
      BY DEF TypeOK, HolderInv, StageInv, HasCause
    <2>4. WireInv'
      BY DEF WireInv
    <2>5. DebtInv'
      BY DEF StageInv, HasCause, DebtInv, WriterMarkers
    <2>6. LatchHasCause'
      BY DEF TypeOK, StageInv, LatchHasCause, HasCause
    <2>7. QED
      BY <2>1, <2>2, <2>3, <2>4, <2>5, <2>6 DEF FenceInv
  <1>11. ASSUME Release(w) PROVE FenceInv'
    <2> USE <1>11 DEF Release
    <2>1. TypeOK'
      BY DEF TypeOK, Write
    <2>2. HolderInv'
      BY DEF TypeOK, HolderInv, Write
    <2>3. StageInv'
      BY DEF TypeOK, HolderInv, StageInv, HasCause, Write
    <2>4. WireInv'
      BY DEF TypeOK, HolderInv, WireInv
    <2>5. DebtInv'
      BY DEF TypeOK, HolderInv, StageInv, HasCause, DebtInv, WriterMarkers, Write
    <2>6. LatchHasCause'
      BY DEF TypeOK, StageInv, LatchHasCause, HasCause, Write
    <2>7. QED
      BY <2>1, <2>2, <2>3, <2>4, <2>5, <2>6 DEF FenceInv
  <1>12. QED
    BY <1>1, <1>2, <1>3, <1>4, <1>5, <1>6, <1>7, <1>8, <1>9, <1>10, <1>11 DEF WriterStep

\* The window of the dispatcher, from its flock to the last write of the marker.
LEMMA WindowKeepsFence ==
    ASSUME FenceInv, WindowStep
    PROVE  FenceInv'
  <1> USE FenceAssumption DEF FenceAssumption, FenceInv, Actors, InTransaction, InWindow, real, code
  <1>1. ASSUME OpenWindow PROVE FenceInv'
    <2> USE <1>1 DEF OpenWindow
    <2>1. TypeOK'
      BY DEF TypeOK, Markers
    <2>2. HolderInv'
      BY DEF TypeOK, HolderInv
    <2>3. StageInv'
      BY DEF HolderInv, StageInv, HasCause
    <2>4. WireInv'
      BY DEF WireInv, P300Markers
    <2>5. DebtInv'
      BY DEF DebtInv, WriterMarkers
    <2>6. LatchHasCause'
      BY DEF LatchHasCause, HasCause
    <2>7. QED
      BY <2>1, <2>2, <2>3, <2>4, <2>5, <2>6 DEF FenceInv
  <1>2. ASSUME LeaveWindow PROVE FenceInv'
    <2> USE <1>2 DEF LeaveWindow
    <2>1. TypeOK'
      BY DEF TypeOK
    <2>2. HolderInv'
      BY DEF TypeOK, HolderInv
    <2>3. StageInv'
      BY DEF TypeOK, HolderInv, StageInv, HasCause
    <2>4. WireInv'
      BY DEF WireInv
    <2>5. DebtInv'
      BY DEF TypeOK, HolderInv, DebtInv
    <2>6. LatchHasCause'
      BY DEF StageInv, LatchHasCause, HasCause, WriterMarkers
    <2>7. QED
      BY <2>1, <2>2, <2>3, <2>4, <2>5, <2>6 DEF FenceInv
  <1>3. ASSUME Begin PROVE FenceInv'
    <2> USE <1>3 DEF Begin
    <2>1. TypeOK'
      BY DEF TypeOK, Markers, P300Markers, Truncate
    <2>2. HolderInv'
      BY DEF HolderInv, Truncate
    <2>3. StageInv'
      BY DEF TypeOK, HolderInv, StageInv, HasCause, Truncate
    <2>4. WireInv'
      BY DEF TypeOK, HolderInv, WireInv
    <2>5. DebtInv'
      BY DEF TypeOK, HolderInv, DebtInv
    <2>6. LatchHasCause'
      BY DEF TypeOK, HolderInv, LatchHasCause, HasCause
    <2>7. QED
      BY <2>1, <2>2, <2>3, <2>4, <2>5, <2>6 DEF FenceInv
  <1>4. ASSUME Begun PROVE FenceInv'
    <2> USE <1>4 DEF Begun
    <2>1. TypeOK'
      BY DEF TypeOK, Write
    <2>2. HolderInv'
      BY DEF HolderInv, Write
    <2>3. StageInv'
      BY DEF TypeOK, HolderInv, StageInv, HasCause, Write
    <2>4. WireInv'
      BY DEF TypeOK, HolderInv, WireInv
    <2>5. DebtInv'
      BY DEF TypeOK, HolderInv, DebtInv
    <2>6. LatchHasCause'
      BY DEF TypeOK, HolderInv, LatchHasCause, HasCause
    <2>7. QED
      BY <2>1, <2>2, <2>3, <2>4, <2>5, <2>6 DEF FenceInv
  <1>5. ASSUME SwitchToP300 PROVE FenceInv'
    <2> USE <1>5 DEF SwitchToP300
    <2>1. TypeOK'
      BY DEF TypeOK
    <2>2. HolderInv'
      BY DEF HolderInv
    <2>3. StageInv'
      BY DEF StageInv, HasCause
    <2>4. WireInv'
      BY DEF WireInv
    <2>5. DebtInv'
      BY DEF TypeOK, HolderInv, DebtInv
    <2>6. LatchHasCause'
      BY DEF LatchHasCause, HasCause
    <2>7. QED
      BY <2>1, <2>2, <2>3, <2>4, <2>5, <2>6 DEF FenceInv
  <1>6. ASSUME ReturnToVs1 PROVE FenceInv'
    <2> USE <1>6 DEF ReturnToVs1
    <2>1. TypeOK'
      BY DEF TypeOK
    <2>2. HolderInv'
      BY DEF HolderInv
    <2>3. StageInv'
      BY DEF StageInv, HasCause
    <2>4. WireInv'
      BY DEF WireInv
    <2>5. DebtInv'
      BY DEF TypeOK, HolderInv, DebtInv
    <2>6. LatchHasCause'
      BY DEF LatchHasCause, HasCause
    <2>7. QED
      BY <2>1, <2>2, <2>3, <2>4, <2>5, <2>6 DEF FenceInv
  <1>7. ASSUME Confirm PROVE FenceInv'
    <2> USE <1>7 DEF Confirm
    <2>1. TypeOK'
      BY DEF TypeOK
    <2>2. HolderInv'
      BY DEF HolderInv
    <2>3. StageInv'
      BY DEF StageInv, HasCause
    <2>4. WireInv'
      BY DEF WireInv
    <2>5. DebtInv'
      BY DEF DebtInv
    <2>6. LatchHasCause'
      BY DEF TypeOK, HolderInv, LatchHasCause, HasCause
    <2>7. QED
      BY <2>1, <2>2, <2>3, <2>4, <2>5, <2>6 DEF FenceInv
  <1>8. ASSUME Close PROVE FenceInv'
    <2> USE <1>8 DEF Close
    <2>1. TypeOK'
      BY DEF TypeOK, Markers, P300Markers, Truncate
    <2>2. HolderInv'
      BY DEF HolderInv, Truncate
    <2>3. StageInv'
      BY DEF TypeOK, StageInv, HasCause, Truncate
    <2>4. WireInv'
      BY DEF TypeOK, HolderInv, WireInv, Truncate
    <2>5. DebtInv'
      BY DEF TypeOK, HolderInv, DebtInv
    <2>6. LatchHasCause'
      BY DEF TypeOK, HolderInv, LatchHasCause, HasCause
    <2>7. QED
      BY <2>1, <2>2, <2>3, <2>4, <2>5, <2>6 DEF FenceInv
  <1>9. ASSUME Closed PROVE FenceInv'
    <2> USE <1>9 DEF Closed
    <2>1. TypeOK'
      BY DEF TypeOK, Write
    <2>2. HolderInv'
      BY DEF TypeOK, HolderInv, Write
    <2>3. StageInv'
      BY DEF TypeOK, HolderInv, StageInv, HasCause, Write
    <2>4. WireInv'
      BY DEF TypeOK, HolderInv, WireInv, P300Markers, Write
    <2>5. DebtInv'
      BY DEF TypeOK, HolderInv, DebtInv
    <2>6. LatchHasCause'
      BY DEF StageInv, LatchHasCause, HasCause, WriterMarkers, Write
    <2>7. QED
      BY <2>1, <2>2, <2>3, <2>4, <2>5, <2>6 DEF FenceInv
  <1>10. QED
    BY <1>1, <1>2, <1>3, <1>4, <1>5, <1>6, <1>7, <1>8, <1>9 DEF WindowStep

\* A fault of any actor, at any point.
LEMMA FaultKeepsFence ==
    ASSUME FenceInv, FaultStep
    PROVE  FenceInv'
  <1> USE FenceAssumption DEF FenceAssumption, FenceInv, Actors, InTransaction, InWindow, real, code
  <1>1. ASSUME NEW a \in Actors, Kill(a) PROVE FenceInv'
    <2> USE <1>1 DEF Kill
    <2>1. TypeOK'
      BY DEF TypeOK
    <2>2. HolderInv'
      BY DEF TypeOK, HolderInv
    <2>3. StageInv'
      BY DEF TypeOK, StageInv, HasCause
    <2>4. WireInv'
      BY DEF TypeOK, HolderInv, StageInv, HasCause, WireInv, P300Markers, InGap, Forgets
    <2>5. DebtInv'
      <3>1. CASE torn' \/ debt' = {}
        BY <3>1 DEF TypeOK, DebtInv
      <3>2. CASE ~torn' /\ debt' # {} /\ a \in Writers /\ holder = a
        <4>1. marker \in WriterMarkers
          BY <3>2 DEF TypeOK, HolderInv, StageInv, HasCause, DebtInv, WriterMarkers, InGap, Forgets
        <4>2. QED
          BY <3>2, <4>1 DEF DebtInv
      <3>3. CASE ~torn' /\ debt' # {} /\ ~(a \in Writers /\ holder = a)
        <4>1. ~torn /\ debt # {}
          BY <3>3 DEF TypeOK, HolderInv
        <4>2. QED
          BY <3>3, <4>1 DEF HolderInv, DebtInv
      <3>4. QED
        BY <3>1, <3>2, <3>3 DEF TypeOK
    <2>6. LatchHasCause'
      BY DEF HolderInv, StageInv, LatchHasCause, HasCause, WriterMarkers
    <2>7. QED
      BY <2>1, <2>2, <2>3, <2>4, <2>5, <2>6 DEF FenceInv
  <1>2. ASSUME NEW a \in Actors, WriteFails(a) PROVE FenceInv'
    <2> USE <1>2 DEF WriteFails, Unwinds, Swallowed, InGap, Forgets
    <2>1. TypeOK'
      BY DEF TypeOK
    <2>2. HolderInv'
      BY DEF TypeOK, HolderInv
    <2>3. StageInv'
      BY DEF TypeOK, HolderInv, StageInv, HasCause
    <2>4. WireInv'
      BY DEF TypeOK, HolderInv, StageInv, WireInv, P300Markers
    <2>5. DebtInv'
      BY DEF TypeOK, HolderInv, StageInv, DebtInv, P300Markers, WriterMarkers
    <2>6. LatchHasCause'
      BY DEF TypeOK, HolderInv, StageInv, LatchHasCause, HasCause
    <2>7. QED
      BY <2>1, <2>2, <2>3, <2>4, <2>5, <2>6 DEF FenceInv
  <1>3. ASSUME NEW a \in Actors, SyncFails(a) PROVE FenceInv'
    <2> USE <1>3 DEF SyncFails, Unwinds, Swallowed, InGap
    <2>1. TypeOK'
      BY DEF TypeOK
    <2>2. HolderInv'
      BY DEF TypeOK, HolderInv
    <2>3. StageInv'
      <3>1. CASE pc[a] = "latch_stay"
        <4>1. a \in Writers
          BY <3>1 DEF TypeOK
        <4>2. holder = a /\ ~InWindow /\ \A w \in Writers : w # a => ~InTransaction(w)
          BY <3>1, <4>1 DEF HolderInv
        <4>3. marker' = "FAILED" /\ failed[a] /\ a \in debt /\ prior[a] \notin P300Markers /\ HasCause(prior[a])
          BY <3>1, <4>1 DEF StageInv
        <4>4. pc' = [pc EXCEPT ![a] = "body"] /\ UNCHANGED <<prior, failed, pending, debt, aborted>>
          BY <3>1, <4>1
        <4>5. pc'[a] = "body" /\ \A b \in Actors : b # a => pc'[b] = pc[b]
          BY <4>4 DEF TypeOK
        <4>6. QED
          BY <4>1, <4>2, <4>3, <4>4, <4>5 DEF StageInv, HasCause, P300Markers
      <3>2. CASE pc[a] # "latch_stay"
        <4>1. holder = a /\ \A b \in Actors : pc'[b] \notin {"window", "beginning", "started", "closing"} /\ ~InTransaction(b)'
          BY <3>2 DEF TypeOK, HolderInv
        <4>2. QED
          BY <4>1 DEF StageInv
      <3>3. QED
        BY <3>1, <3>2
    <2>4. WireInv'
      BY DEF TypeOK, HolderInv, StageInv, WireInv, P300Markers
    <2>5. DebtInv'
      BY DEF TypeOK, HolderInv, StageInv, DebtInv, P300Markers, WriterMarkers
    <2>6. LatchHasCause'
      BY DEF TypeOK, HolderInv, StageInv, LatchHasCause, HasCause
    <2>7. QED
      BY <2>1, <2>2, <2>3, <2>4, <2>5, <2>6 DEF FenceInv
  <1>4. ASSUME NEW w \in Writers, AcquireFails(w) PROVE FenceInv'
    <2> USE <1>4 DEF AcquireFails, Unwinds, Swallowed
    <2>1. TypeOK'
      BY DEF TypeOK
    <2>2. HolderInv'
      BY DEF TypeOK, HolderInv
    <2>3. StageInv'
      BY DEF TypeOK, HolderInv, StageInv, HasCause
    <2>4. WireInv'
      BY DEF TypeOK, HolderInv, StageInv, WireInv, P300Markers
    <2>5. DebtInv'
      BY DEF TypeOK, HolderInv, StageInv, DebtInv, P300Markers, WriterMarkers
    <2>6. LatchHasCause'
      BY DEF TypeOK, HolderInv, StageInv, LatchHasCause, HasCause
    <2>7. QED
      BY <2>1, <2>2, <2>3, <2>4, <2>5, <2>6 DEF FenceInv
  <1>5. ASSUME NEW w \in Writers, LatchFails(w) PROVE FenceInv'
    <2> USE <1>5 DEF LatchFails, Unwinds, Swallowed
    <2>1. TypeOK'
      BY DEF TypeOK
    <2>2. HolderInv'
      BY DEF TypeOK, HolderInv
    <2>3. StageInv'
      BY DEF TypeOK, HolderInv, StageInv, HasCause
    <2>4. WireInv'
      BY DEF TypeOK, HolderInv, StageInv, WireInv, P300Markers
    <2>5. DebtInv'
      BY DEF TypeOK, HolderInv, StageInv, DebtInv, P300Markers, WriterMarkers
    <2>6. LatchHasCause'
      BY DEF TypeOK, HolderInv, StageInv, LatchHasCause, HasCause
    <2>7. QED
      BY <2>1, <2>2, <2>3, <2>4, <2>5, <2>6 DEF FenceInv
  <1>6. ASSUME NEW w \in Writers, RestoreFails(w) PROVE FenceInv'
    <2> USE <1>6 DEF RestoreFails, Unwinds, Swallowed
    <2>1. TypeOK'
      BY DEF TypeOK
    <2>2. HolderInv'
      BY DEF TypeOK, HolderInv
    <2>3. StageInv'
      BY DEF TypeOK, HolderInv, StageInv, HasCause
    <2>4. WireInv'
      BY DEF TypeOK, HolderInv, StageInv, WireInv, P300Markers
    <2>5. DebtInv'
      BY DEF TypeOK, HolderInv, StageInv, DebtInv, P300Markers, WriterMarkers
    <2>6. LatchHasCause'
      BY DEF TypeOK, HolderInv, StageInv, LatchHasCause, HasCause
    <2>7. QED
      BY <2>1, <2>2, <2>3, <2>4, <2>5, <2>6 DEF FenceInv
  <1>7. ASSUME CloseFails PROVE FenceInv'
    <2> USE <1>7 DEF CloseFails, Unwinds, Swallowed
    <2>1. TypeOK'
      BY DEF TypeOK
    <2>2. HolderInv'
      BY DEF TypeOK, HolderInv
    <2>3. StageInv'
      BY DEF TypeOK, HolderInv, StageInv, HasCause
    <2>4. WireInv'
      BY DEF TypeOK, HolderInv, StageInv, WireInv, P300Markers
    <2>5. DebtInv'
      BY DEF TypeOK, HolderInv, StageInv, DebtInv, P300Markers, WriterMarkers
    <2>6. LatchHasCause'
      BY DEF TypeOK, HolderInv, StageInv, LatchHasCause, HasCause
    <2>7. QED
      BY <2>1, <2>2, <2>3, <2>4, <2>5, <2>6 DEF FenceInv
  <1>8. QED
    BY <1>1, <1>2, <1>3, <1>4, <1>5, <1>6, <1>7 DEF FaultStep

\* The recovery of a left-over window.
LEMMA RecoveryKeepsFence ==
    ASSUME FenceInv, RecoveryStep
    PROVE  FenceInv'
  <1> USE FenceAssumption DEF FenceAssumption, FenceInv, Actors, InTransaction, InWindow, real, code
  <1>1. ASSUME StopServices PROVE FenceInv'
    <2> USE <1>1 DEF StopServices
    <2>1. TypeOK'
      BY DEF TypeOK
    <2>2. HolderInv'
      BY DEF HolderInv
    <2>3. StageInv'
      BY DEF StageInv, HasCause
    <2>4. WireInv'
      BY DEF TypeOK, HolderInv, StageInv, HasCause, WireInv, P300Markers, InGap, Forgets
    <2>5. DebtInv'
      BY DEF TypeOK, HolderInv, StageInv, HasCause, DebtInv, P300Markers, WriterMarkers, InGap, Forgets
    <2>6. LatchHasCause'
      BY DEF TypeOK, HolderInv, StageInv, LatchHasCause, HasCause, WriterMarkers
    <2>7. QED
      BY <2>1, <2>2, <2>3, <2>4, <2>5, <2>6 DEF FenceInv
  <1>2. ASSUME OriginalGfa PROVE FenceInv'
    <2> USE <1>2 DEF OriginalGfa
    <2>1. TypeOK'
      BY DEF TypeOK
    <2>2. HolderInv'
      BY DEF HolderInv
    <2>3. StageInv'
      BY DEF StageInv, HasCause
    <2>4. WireInv'
      BY DEF WireInv
    <2>5. DebtInv'
      BY DEF DebtInv
    <2>6. LatchHasCause'
      BY DEF LatchHasCause, HasCause
    <2>7. QED
      BY <2>1, <2>2, <2>3, <2>4, <2>5, <2>6 DEF FenceInv
  <1>3. ASSUME ClearAndRestart PROVE FenceInv'
    <2> USE <1>3 DEF ClearAndRestart
    <2>1. TypeOK'
      BY DEF TypeOK, Markers
    <2>2. HolderInv'
      BY DEF HolderInv
    <2>3. StageInv'
      BY DEF HolderInv, StageInv, HasCause
    <2>4. WireInv'
      BY DEF WireInv
    <2>5. DebtInv'
      BY DEF DebtInv, P300Markers, WriterMarkers
    <2>6. LatchHasCause'
      BY DEF LatchHasCause, HasCause, WriterMarkers
    <2>7. QED
      BY <2>1, <2>2, <2>3, <2>4, <2>5, <2>6 DEF FenceInv
  <1>4. QED
    BY <1>1, <1>2, <1>3 DEF RecoveryStep

\* So FenceInv is inductive.
LEMMA NextFenceInv == FenceInv /\ [Next]_vars => FenceInv'
  <1> SUFFICES ASSUME FenceInv, [Next]_vars PROVE FenceInv'
    OBVIOUS
  <1>1. CASE UNCHANGED vars
    <2> USE <1>1 DEF FenceInv, vars, code, real, InTransaction, InWindow
    <2>1. TypeOK'
      BY DEF TypeOK
    <2>2. HolderInv'
      BY DEF HolderInv
    <2>3. StageInv'
      BY DEF StageInv, HasCause
    <2>4. WireInv' /\ DebtInv' /\ LatchHasCause'
      BY DEF WireInv, DebtInv, LatchHasCause, HasCause
    <2>5. QED
      BY <2>1, <2>2, <2>3, <2>4
  <1>2. QED
    BY <1>1, WriterKeepsFence, WindowKeepsFence, FaultKeepsFence, RecoveryKeepsFence DEF Next

\* FenceInv holds in every reachable state.
LEMMA FenceInvariance == Spec => []FenceInv
  BY InitFenceInv, NextFenceInv, PTL DEF Spec

\* Transactions and windows exclude each other, whatever dies (LeaseInv): both run under
\* the one flock.
THEOREM FenceSafe == Spec => []LeaseInv
  <1>1. FenceInv => LeaseInv
    BY DEF FenceInv, HolderInv, Exclusion, LeaseInv
  <1>2. QED
    BY FenceInvariance, <1>1, PTL

\* Unless a fault tore the marker, a transaction only runs on a VS1 wire: the
\* window cannot be open at the same time, and its marker would have refused it.
THEOREM FenceWriterNeedsVs1 == Spec => []WriterNeedsVs1
  <1>1. FenceInv => WriterNeedsVs1
    <2> SUFFICES ASSUME FenceInv, NEW w \in Writers, InTransaction(w), ~torn
                 PROVE  wire = "VS1"
      BY DEF FenceInv, TypeOK, WriterNeedsVs1
    <2>1. holder = w /\ marker \notin P300Markers
      BY DEF FenceInv, HolderInv, StageInv, HasCause
    <2>2. ~InWindow
      BY <2>1, FenceAssumption DEF FenceAssumption, FenceInv, HolderInv
    <2>3. QED
      BY <2>1, <2>2 DEF FenceInv, WireInv, InWindow
  <1>2. QED
    BY FenceInvariance, <1>1, PTL

\* Unless a fault tore the marker, no window is open while a write is unverified.
THEOREM FenceWindowNeedsVerifiedWrites == Spec => []WindowNeedsVerifiedWrites
  <1>1. FenceInv => WindowNeedsVerifiedWrites
    BY FenceAssumption
       DEF FenceAssumption, FenceInv, TypeOK, HolderInv, DebtInv, WindowNeedsVerifiedWrites
  <1>2. QED
    BY FenceInvariance, <1>1, PTL

\* A writer's latch that nobody holds stands for a write nobody verified or, ACTIVE only, for a
\* marker that could not be put back or synced: a killed window, a timeout and a transaction
\* that ends well leave none (writer_transaction, _latch_failed).
THEOREM FenceLatchHasCause == Spec => []LatchHasCause
  <1>1. FenceInv => LatchHasCause
    BY DEF FenceInv
  <1>2. QED
    BY FenceInvariance, <1>1, PTL

\* Emptying a P300 marker forgets no writer's latch, unless a fault tore it before.
THEOREM FenceP300MarkerHidesNoLatch == Spec => []P300MarkerHidesNoLatch
  <1>1. FenceInv => P300MarkerHidesNoLatch
    BY DEF FenceInv, TypeOK, HolderInv, StageInv, HasCause, DebtInv, P300MarkerHidesNoLatch,
           P300Markers, WriterMarkers
  <1>2. QED
    BY FenceInvariance, <1>1, PTL

-----------------------------------------------------------------------------
\* Every step of the lease is a step of the contract, or leaves its view unchanged.
LEMMA FenceStepRefines == FenceInv /\ [Next]_vars => [Contract!Next]_(Contract!contractVars)
  <1> SUFFICES ASSUME FenceInv, [Next]_vars
               PROVE  [Contract!Next]_(Contract!contractVars)
    OBVIOUS
  <1> USE FenceAssumption DEF FenceAssumption, FenceInv, TypeOK, Actors, real, code,
          Contract!contractVars, InTransaction, InWindow
  <1>1. ASSUME NEW w \in Writers, Enter(w) PROVE [Contract!Next]_(Contract!contractVars)
    BY <1>1 DEF Enter
  <1>2. ASSUME NEW w \in Writers, TimeOut(w) PROVE [Contract!Next]_(Contract!contractVars)
    BY <1>2 DEF TimeOut
  <1>3. ASSUME NEW w \in Writers, Reject(w) PROVE [Contract!Next]_(Contract!contractVars)
    BY <1>3 DEF Reject
  <1>4. ASSUME NEW w \in Writers, Acquire(w) PROVE [Contract!Next]_(Contract!contractVars)
    BY <1>4 DEF Acquire, HolderInv, WireInv, Contract!Next, Contract!AdmitWriter
  <1>5. ASSUME NEW w \in Writers, Activate(w) PROVE [Contract!Next]_(Contract!contractVars)
    BY <1>5 DEF Activate
  <1>6. ASSUME NEW w \in Writers, LatchAndStay(w) PROVE [Contract!Next]_(Contract!contractVars)
    BY <1>6 DEF LatchAndStay, HolderInv, Contract!Next, Contract!WriterFails
  <1>7. ASSUME NEW w \in Writers, LatchedStays(w) PROVE [Contract!Next]_(Contract!contractVars)
    BY <1>7 DEF LatchedStays
  <1>8. ASSUME NEW w \in Writers, Raise(w) PROVE [Contract!Next]_(Contract!contractVars)
    BY <1>8 DEF Raise, HolderInv, Contract!Next, Contract!WriterFails
  <1>9. ASSUME NEW w \in Writers, Restore(w) PROVE [Contract!Next]_(Contract!contractVars)
    BY <1>9 DEF Restore
  <1>10. ASSUME NEW w \in Writers, LeaveLatched(w) PROVE [Contract!Next]_(Contract!contractVars)
    BY <1>10 DEF LeaveLatched, Contract!Next, Contract!Leave
  <1>11. ASSUME NEW w \in Writers, Release(w) PROVE [Contract!Next]_(Contract!contractVars)
    BY <1>11 DEF Release, Contract!Next, Contract!Leave
  <1>12. ASSUME OpenWindow PROVE [Contract!Next]_(Contract!contractVars)
    BY <1>12 DEF OpenWindow, WireInv, DebtInv, P300Markers, WriterMarkers, Contract!Next, Contract!AdmitWindow
  <1>13. ASSUME LeaveWindow PROVE [Contract!Next]_(Contract!contractVars)
    BY <1>13 DEF LeaveWindow, Contract!Next, Contract!Leave
  <1>14. ASSUME Begin PROVE [Contract!Next]_(Contract!contractVars)
    BY <1>14 DEF Begin
  <1>15. ASSUME Begun PROVE [Contract!Next]_(Contract!contractVars)
    BY <1>15 DEF Begun
  <1>16. ASSUME SwitchToP300 PROVE [Contract!Next]_(Contract!contractVars)
    BY <1>16 DEF SwitchToP300, HolderInv, Contract!Next, Contract!SwitchProtocol
  <1>17. ASSUME ReturnToVs1 PROVE [Contract!Next]_(Contract!contractVars)
    BY <1>17 DEF ReturnToVs1, HolderInv, Contract!Next, Contract!SwitchProtocol
  <1>18. ASSUME Confirm PROVE [Contract!Next]_(Contract!contractVars)
    BY <1>18 DEF Confirm
  <1>19. ASSUME Close PROVE [Contract!Next]_(Contract!contractVars)
    BY <1>19 DEF Close
  <1>20. ASSUME Closed PROVE [Contract!Next]_(Contract!contractVars)
    BY <1>20 DEF Closed, Contract!Next, Contract!Leave
  <1>21. ASSUME NEW a \in Actors, Kill(a) PROVE [Contract!Next]_(Contract!contractVars)
    <2> USE <1>21 DEF Kill, HolderInv
    <2>1. CASE holder # a
      <3>1. pc[a] \notin {"body"} /\ ~InGap(a) /\ ~Forgets(a)
        BY <2>1 DEF InGap, Forgets
      <3>2. debt' = debt /\ holder' = holder /\ torn' = torn /\ wire' = wire
        BY <2>1, <3>1
      <3>3. QED
        BY <3>2
    <2>2. CASE holder = a /\ pc[a] = "body"
      <3>1. torn' = torn
        BY <2>2 DEF Forgets, InGap
      <3>2. Contract!WriterFails
        BY <2>2, <3>1 DEF Contract!WriterFails
      <3>3. QED
        BY <3>2 DEF Contract!Next
    <2>3. CASE holder = a /\ pc[a] # "body" /\ ~Forgets(a)
      <3>1. Contract!Leave
        BY <2>3 DEF Contract!Leave
      <3>2. QED
        BY <3>1 DEF Contract!Next
    <2>4. CASE holder = a /\ pc[a] # "body" /\ Forgets(a)
      <3>1. Contract!Forget
        BY <2>4 DEF Contract!Forget, Forgets
      <3>2. QED
        BY <3>1 DEF Contract!Next
    <2>5. QED
      BY <2>1, <2>2, <2>3, <2>4
  <1>22. ASSUME NEW a \in Actors, WriteFails(a) PROVE [Contract!Next]_(Contract!contractVars)
    <2> USE <1>22 DEF WriteFails, Unwinds, Swallowed, HolderInv, InGap
    <2>1. holder = a
      OBVIOUS
    <2>2. CASE Forgets(a)
      <3>1. Contract!Forget
        BY <2>1, <2>2 DEF Contract!Forget, Forgets
      <3>2. QED
        BY <3>1 DEF Contract!Next
    <2>3. CASE ~Forgets(a) /\ holder' = holder
      BY <2>3
    <2>4. CASE ~Forgets(a) /\ holder' # holder
      <3>1. Contract!Leave
        BY <2>1, <2>4 DEF Contract!Leave
      <3>2. QED
        BY <3>1 DEF Contract!Next
    <2>5. QED
      BY <2>2, <2>3, <2>4
  <1>23. ASSUME NEW a \in Actors, SyncFails(a) PROVE [Contract!Next]_(Contract!contractVars)
    BY <1>23 DEF SyncFails, Unwinds, Swallowed, HolderInv, InGap, Contract!Next, Contract!Leave
  <1>24. ASSUME NEW w \in Writers, AcquireFails(w) PROVE [Contract!Next]_(Contract!contractVars)
    BY <1>24 DEF AcquireFails, Unwinds
  <1>25. ASSUME NEW w \in Writers, LatchFails(w) PROVE [Contract!Next]_(Contract!contractVars)
    BY <1>25 DEF LatchFails, Unwinds, Swallowed, HolderInv, Contract!Next, Contract!WriterFails
  <1>26. ASSUME NEW w \in Writers, RestoreFails(w) PROVE [Contract!Next]_(Contract!contractVars)
    BY <1>26 DEF RestoreFails, Unwinds, HolderInv, Contract!Next, Contract!Leave
  <1>27. ASSUME CloseFails PROVE [Contract!Next]_(Contract!contractVars)
    BY <1>27 DEF CloseFails, Unwinds, HolderInv, Contract!Next, Contract!Leave
  <1>28. ASSUME StopServices PROVE [Contract!Next]_(Contract!contractVars)
    <2> USE <1>28 DEF StopServices, HolderInv
    <2>1. \A a \in Actors : pc[a] = "body" \/ InGap(a) => holder = a
      BY DEF InGap
    <2>2. CASE \E a \in Actors : Forgets(a)
      <3>1. PICK a \in Actors : Forgets(a)
        BY <2>2
      <3>2. debt' = debt /\ holder = a
        BY <2>1, <3>1 DEF Forgets, InGap
      <3>3. Contract!Forget
        BY <3>1, <3>2 DEF Contract!Forget, Forgets
      <3>4. QED
        BY <3>3 DEF Contract!Next
    <2>3. CASE ~(\E a \in Actors : Forgets(a)) /\ debt' # debt
      <3>1. PICK w \in Writers : pc[w] = "body"
        BY <2>3
      <3>2. Contract!WriterFails
        BY <2>1, <2>3, <3>1 DEF Contract!WriterFails
      <3>3. QED
        BY <3>2 DEF Contract!Next
    <2>4. CASE ~(\E a \in Actors : Forgets(a)) /\ debt' = debt
      <3>1. Contract!Leave \/ UNCHANGED Contract!contractVars
        BY <2>4 DEF Contract!Leave
      <3>2. QED
        BY <3>1 DEF Contract!Next
    <2>5. QED
      BY <2>2, <2>3, <2>4
  <1>29. ASSUME OriginalGfa PROVE [Contract!Next]_(Contract!contractVars)
    BY <1>29 DEF OriginalGfa, HolderInv, Contract!Next, Contract!Recover
  <1>30. ASSUME ClearAndRestart PROVE [Contract!Next]_(Contract!contractVars)
    BY <1>30 DEF ClearAndRestart
  <1>31. CASE UNCHANGED vars
    BY <1>31 DEF vars
  <1>32. QED
    BY <1>1, <1>2, <1>3, <1>4, <1>5, <1>6, <1>7, <1>8, <1>9, <1>10, <1>11, <1>12, <1>13, <1>14,
       <1>15, <1>16, <1>17, <1>18, <1>19, <1>20, <1>21, <1>22, <1>23, <1>24, <1>25, <1>26, <1>27,
       <1>28, <1>29, <1>30, <1>31
    DEF Next, WriterStep, WindowStep, FaultStep, RecoveryStep

\* The lease implements its contract.
THEOREM FenceImplementsContract == Spec => ImplementsContract
  <1>1. Init => Contract!Init
    BY DEF Init, Contract!Init
  <1>2. QED
    BY <1>1, FenceInvariance, FenceStepRefines, PTL DEF Spec, ImplementsContract, Contract!Spec

-----------------------------------------------------------------------------
\* The bridge.

\* Outside a batch only a failure and an opaque request take the controller out of VS1; a
\* coordinator that was bound while one was served is spent; and a batch knows the protocol
\* it has brought the controller to.
BridgeTypes ==
    /\ ctl \in {"vs1", "p300"} /\ mode \in {"vs1", "p300", "failed", "detached"}
    /\ opaque \subseteq {"bound", "bare"}
    /\ active \in {"none", "legacy", "batch"} /\ failedClosed \in BOOLEAN
InBatch == active = "batch" => ~failedClosed /\ mode \in {"vs1", "p300"}
InLegacy == active = "legacy" => ~failedClosed /\ (bound > 0 => bound = managers)
Between == active # "batch" => outdated = {}
Attested ==
    ~failedClosed /\ active # "batch" =>
        mode \in {"vs1", "detached"} /\ (opaque = {} => ctl = "vs1")
Used == "bound" \in opaque /\ mode \in {"vs1", "p300"} => bound = managers /\ spent

LineOwner ==
    /\ BridgeTypes /\ InBatch /\ InLegacy /\ Between /\ Attested /\ Used
    /\ ModeIsTrue /\ LedgerIsCurrent /\ ProofIsFresh

\* A new process has a controller in VS1 and no coordinator.
LEMMA InitLineOwner == PhasesInit => LineOwner
  BY DEF PhasesInit, LineOwner, BridgeTypes, InBatch, InLegacy, Between, Attested, Used, ModeIsTrue,
         LedgerIsCurrent, ProofIsFresh

\* Coordinators come and go between the calls: one that is entered proves VS1 anew, and one
\* that is left is not bound any more.
LEMMA ManagerLineOwner == LineOwner /\ (EnterManager \/ LeaveManager) => LineOwner'
  <1> SUFFICES ASSUME LineOwner, EnterManager \/ LeaveManager PROVE LineOwner'
    OBVIOUS
  <1> USE DEF bridge, samples, LineOwner
  <1>1. CASE EnterManager
    <2> USE <1>1 DEF EnterManager
    <2>1. BridgeTypes' /\ InBatch' /\ InLegacy' /\ Between'
      BY DEF BridgeTypes, InBatch, InLegacy, Between
    <2>2. Attested' /\ Used'
      BY DEF BridgeTypes, Attested, Used
    <2>3. ModeIsTrue' /\ LedgerIsCurrent' /\ ProofIsFresh'
      BY DEF Between, ModeIsTrue, LedgerIsCurrent, ProofIsFresh
    <2>4. QED
      BY <2>1, <2>2, <2>3
  <1>2. CASE LeaveManager
    <2> USE <1>2 DEF LeaveManager
    <2>1. BridgeTypes' /\ InBatch' /\ InLegacy' /\ Between'
      BY DEF BridgeTypes, InBatch, InLegacy, Between
    <2>2. Attested' /\ Used'
      BY DEF BridgeTypes, Attested, Used
    <2>3. ModeIsTrue' /\ LedgerIsCurrent' /\ ProofIsFresh'
      BY DEF BridgeTypes, Between, Attested, ModeIsTrue, LedgerIsCurrent, ProofIsFresh
    <2>4. QED
      BY <2>1, <2>2, <2>3
  <1>3. QED
    BY <1>1, <1>2

\* The bridge's calls begin between batches.  A bind takes no spent coordinator, and the end
\* of an opaque request drops the samples and spends the one that is bound.
LEMMA CallsLineOwner ==
    LineOwner /\ (Bind \/ OpenGroup \/ CloseGroup \/ StartLegacy \/ EndLegacy) => LineOwner'
  <1> SUFFICES ASSUME LineOwner, Bind \/ OpenGroup \/ CloseGroup \/ StartLegacy \/ EndLegacy PROVE LineOwner'
    OBVIOUS
  <1> USE DEF samples, LineOwner, BridgeTypes, InBatch, InLegacy, Between, Attested, Used, ModeIsTrue,
              LedgerIsCurrent, ProofIsFresh
  <1>1. CASE Bind
    <2>1. "bound" \notin opaque
      BY <1>1 DEF Bind, MayBind
    <2>2. QED
      BY <1>1, <2>1 DEF Bind, MayBind
  <1>2. CASE OpenGroup \/ CloseGroup
    BY <1>2 DEF OpenGroup, CloseGroup
  <1>3. CASE StartLegacy
    BY <1>3 DEF StartLegacy, MayServe, BoundMode
  <1>4. CASE EndLegacy
    <2>1. /\ active = "legacy" /\ active' = "none" /\ ~failedClosed
          /\ UNCHANGED <<mode, managers, bound, failedClosed>>
          /\ spent' = TRUE /\ outdated' = {} /\ ctl' \in {"vs1", "p300"}
      BY <1>4 DEF EndLegacy
    <2>2. opaque' # {} /\ opaque' \subseteq {"bound", "bare"}
      BY <1>4 DEF EndLegacy
    <2>3. "bound" \in opaque' => "bound" \in opaque \/ bound > 0
      BY <1>4 DEF EndLegacy
    <2>4. QED
      BY <2>1, <2>2, <2>3
  <1>5. QED
    BY <1>1, <1>2, <1>3, <1>4

\* A batch begins in VS1 on a coordinator that is not spent, and each handover proves anew
\* where the controller is.
LEMMA BatchLineOwner == LineOwner /\ (Execute \/ BatchSteps) => LineOwner'
  <1> SUFFICES ASSUME LineOwner, Execute \/ BatchSteps PROVE LineOwner'
    OBVIOUS
  <1> USE DEF LineOwner, BridgeTypes, InBatch, InLegacy, Between, Attested, Used, ModeIsTrue, LedgerIsCurrent,
              ProofIsFresh
  <1>1. CASE Execute
    <2>1. mode = "vs1" /\ "bound" \notin opaque
      BY <1>1 DEF Execute, MayExecute, BoundMode
    <2>2. /\ active = "none" /\ active' = "batch" /\ ~failedClosed
          /\ UNCHANGED <<ctl, mode, managers, opaque, bound, spent, failedClosed>>
      BY <1>1 DEF Execute, MayExecute, bridge
    <2>3. outdated' = {} \/ opaque # {}
      BY <1>1 DEF Execute
    <2>4. QED
      BY <2>1, <2>2, <2>3
  <1>2. CASE EnterP300
    BY <1>2 DEF EnterP300, StepIs, bridge
  <1>3. CASE LeaveP300
    BY <1>3 DEF LeaveP300, StepIs, bridge
  <1>4. CASE ReadJob
    <2>1. /\ active = "batch" /\ UNCHANGED <<ctl, mode, managers, opaque, active, bound, spent, failedClosed>>
          /\ outdated' \subseteq outdated
      BY <1>4 DEF ReadJob, StepIs, bridge
    <2>2. QED
      BY <2>1
  <1>5. CASE FinishBatch
    BY <1>5 DEF FinishBatch
  <1>6. QED
    BY <1>1, <1>2, <1>3, <1>4, <1>5 DEF BatchSteps

\* A batch that fails closes the bridge, wherever it has left the controller.
LEMMA FailureLineOwner == LineOwner /\ (StepFails \/ ResumeFails) => LineOwner'
  <1> SUFFICES ASSUME LineOwner, StepFails \/ ResumeFails PROVE LineOwner'
    OBVIOUS
  <1>1. active = "batch" /\ failedClosed' = TRUE /\ active' = "none" /\ outdated' = {} /\ UNCHANGED <<managers, bound, spent>>
    BY DEF StepFails, ResumeFails, Raises
  <1>2. \/ mode' = "failed" /\ ctl' \in {"vs1", "p300"} /\ opaque' = opaque
        \/ UNCHANGED <<mode, ctl, opaque>>
        \/ mode' = "vs1" /\ ctl' = "vs1" /\ opaque' = {}
    BY DEF StepFails, ResumeFails, LineOwner, BridgeTypes
  <1>3. QED
    BY <1>1, <1>2 DEF LineOwner, BridgeTypes, InBatch, InLegacy, Between, Attested, Used, ModeIsTrue,
                      LedgerIsCurrent, ProofIsFresh

\* Every step of the batches keeps the invariant.
LEMMA NextLineOwner == LineOwner /\ [PhasesNext]_phasesVars => LineOwner'
  <1> SUFFICES ASSUME LineOwner, [PhasesNext]_phasesVars PROVE LineOwner'
    OBVIOUS
  <1>1. CASE PhasesNext
    BY <1>1, ManagerLineOwner, CallsLineOwner, BatchLineOwner, FailureLineOwner DEF PhasesNext
  <1>2. CASE UNCHANGED phasesVars
    BY <1>2 DEF phasesVars, bridge, samples, LineOwner, BridgeTypes, InBatch, InLegacy, Between, Attested, Used,
                ModeIsTrue, LedgerIsCurrent, ProofIsFresh
  <1>3. QED
    BY <1>1, <1>2

\* Although a request of the splitter may change the session: no batch rests on a proof that
\* is older than one served while a coordinator was bound, no request meets a bridge that
\* failed closed, and a mode, a sample or a controller in P300 is off only by such a request or
\* a failed batch (response_to_request, bind_verified_coordinator, execute_maintenance), for
\* every list of jobs and every budget.
THEOREM BridgeSafe == PhasesSpec => []BridgeInv
  <1>1. PhasesSpec => []LineOwner
    BY InitLineOwner, NextLineOwner, PTL DEF PhasesSpec
  <1>2. LineOwner => BridgeInv
    BY DEF LineOwner, BridgeTypes, InLegacy, Attested, LegacyInVs1, BridgeInv
  <1>3. QED
    BY <1>1, <1>2, PTL

-----------------------------------------------------------------------------
\* The budget of a batch.

\* The constants of the batches are numbers.
LEMMA PhaseNumbers ==
    /\ EnterTime \in Nat /\ EnterTime > 0 /\ ReturnTime \in Nat /\ ReturnTime > 0
    /\ MaxAbsence \in Nat /\ MaxAge \in Nat /\ MaxWait \in Nat
    /\ \A tasks \in JobLists : tasks \in Seq(ReadJobs)
    /\ \A since \in Ages : since \in Nat
    /\ MaxManagers \in Nat /\ MaxLegacy \in Nat
  BY PhasesAssumption

\* The recursion of SafeOrder.
Empty == [done |-> <<>>, same |-> <<>>, other |-> <<>>, mode |-> "vs1"]
Placing(f, tasks, n) == IF n = 0 THEN Empty ELSE Place(f[n - 1], n, tasks[n])
Placings(f, tasks, m) == f = [n \in 0 .. m |-> Placing(f, tasks, n)]

\* It has a solution.
LEMMA PlacesExist ==
    ASSUME NEW tasks \in Seq(ReadJobs)
    PROVE  \E f : Placings(f, tasks, Len(tasks))
  <1> DEFINE T == {m \in 0 .. Len(tasks) : ~ \E f : Placings(f, tasks, m)}
  <1>1. Len(tasks) \in Nat
    OBVIOUS
  <1>2. SUFFICES ASSUME T # {} PROVE FALSE
    BY <1>1
  <1>3. PICK m \in T : \A n \in T : m <= n
    <2>1. T \in SUBSET Nat
      BY <1>1
    <2> HIDE DEF T
    <2>2. QED
      BY <1>2, <2>1, LeastNumber
  <1>4. m # 0
    <2>1. Placings([n \in 0 .. 0 |-> Empty], tasks, 0)
      BY DEF Placings, Placing
    <2>2. QED
      BY <2>1
  <1>5. m - 1 \in 0 .. Len(tasks) /\ m - 1 \notin T /\ m \in Nat
    <2>1. m \in 0 .. Len(tasks)
      BY <1>3
    <2>2. m \in Nat /\ m - 1 \in 0 .. Len(tasks) /\ ~(m <= m - 1)
      BY <1>1, <1>4, <2>1
    <2> HIDE DEF T
    <2>3. QED
      BY <1>3, <2>2
  <1>6. PICK f : Placings(f, tasks, m - 1)
    BY <1>5
  <1> DEFINE g == [n \in 0 .. m |-> IF n = m THEN Placing(f, tasks, m) ELSE f[n]]
  <1>7. ASSUME NEW n \in 0 .. m PROVE g[n] = Placing(g, tasks, n)
    <2>1. n # 0 => n - 1 \in 0 .. m /\ n - 1 # m
      BY <1>5
    <2>2. n # 0 => g[n - 1] = f[n - 1]
      BY <2>1
    <2>3. Placing(g, tasks, n) = Placing(f, tasks, n)
      BY <2>2 DEF Placing
    <2>4. n # m => n \in 0 .. m - 1
      BY <1>5
    <2>5. n # m => f[n] = Placing(f, tasks, n)
      BY <1>6, <2>4 DEF Placings
    <2>6. QED
      BY <2>3, <2>5
  <1>8. Placings(g, tasks, m)
    BY <1>7 DEF Placings
  <1>9. QED
    BY <1>3, <1>8

\* Its parts are lists of positions.
Placed(N) == [done : Seq(1 .. N), same : Seq(1 .. N), other : Seq(1 .. N), mode : {"vs1", "p300"}]

-----------------------------------------------------------------------------
\* The order of a batch.

\* The jobs placed so far, in the order they would be read in.
Ordered(acc) == acc.done \o acc.same \o acc.other

\* What SafeOrder unfolds to.
LEMMA OrderUnfolds ==
    ASSUME NEW tasks \in Seq(ReadJobs)
    PROVE  \E f : Placings(f, tasks, Len(tasks)) /\ SafeOrder(tasks) = Ordered(f[Len(tasks)])
  <1> DEFINE placed[n \in 0 .. Len(tasks)] ==
                IF n = 0 THEN [done |-> <<>>, same |-> <<>>, other |-> <<>>, mode |-> "vs1"]
                ELSE Place(placed[n - 1], n, tasks[n])
             last == placed[Len(tasks)]
  <1>1. placed = CHOOSE f : Placings(f, tasks, Len(tasks))
    BY DEF Placings, Placing, Empty
  <1>2. SafeOrder(tasks) = Ordered(last)
    BY DEF SafeOrder, Ordered
  <1> HIDE DEF placed
  <1>3. QED
    BY <1>1, <1>2, PlacesExist

\* Job i has to be read before job j, as Precedes has it of the jobs of the batch.
Before(tasks, i, j) ==
    i < j /\ (ModeOf(tasks[i]) = ModeOf(tasks[j]) \/ \E k \in i .. j : ~tasks[k].independent)

\* A sequence of positions that reads none twice and none too early.
Kept(seq, tasks) ==
    \A k, l \in 1 .. Len(seq) : k < l => seq[k] # seq[l] /\ ~Before(tasks, seq[l], seq[k])
Rising(seq) == \A k, l \in 1 .. Len(seq) : k < l => seq[k] < seq[l]

\* One sequence after another.
LEMMA KeptConcat ==
    ASSUME NEW tasks, NEW s \in Seq(Nat), NEW t \in Seq(Nat), Kept(s, tasks), Kept(t, tasks),
           \A k \in 1 .. Len(s) : \A l \in 1 .. Len(t) : s[k] # t[l] /\ ~Before(tasks, t[l], s[k])
    PROVE  Kept(s \o t, tasks)
  <1> SUFFICES ASSUME NEW k \in 1 .. Len(s \o t), NEW l \in 1 .. Len(s \o t), k < l
               PROVE  (s \o t)[k] # (s \o t)[l] /\ ~Before(tasks, (s \o t)[l], (s \o t)[k])
    BY DEF Kept
  <1>1. /\ Len(s) \in Nat /\ Len(t) \in Nat /\ Len(s \o t) = Len(s) + Len(t)
        /\ \A i \in 1 .. Len(s \o t) : (s \o t)[i] = IF i <= Len(s) THEN s[i] ELSE t[i - Len(s)]
    OBVIOUS
  <1>2. CASE l <= Len(s)
    <2>1. k \in 1 .. Len(s) /\ l \in 1 .. Len(s) /\ (s \o t)[k] = s[k] /\ (s \o t)[l] = s[l]
      BY <1>1, <1>2
    <2>2. QED
      BY <2>1 DEF Kept
  <1>3. CASE k > Len(s)
    <2>1. /\ k - Len(s) \in 1 .. Len(t) /\ l - Len(s) \in 1 .. Len(t) /\ k - Len(s) < l - Len(s)
          /\ (s \o t)[k] = t[k - Len(s)] /\ (s \o t)[l] = t[l - Len(s)]
      BY <1>1, <1>3
    <2>2. QED
      BY <2>1 DEF Kept
  <1>4. CASE k <= Len(s) /\ l > Len(s)
    <2>1. /\ k \in 1 .. Len(s) /\ l - Len(s) \in 1 .. Len(t)
          /\ (s \o t)[k] = s[k] /\ (s \o t)[l] = t[l - Len(s)]
      BY <1>1, <1>4
    <2>2. QED
      BY <2>1
  <1>5. l <= Len(s) \/ k > Len(s) \/ (k <= Len(s) /\ l > Len(s))
    <2>1. k \in Nat /\ l \in Nat
      BY <1>1
    <2>2. QED
      BY <1>1, <2>1
  <1>6. QED
    BY <1>2, <1>3, <1>4, <1>5

\* What rises passes nothing.
LEMMA RisingKept ==
    ASSUME NEW tasks, NEW s \in Seq(Nat), Rising(s)
    PROVE  Kept(s, tasks)
  <1> SUFFICES ASSUME NEW k \in 1 .. Len(s), NEW l \in 1 .. Len(s), k < l
               PROVE  s[k] # s[l] /\ ~Before(tasks, s[l], s[k])
    BY DEF Kept
  <1>1. s[k] < s[l] /\ s[k] \in Nat /\ s[l] \in Nat
    BY DEF Rising
  <1>2. QED
    BY <1>1 DEF Before

\* A number greater than all before goes behind them.
LEMMA RisingAppend ==
    ASSUME NEW s \in Seq(Nat), Rising(s), NEW n \in Nat, \A k \in 1 .. Len(s) : s[k] < n
    PROVE  Rising(Append(s, n))
  <1> SUFFICES ASSUME NEW k \in 1 .. Len(s) + 1, NEW l \in 1 .. Len(s) + 1, k < l
               PROVE  Append(s, n)[k] < Append(s, n)[l]
    BY DEF Rising
  <1>1. k \in 1 .. Len(s) /\ Append(s, n)[k] = s[k]
    OBVIOUS
  <1>2. CASE l = Len(s) + 1
    BY <1>1, <1>2
  <1>3. CASE l # Len(s) + 1
    <2>1. l \in 1 .. Len(s) /\ Append(s, n)[l] = s[l]
      BY <1>3
    <2>2. QED
      BY <1>1, <2>1 DEF Rising
  <1>4. QED
    BY <1>2, <1>3

\* After n jobs those up to the last barrier b are done; behind it are two lists of
\* independent jobs, of the protocol the region starts in and of the other.
Has(seq, i) == \E k \in 1 .. Len(seq) : seq[k] = i
Split(acc, n, b, tasks) ==
    /\ acc \in Placed(Len(tasks)) /\ b \in 0 .. n
    /\ \A i \in 1 .. n : IF i <= b THEN Has(acc.done, i)
                                   ELSE tasks[i].independent /\ (Has(acc.same, i) \/ Has(acc.other, i))
    /\ \A k \in 1 .. Len(acc.done) : acc.done[k] <= b
    /\ \A k \in 1 .. Len(acc.same) : acc.same[k] \in b + 1 .. n /\ ModeOf(tasks[acc.same[k]]) = acc.mode
    /\ \A k \in 1 .. Len(acc.other) : acc.other[k] \in b + 1 .. n /\ ModeOf(tasks[acc.other[k]]) # acc.mode
    /\ Kept(acc.done, tasks) /\ Rising(acc.same) /\ Rising(acc.other)

\* What is in a concatenation.
LEMMA HasConcat ==
    ASSUME NEW S, NEW s \in Seq(S), NEW t \in Seq(S), NEW i
    PROVE  Has(s \o t, i) <=> Has(s, i) \/ Has(t, i)
  <1>1. /\ Len(s) \in Nat /\ Len(t) \in Nat /\ Len(s \o t) = Len(s) + Len(t)
        /\ \A k \in 1 .. Len(s) : k \in 1 .. Len(s \o t) /\ (s \o t)[k] = s[k]
        /\ \A k \in 1 .. Len(t) : Len(s) + k \in 1 .. Len(s \o t) /\ (s \o t)[Len(s) + k] = t[k]
        /\ \A k \in 1 .. Len(s \o t) : k \in 1 .. Len(s) \/ (k - Len(s) \in 1 .. Len(t) /\ k = Len(s) + (k - Len(s)))
    OBVIOUS
  <1> DEFINE st == s \o t
  <1> HIDE DEF st
  <1>2. ASSUME NEW k \in 1 .. Len(s), s[k] = i PROVE Has(st, i)
    BY <1>1, <1>2 DEF Has, st
  <1>3. ASSUME NEW k \in 1 .. Len(t), t[k] = i PROVE Has(st, i)
    BY <1>1, <1>3 DEF Has, st
  <1>4. ASSUME NEW k \in 1 .. Len(st), st[k] = i PROVE Has(s, i) \/ Has(t, i)
    <2>1. CASE k \in 1 .. Len(s)
      BY <1>1, <1>4, <2>1 DEF Has, st
    <2>2. CASE k - Len(s) \in 1 .. Len(t) /\ k = Len(s) + (k - Len(s))
      <3>1. st[k] = t[k - Len(s)]
        BY <1>1, <2>2 DEF st
      <3>2. QED
        BY <1>4, <2>2, <3>1 DEF Has
    <2>3. QED
      BY <1>1, <2>1, <2>2 DEF st
  <1>5. QED
    BY <1>2, <1>3, <1>4 DEF Has, st

\* Read in this order, they come one after another as they should.
LEMMA SplitInOrder ==
    ASSUME NEW tasks \in Seq(ReadJobs), NEW n \in 0 .. Len(tasks), NEW b, NEW acc, Split(acc, n, b, tasks)
    PROVE  /\ Ordered(acc) \in Seq(1 .. Len(tasks)) /\ Kept(Ordered(acc), tasks)
           /\ \A i \in 1 .. n : Has(Ordered(acc), i)
           /\ \A k \in 1 .. Len(Ordered(acc)) : Ordered(acc)[k] <= n
  <1> DEFINE d == acc.done
             s == acc.same
             o == acc.other
             m == acc.mode
  <1>1. /\ Len(tasks) \in Nat /\ n \in Nat /\ b \in 0 .. n
        /\ d \in Seq(1 .. Len(tasks)) /\ s \in Seq(1 .. Len(tasks)) /\ o \in Seq(1 .. Len(tasks))
    BY DEF Split, Placed
  <1>2. /\ \A k \in 1 .. Len(d) : d[k] <= b
        /\ \A k \in 1 .. Len(s) : s[k] \in b + 1 .. n /\ ModeOf(tasks[s[k]]) = m
        /\ \A k \in 1 .. Len(o) : o[k] \in b + 1 .. n /\ ModeOf(tasks[o[k]]) # m
        /\ Kept(d, tasks) /\ Rising(s) /\ Rising(o)
        /\ \A i \in 1 .. n : IF i <= b THEN Has(d, i) ELSE tasks[i].independent /\ (Has(s, i) \/ Has(o, i))
    BY DEF Split
  <1> HIDE DEF d, s, o, m
  <1>3. d \in Seq(Nat) /\ s \in Seq(Nat) /\ o \in Seq(Nat)
    BY <1>1
  <1>4. Kept(s, tasks) /\ Kept(o, tasks)
    BY <1>2, <1>3, RisingKept
  <1>5. Kept(d \o s, tasks)
    <2>1. ASSUME NEW k \in 1 .. Len(d), NEW l \in 1 .. Len(s) PROVE d[k] # s[l] /\ ~Before(tasks, s[l], d[k])
      <3> DEFINE x == d[k]
                 y == s[l]
      <3>1. x \in Nat /\ y \in Nat /\ b \in Nat /\ n \in Nat
        <4>1. x \in Nat /\ y \in Nat
          BY <1>3
        <4>2. b \in Nat /\ n \in Nat
          BY <1>1
        <4>3. QED
          BY <4>1, <4>2
      <3>2. x <= b /\ y \in b + 1 .. n
        BY <1>2
      <3> HIDE DEF x, y
      <3>3. x < y
        BY <3>1, <3>2
      <3>4. QED
        BY <3>1, <3>3 DEF Before, x, y
    <2>2. QED
      BY <1>2, <1>3, <1>4, <2>1, KeptConcat
  <1> DEFINE ds == d \o s
  <1>6. ASSUME NEW k \in 1 .. Len(ds) PROVE ds[k] \in Nat /\ (ds[k] <= b \/ (ds[k] \in b + 1 .. n /\ ModeOf(tasks[ds[k]]) = m))
    <2>1. ds[k] = IF k <= Len(d) THEN d[k] ELSE s[k - Len(d)]
      BY <1>3
    <2>2. CASE k <= Len(d)
      <3>1. k \in 1 .. Len(d) /\ ds[k] = d[k]
        BY <1>3, <2>1, <2>2
      <3>2. d[k] \in Nat
        BY <1>3, <3>1
      <3>3. QED
        BY <1>2, <3>1, <3>2
    <2>3. CASE k > Len(d)
      <3>1. k - Len(d) \in 1 .. Len(s) /\ ds[k] = s[k - Len(d)]
        BY <1>3, <2>1, <2>3
      <3>2. s[k - Len(d)] \in Nat
        BY <1>3, <3>1
      <3>3. QED
        BY <1>2, <3>1, <3>2
    <2>4. QED
      BY <1>3, <2>2, <2>3
  <1>7. ds \in Seq(Nat) /\ ds \in Seq(1 .. Len(tasks)) /\ Kept(ds, tasks)
    BY <1>1, <1>3, <1>5
  <1>8. \A i \in 1 .. n : Has(ds, i) \/ Has(o, i)
    <2>1. \A i \in 1 .. n : Has(d, i) \/ Has(s, i) \/ Has(o, i)
      BY <1>2
    <2>2. QED
      BY <1>3, <2>1, HasConcat
  <1> HIDE DEF ds
  <1>9. ASSUME NEW k \in 1 .. Len(ds), NEW l \in 1 .. Len(o) PROVE ds[k] # o[l] /\ ~Before(tasks, o[l], ds[k])
    <2> DEFINE x == ds[k]
               y == o[l]
    <2>1. x \in Nat /\ (x <= b \/ (x \in b + 1 .. n /\ ModeOf(tasks[x]) = m))
      BY <1>6
    <2>2. y \in Nat /\ y \in b + 1 .. n /\ ModeOf(tasks[y]) # m
      BY <1>2, <1>3
    <2>3. b \in Nat /\ n \in Nat
      BY <1>1
    <2> HIDE DEF x, y
    <2>4. CASE x <= b
      <3>1. x < y
        BY <2>1, <2>2, <2>3, <2>4
      <3>2. QED
        BY <2>1, <2>2, <3>1 DEF Before, x, y
    <2>5. CASE x \in b + 1 .. n /\ ModeOf(tasks[x]) = m
      <3>1. \A i \in y .. x : i \in b + 1 .. n
        BY <2>1, <2>2, <2>3, <2>5
      <3>2. \A i \in b + 1 .. n : i \in 1 .. n /\ ~(i <= b)
        BY <2>3
      <3>3. \A i \in b + 1 .. n : tasks[i].independent
        BY <1>2, <3>2
      <3>4. x # y
        BY <2>2, <2>5
      <3>5. ~Before(tasks, y, x)
        BY <2>2, <2>5, <3>1, <3>3 DEF Before
      <3>6. QED
        BY <3>4, <3>5 DEF x, y
    <2>6. QED
      BY <2>1, <2>4, <2>5
  <1>10. Kept(ds \o o, tasks)
    BY <1>3, <1>4, <1>7, <1>9, KeptConcat
  <1>11. \A i \in 1 .. n : Has(ds \o o, i)
    BY <1>3, <1>7, <1>8, HasConcat
  <1>12. ASSUME NEW k \in 1 .. Len(ds \o o) PROVE (ds \o o)[k] <= n
    <2>1. Has(ds \o o, (ds \o o)[k])
      BY DEF Has
    <2>2. Has(ds, (ds \o o)[k]) \/ Has(o, (ds \o o)[k])
      BY <1>3, <1>7, <2>1, HasConcat
    <2>3. CASE Has(ds, (ds \o o)[k])
      <3>1. PICK i \in 1 .. Len(ds) : ds[i] = (ds \o o)[k]
        BY <2>3 DEF Has
      <3>2. ds[i] <= n
        BY <1>1, <1>6
      <3>3. QED
        BY <3>1, <3>2
    <2>4. CASE Has(o, (ds \o o)[k])
      <3>1. PICK i \in 1 .. Len(o) : o[i] = (ds \o o)[k]
        BY <2>4 DEF Has
      <3>2. o[i] \in b + 1 .. n
        BY <1>2
      <3>3. o[i] <= n
        BY <1>1, <3>2
      <3>4. QED
        BY <3>1, <3>3
    <2>5. QED
      BY <2>2, <2>3, <2>4
  <1>13. ds \o o \in Seq(1 .. Len(tasks))
    BY <1>1, <1>7
  <1>14. QED
    BY <1>10, <1>11, <1>12, <1>13 DEF Ordered, ds, d, s, o

\* A job that is placed keeps the split: an independent one behind its like, a barrier
\* behind all.
LEMMA SplitNext ==
    ASSUME NEW tasks \in Seq(ReadJobs), NEW n \in 1 .. Len(tasks), NEW b, NEW acc, Split(acc, n - 1, b, tasks)
    PROVE  \E c : Split(Place(acc, n, tasks[n]), n, c, tasks)
  <1> DEFINE q == Place(acc, n, tasks[n])
             N == Len(tasks)
  <1>1. /\ N \in Nat /\ n \in Nat /\ n > 0 /\ n - 1 \in Nat /\ b \in 0 .. n - 1 /\ acc.mode \in {"vs1", "p300"}
        /\ acc.done \in Seq(1 .. N) /\ acc.same \in Seq(1 .. N) /\ acc.other \in Seq(1 .. N)
    BY DEF Split, Placed
  <1>2. /\ \A k \in 1 .. Len(acc.done) : acc.done[k] <= b
        /\ \A k \in 1 .. Len(acc.same) : acc.same[k] \in b + 1 .. n - 1 /\ ModeOf(tasks[acc.same[k]]) = acc.mode
        /\ \A k \in 1 .. Len(acc.other) : acc.other[k] \in b + 1 .. n - 1 /\ ModeOf(tasks[acc.other[k]]) # acc.mode
        /\ Kept(acc.done, tasks) /\ Rising(acc.same) /\ Rising(acc.other)
        /\ \A i \in 1 .. n - 1 : IF i <= b THEN Has(acc.done, i)
                                 ELSE tasks[i].independent /\ (Has(acc.same, i) \/ Has(acc.other, i))
    BY DEF Split
  <1>3. ModeOf(tasks[n]) \in {"vs1", "p300"}
    BY DEF ModeOf
  <1>4. CASE ~tasks[n].independent
    <2> DEFINE order == Ordered(acc)
    <2>1. /\ order \in Seq(1 .. N) /\ Kept(order, tasks)
          /\ \A i \in 1 .. n - 1 : Has(order, i)
          /\ \A k \in 1 .. Len(order) : order[k] <= n - 1
      <3>1. n - 1 \in 0 .. Len(tasks)
        BY <1>1
      <3>2. QED
        BY <3>1, SplitInOrder
    <2> HIDE DEF order
    <2>2. q = [done |-> order \o <<n>>, same |-> <<>>, other |-> <<>>, mode |-> ModeOf(tasks[n])]
      BY <1>4 DEF Place, Ordered, order
    <2> DEFINE done == order \o <<n>>
    <2>3. q.done = done /\ q.same = <<>> /\ q.other = <<>> /\ q.mode = ModeOf(tasks[n])
      <3> HIDE DEF done
      <3>1. q = [done |-> done, same |-> <<>>, other |-> <<>>, mode |-> ModeOf(tasks[n])]
        BY <2>2 DEF done
      <3> HIDE DEF q
      <3>2. QED
        BY <3>1
    <2>4. <<n>> \in Seq(1 .. N) /\ <<n>> \in Seq(Nat) /\ Len(<<n>>) = 1 /\ <<n>>[1] = n /\ order \in Seq(Nat)
      BY <1>1, <2>1
    <2>5. Kept(<<n>>, tasks)
      BY <2>4 DEF Kept
    <2>6. ASSUME NEW k \in 1 .. Len(order), NEW l \in 1 .. Len(<<n>>)
          PROVE  order[k] # <<n>>[l] /\ ~Before(tasks, <<n>>[l], order[k])
      <3>1. l = 1 /\ order[k] <= n - 1 /\ order[k] \in Nat
        BY <2>1, <2>4
      <3>2. QED
        BY <1>1, <2>4, <3>1 DEF Before
    <2>7. Kept(order \o <<n>>, tasks)
      BY <2>1, <2>4, <2>5, <2>6, KeptConcat
    <2>8. \A i \in 1 .. n : Has(order \o <<n>>, i)
      <3>1. Has(<<n>>, n)
        BY <2>4 DEF Has
      <3>2. \A i \in 1 .. n : Has(order, i) \/ Has(<<n>>, i)
        BY <1>1, <2>1, <3>1
      <3>3. QED
        BY <2>4, <3>2, HasConcat
    <2>9. \A k \in 1 .. Len(order \o <<n>>) : (order \o <<n>>)[k] <= n
      BY <1>1, <2>1, <2>4
    <2>10. order \o <<n>> \in Seq(1 .. N) /\ <<>> \in Seq(1 .. N)
      BY <2>1, <2>4
    <2>11. q \in Placed(N)
      BY <1>3, <2>2, <2>10 DEF Placed
    <2>12. Rising(<<>>) /\ Len(<<>>) = 0
      BY DEF Rising
    <2> HIDE DEF q, done
    <2>13. \A i \in 1 .. n : i <= n /\ Has(q.done, i)
      <3>1. \A i \in 1 .. n : i <= n
        BY <1>1
      <3>2. \A i \in 1 .. n : Has(done, i)
        BY <2>8 DEF done
      <3>3. QED
        BY <2>3, <3>1, <3>2
    <2>14. (\A k \in 1 .. Len(q.done) : q.done[k] <= n) /\ Kept(q.done, tasks)
      BY <2>3, <2>7, <2>9 DEF done
    <2>15. Split(q, n, n, tasks)
      <3>1. n \in 0 .. n /\ 1 .. 0 = {}
        BY <1>1
      <3>2. QED
        BY <2>3, <2>11, <2>12, <2>13, <2>14, <3>1 DEF Split
    <2>16. QED
      BY <2>15 DEF q
  <1>5. CASE tasks[n].independent /\ ModeOf(tasks[n]) = acc.mode
    <2> DEFINE s == acc.same
    <2>1. q = [acc EXCEPT !.same = Append(@, n)]
      BY <1>5 DEF Place
    <2>2. q.done = acc.done /\ q.same = Append(s, n) /\ q.other = acc.other /\ q.mode = acc.mode /\ q \in Placed(N)
      <3>1. n \in 1 .. N /\ acc \in Placed(N)
        BY DEF Split
      <3>2. Append(acc.same, n) \in Seq(1 .. N)
        BY <1>1, <3>1
      <3>3. acc = [done |-> acc.done, same |-> acc.same, other |-> acc.other, mode |-> acc.mode]
        BY <3>1 DEF Placed
      <3> HIDE DEF q
      <3>4. QED
        BY <2>1, <3>1, <3>2, <3>3 DEF Placed
    <2> HIDE DEF q
    <2>3. /\ s \in Seq(Nat) /\ Rising(s) /\ \A k \in 1 .. Len(s) : s[k] \in b + 1 .. n - 1 /\ ModeOf(tasks[s[k]]) = acc.mode
      BY <1>1, <1>2
    <2> HIDE DEF s
    <2>4. Rising(Append(s, n))
      <3>1. \A k \in 1 .. Len(s) : s[k] < n
        BY <1>1, <2>3
      <3>2. QED
        BY <1>1, <2>3, <3>1, RisingAppend
    <2>5. \A k \in 1 .. Len(Append(s, n)) : Append(s, n)[k] \in b + 1 .. n /\ ModeOf(tasks[Append(s, n)[k]]) = acc.mode
      <3>1. /\ Len(Append(s, n)) = Len(s) + 1 /\ Append(s, n)[Len(s) + 1] = n /\ Len(s) \in Nat
            /\ \A k \in 1 .. Len(s) : Append(s, n)[k] = s[k]
        BY <1>1, <2>3
      <3>2. n \in b + 1 .. n /\ b + 1 .. n - 1 \subseteq b + 1 .. n
        BY <1>1
      <3> SUFFICES ASSUME NEW k \in 1 .. Len(s) + 1
                   PROVE  Append(s, n)[k] \in b + 1 .. n /\ ModeOf(tasks[Append(s, n)[k]]) = acc.mode
        BY <3>1
      <3>3. CASE k = Len(s) + 1
        BY <1>5, <3>1, <3>2, <3>3
      <3>4. CASE k \in 1 .. Len(s)
        BY <2>3, <3>1, <3>2, <3>4
      <3>5. QED
        BY <3>1, <3>3, <3>4
    <2>6. \A i : Has(s, i) => Has(Append(s, n), i)
      BY <2>3 DEF Has
    <2>7. Has(Append(s, n), n)
      <3>1. Append(s, n)[Len(s) + 1] = n /\ Len(s) + 1 \in 1 .. Len(Append(s, n))
        BY <2>3
      <3>2. QED
        BY <3>1 DEF Has
    <2>8. \A i \in 1 .. n : IF i <= b THEN Has(q.done, i) ELSE tasks[i].independent /\ (Has(q.same, i) \/ Has(q.other, i))
      BY <1>1, <1>2, <1>5, <2>2, <2>6, <2>7 DEF s
    <2>9. \A k \in 1 .. Len(q.other) : q.other[k] \in b + 1 .. n /\ ModeOf(tasks[q.other[k]]) # q.mode
      <3>1. b + 1 .. n - 1 \subseteq b + 1 .. n
        BY <1>1
      <3>2. \A k \in 1 .. Len(acc.other) : acc.other[k] \in b + 1 .. n /\ ModeOf(tasks[acc.other[k]]) # acc.mode
        BY <1>2, <3>1
      <3>3. QED
        BY <2>2, <3>2
    <2>10. Split(q, n, b, tasks)
      BY <1>1, <1>2, <2>2, <2>4, <2>5, <2>8, <2>9 DEF Split
    <2>11. QED
      BY <2>10 DEF q
  <1>6. CASE tasks[n].independent /\ ModeOf(tasks[n]) # acc.mode
    <2> DEFINE o == acc.other
    <2>1. q = [acc EXCEPT !.other = Append(@, n)]
      BY <1>6 DEF Place
    <2>2. q.done = acc.done /\ q.other = Append(o, n) /\ q.same = acc.same /\ q.mode = acc.mode /\ q \in Placed(N)
      <3>1. n \in 1 .. N /\ acc \in Placed(N)
        BY DEF Split
      <3>2. Append(acc.other, n) \in Seq(1 .. N)
        BY <1>1, <3>1
      <3>3. acc = [done |-> acc.done, same |-> acc.same, other |-> acc.other, mode |-> acc.mode]
        BY <3>1 DEF Placed
      <3> HIDE DEF q
      <3>4. QED
        BY <2>1, <3>1, <3>2, <3>3 DEF Placed
    <2> HIDE DEF q
    <2>3. /\ o \in Seq(Nat) /\ Rising(o) /\ \A k \in 1 .. Len(o) : o[k] \in b + 1 .. n - 1 /\ ModeOf(tasks[o[k]]) # acc.mode
      BY <1>1, <1>2
    <2> HIDE DEF o
    <2>4. Rising(Append(o, n))
      <3>1. \A k \in 1 .. Len(o) : o[k] < n
        BY <1>1, <2>3
      <3>2. QED
        BY <1>1, <2>3, <3>1, RisingAppend
    <2>5. \A k \in 1 .. Len(Append(o, n)) : Append(o, n)[k] \in b + 1 .. n /\ ModeOf(tasks[Append(o, n)[k]]) # acc.mode
      <3>1. /\ Len(Append(o, n)) = Len(o) + 1 /\ Append(o, n)[Len(o) + 1] = n /\ Len(o) \in Nat
            /\ \A k \in 1 .. Len(o) : Append(o, n)[k] = o[k]
        BY <1>1, <2>3
      <3>2. n \in b + 1 .. n /\ b + 1 .. n - 1 \subseteq b + 1 .. n
        BY <1>1
      <3> SUFFICES ASSUME NEW k \in 1 .. Len(o) + 1
                   PROVE  Append(o, n)[k] \in b + 1 .. n /\ ModeOf(tasks[Append(o, n)[k]]) # acc.mode
        BY <3>1
      <3>3. CASE k = Len(o) + 1
        BY <1>6, <3>1, <3>2, <3>3
      <3>4. CASE k \in 1 .. Len(o)
        BY <2>3, <3>1, <3>2, <3>4
      <3>5. QED
        BY <3>1, <3>3, <3>4
    <2>6. \A i : Has(o, i) => Has(Append(o, n), i)
      BY <2>3 DEF Has
    <2>7. Has(Append(o, n), n)
      <3>1. Append(o, n)[Len(o) + 1] = n /\ Len(o) + 1 \in 1 .. Len(Append(o, n))
        BY <2>3
      <3>2. QED
        BY <3>1 DEF Has
    <2>8. \A i \in 1 .. n : IF i <= b THEN Has(q.done, i) ELSE tasks[i].independent /\ (Has(q.same, i) \/ Has(q.other, i))
      BY <1>1, <1>2, <1>6, <2>2, <2>6, <2>7 DEF o
    <2>9. \A k \in 1 .. Len(q.same) : q.same[k] \in b + 1 .. n /\ ModeOf(tasks[q.same[k]]) = q.mode
      <3>1. b + 1 .. n - 1 \subseteq b + 1 .. n
        BY <1>1
      <3>2. \A k \in 1 .. Len(acc.same) : acc.same[k] \in b + 1 .. n /\ ModeOf(tasks[acc.same[k]]) = acc.mode
        BY <1>2, <3>1
      <3>3. QED
        BY <2>2, <3>2
    <2>10. Split(q, n, b, tasks)
      BY <1>1, <1>2, <2>2, <2>4, <2>5, <2>8, <2>9 DEF Split
    <2>11. QED
      BY <2>10 DEF q
  <1>7. QED
    BY <1>4, <1>5, <1>6

-----------------------------------------------------------------------------
\* The windows of an order.  A P300 job begins one when it is the first or comes after a job
\* of VS1.
Begins(seq, tasks, k) ==
    ModeOf(tasks[seq[k]]) = "p300" /\ (k = 1 \/ ModeOf(tasks[seq[k - 1]]) = "vs1")
Entries(seq, tasks) == Cardinality({k \in 1 .. Len(seq) : Begins(seq, tasks, k)})
EndMode(seq, tasks) == IF Len(seq) = 0 THEN "vs1" ELSE ModeOf(tasks[seq[Len(seq)]])

\* Those the first n jobs need in the order given.
Needed(tasks, n) ==
    {i \in 1 .. n : ModeOf(tasks[i]) = "p300" /\ (i = 1 \/ ModeOf(tasks[i - 1]) = "vs1")}
Given(tasks, n) == Cardinality(Needed(tasks, n))

\* Jobs of one protocol in a row begin a window at their first one, if at all.
LEMMA EntriesOfRun ==
    ASSUME NEW tasks, NEW s \in Seq(Nat), NEW t \in Seq(Nat), NEW m \in {"vs1", "p300"},
           \A k \in 1 .. Len(t) : ModeOf(tasks[t[k]]) = m
    PROVE  /\ Entries(s, tasks) \in Nat
           /\ Entries(s \o t, tasks) = Entries(s, tasks)
                + IF Len(t) > 0 /\ m = "p300" /\ EndMode(s, tasks) = "vs1" THEN 1 ELSE 0
           /\ EndMode(s \o t, tasks) = IF Len(t) > 0 THEN m ELSE EndMode(s, tasks)
  <1> DEFINE st == s \o t
             n  == Len(s)
             A  == {k \in 1 .. n : Begins(s, tasks, k)}
             B  == {k \in 1 .. Len(st) : Begins(st, tasks, k)}
  <1>1. /\ n \in Nat /\ Len(t) \in Nat /\ Len(st) = n + Len(t)
        /\ \A k \in 1 .. n : st[k] = s[k]
        /\ \A k \in 1 .. Len(st) : k > n => st[k] = t[k - n] /\ k - n \in 1 .. Len(t)
    OBVIOUS
  <1>2. IsFiniteSet(A) /\ Cardinality(A) \in Nat /\ Cardinality(A \cup {n + 1}) = Cardinality(A) + 1
    <2>1. IsFiniteSet(1 .. n)
      <3>1. 1 \in Int /\ n \in Int
        BY <1>1
      <3>2. QED
        BY <3>1, FS_Interval, Zenon
    <2>2. IsFiniteSet(A)
      BY <2>1, FS_Subset
    <2>3. n + 1 \notin A
      BY <1>1
    <2> HIDE DEF A
    <2>4. QED
      BY <2>2, <2>3, FS_AddElement, FS_CardinalityType
  <1>3. \A k \in 1 .. n : Begins(st, tasks, k) <=> Begins(s, tasks, k)
    <2> SUFFICES ASSUME NEW k \in 1 .. n PROVE Begins(st, tasks, k) <=> Begins(s, tasks, k)
      OBVIOUS
    <2>1. st[k] = s[k] /\ (k # 1 => st[k - 1] = s[k - 1])
      BY <1>1
    <2> HIDE DEF st
    <2>2. QED
      BY <2>1 DEF Begins
  <1>4. ASSUME NEW k \in 1 .. Len(st), k > n PROVE ModeOf(tasks[st[k]]) = m
    <2>1. st[k] = t[k - n] /\ k - n \in 1 .. Len(t)
      BY <1>1, <1>4
    <2> HIDE DEF st
    <2>2. QED
      BY <2>1
  <1>5. \A k \in 1 .. Len(st) : k > n + 1 => ~Begins(st, tasks, k)
    <2> SUFFICES ASSUME NEW k \in 1 .. Len(st), k > n + 1 PROVE ~Begins(st, tasks, k)
      OBVIOUS
    <2>1. k # 1 /\ k - 1 \in 1 .. Len(st) /\ k - 1 > n /\ k > n
      BY <1>1
    <2>2. ModeOf(tasks[st[k]]) = m /\ ModeOf(tasks[st[k - 1]]) = m
      BY <1>4, <2>1
    <2> HIDE DEF st
    <2>3. QED
      BY <2>1, <2>2 DEF Begins
  <1>6. Len(t) > 0 => (Begins(st, tasks, n + 1) <=> m = "p300" /\ EndMode(s, tasks) = "vs1")
    <2> SUFFICES ASSUME Len(t) > 0 PROVE Begins(st, tasks, n + 1) <=> m = "p300" /\ EndMode(s, tasks) = "vs1"
      OBVIOUS
    <2>1. ModeOf(tasks[st[n + 1]]) = m
      BY <1>1, <1>4
    <2>2. CASE n = 0
      <3> HIDE DEF st
      <3>1. QED
        BY <2>1, <2>2 DEF Begins, EndMode
    <2>3. CASE n # 0
      <3>1. n + 1 # 1 /\ (n + 1) - 1 = n /\ st[n] = s[n]
        BY <1>1, <2>3
      <3> HIDE DEF st
      <3>2. QED
        BY <2>1, <2>3, <3>1 DEF Begins, EndMode
    <2>4. QED
      BY <2>2, <2>3
  <1> HIDE DEF st
  <1>7. Cardinality(B) = Cardinality(A) + IF Len(t) > 0 /\ m = "p300" /\ EndMode(s, tasks) = "vs1" THEN 1 ELSE 0
    <2>1. CASE Len(t) > 0 /\ m = "p300" /\ EndMode(s, tasks) = "vs1"
      <3>1. B = A \cup {n + 1}
        <4>1. n + 1 \in 1 .. Len(st) /\ Begins(st, tasks, n + 1)
          BY <1>1, <1>6, <2>1
        <4>2. ASSUME NEW k \in 1 .. Len(st) PROVE k \in 1 .. n \/ k = n + 1 \/ k > n + 1
          BY <1>1
        <4>3. 1 .. n \subseteq 1 .. Len(st)
          BY <1>1
        <4>4. QED
          BY <1>3, <1>5, <4>1, <4>2, <4>3
      <3> HIDE DEF A, B
      <3>2. QED
        BY <1>2, <2>1, <3>1
    <2>2. CASE ~(Len(t) > 0 /\ m = "p300" /\ EndMode(s, tasks) = "vs1")
      <3>1. B = A
        BY <1>1, <1>3, <1>5, <1>6, <2>2
      <3> HIDE DEF A, B
      <3>2. QED
        BY <1>2, <2>2, <3>1
    <2>3. QED
      BY <2>1, <2>2
  <1>8. EndMode(st, tasks) = IF Len(t) > 0 THEN m ELSE EndMode(s, tasks)
    <2>1. CASE Len(t) > 0
      <3>1. Len(st) # 0 /\ ModeOf(tasks[st[Len(st)]]) = m
        BY <1>1, <1>4, <2>1
      <3>2. QED
        BY <2>1, <3>1 DEF EndMode
    <2>2. CASE ~(Len(t) > 0)
      <3>1. Len(st) = n /\ (n # 0 => st[n] = s[n])
        BY <1>1, <2>2
      <3>2. QED
        BY <2>2, <3>1 DEF EndMode
    <2>3. QED
      BY <2>1, <2>2
  <1>9. QED
    BY <1>2, <1>7, <1>8 DEF Entries, st

\* One more job as given.
LEMMA GivenNext ==
    ASSUME NEW tasks, NEW n \in Nat \ {0}
    PROVE  /\ Given(tasks, n - 1) \in Nat
           /\ Given(tasks, n) = Given(tasks, n - 1)
                + IF ModeOf(tasks[n]) = "p300" /\ (n = 1 \/ ModeOf(tasks[n - 1]) = "vs1") THEN 1 ELSE 0
  <1> DEFINE begins == ModeOf(tasks[n]) = "p300" /\ (n = 1 \/ ModeOf(tasks[n - 1]) = "vs1")
             A      == Needed(tasks, n - 1)
  <1>1. IsFiniteSet(A) /\ n \notin A
    <2>1. IsFiniteSet(1 .. n - 1)
      BY FS_Interval
    <2>2. A \subseteq 1 .. n - 1 /\ n \notin A
      BY DEF Needed
    <2>3. QED
      BY <2>1, <2>2, FS_Subset
  <1>2. Needed(tasks, n) = IF begins THEN A \cup {n} ELSE A
    BY DEF Needed
  <1> HIDE DEF A, begins
  <1>3. Cardinality(A) \in Nat /\ Cardinality(A \cup {n}) = Cardinality(A) + 1
    BY <1>1, FS_AddElement, FS_CardinalityType
  <1>4. QED
    BY <1>2, <1>3 DEF Given, A, begins

\* What the two lists add to what is done: a window when the second is of P300.
LEMMA EntriesOfRegion ==
    ASSUME NEW tasks \in Seq(ReadJobs), NEW n \in 0 .. Len(tasks), NEW b, NEW acc, Split(acc, n, b, tasks),
           EndMode(acc.done, tasks) = acc.mode
    PROVE  /\ Entries(acc.done, tasks) \in Nat
           /\ Entries(Ordered(acc), tasks) = Entries(acc.done, tasks)
                + IF Len(acc.other) > 0 /\ acc.mode = "vs1" THEN 1 ELSE 0
           /\ EndMode(Ordered(acc), tasks) = IF Len(acc.other) = 0 THEN acc.mode
                                             ELSE IF acc.mode = "vs1" THEN "p300" ELSE "vs1"
  <1> DEFINE ds == acc.done \o acc.same
             second == IF acc.mode = "vs1" THEN "p300" ELSE "vs1"
  <1>1. /\ acc.done \in Seq(Nat) /\ acc.same \in Seq(Nat) /\ acc.other \in Seq(Nat) /\ acc.mode \in {"vs1", "p300"}
        /\ Len(acc.other) \in Nat
    BY DEF Split, Placed
  <1>2. \A k \in 1 .. Len(acc.same) : ModeOf(tasks[acc.same[k]]) = acc.mode
    BY DEF Split
  <1>3. \A k \in 1 .. Len(acc.other) : ModeOf(tasks[acc.other[k]]) = second
    BY <1>1 DEF Split, ModeOf
  <1>4. ds \in Seq(Nat) /\ second \in {"vs1", "p300"}
    BY <1>1
  <1>5. /\ Entries(acc.done, tasks) \in Nat /\ Entries(ds, tasks) = Entries(acc.done, tasks)
        /\ EndMode(ds, tasks) = acc.mode
    <2>1. /\ Entries(acc.done, tasks) \in Nat
          /\ Entries(ds, tasks) = Entries(acc.done, tasks)
               + IF Len(acc.same) > 0 /\ acc.mode = "p300" /\ EndMode(acc.done, tasks) = "vs1" THEN 1 ELSE 0
          /\ EndMode(ds, tasks) = IF Len(acc.same) > 0 THEN acc.mode ELSE EndMode(acc.done, tasks)
      BY <1>1, <1>2, EntriesOfRun
    <2> HIDE DEF ds
    <2>2. QED
      BY <2>1
  <1> HIDE DEF ds, second
  <1>6. /\ Entries(ds \o acc.other, tasks) = Entries(ds, tasks)
             + IF Len(acc.other) > 0 /\ second = "p300" /\ EndMode(ds, tasks) = "vs1" THEN 1 ELSE 0
        /\ EndMode(ds \o acc.other, tasks) = IF Len(acc.other) > 0 THEN second ELSE EndMode(ds, tasks)
    BY <1>1, <1>3, <1>4, EntriesOfRun
  <1>7. QED
    BY <1>1, <1>5, <1>6 DEF Ordered, ds, second

\* What is done has begun no more windows than were needed, and one less where the lists
\* are going to begin one.
Economical(acc, n, tasks) ==
    LET saved == Entries(acc.done, tasks) + 1 <= Given(tasks, n)
        now   == IF n = 0 THEN "vs1" ELSE ModeOf(tasks[n])
    IN  /\ EndMode(acc.done, tasks) = acc.mode
        /\ Entries(acc.done, tasks) <= Given(tasks, n)
        /\ acc.mode = "vs1" /\ Len(acc.other) > 0 => saved
        /\ acc.mode = "vs1" /\ Len(acc.other) = 0 => now = "vs1"
        /\ acc.mode = "p300" /\ Len(acc.other) > 0 /\ now = "p300" => saved

\* One more job keeps it so: only a barrier begins what the lists have saved.
LEMMA EconomicalNext ==
    ASSUME NEW tasks \in Seq(ReadJobs), NEW n \in 1 .. Len(tasks), NEW b, NEW acc,
           Split(acc, n - 1, b, tasks), Economical(acc, n - 1, tasks)
    PROVE  Economical(Place(acc, n, tasks[n]), n, tasks)
  <1> DEFINE q    == Place(acc, n, tasks[n])
             d    == Entries(acc.done, tasks)
             g    == Given(tasks, n - 1)
             more == Len(acc.other) > 0
             was  == IF n - 1 = 0 THEN "vs1" ELSE ModeOf(tasks[n - 1])
             kind == ModeOf(tasks[n])
             order == Ordered(acc)
  <1>1. /\ n \in Nat \ {0} /\ n - 1 \in 0 .. Len(tasks) /\ kind \in {"vs1", "p300"} /\ acc.mode \in {"vs1", "p300"}
        /\ acc.same \in Seq(1 .. Len(tasks)) /\ acc.other \in Seq(1 .. Len(tasks)) /\ acc.done \in Seq(1 .. Len(tasks))
    BY DEF Split, Placed, ModeOf
  <1>2. /\ EndMode(acc.done, tasks) = acc.mode /\ d <= g
        /\ acc.mode = "vs1" /\ more => d + 1 <= g
        /\ acc.mode = "vs1" /\ ~more => was = "vs1"
        /\ acc.mode = "p300" /\ more /\ was = "p300" => d + 1 <= g
    BY <1>1 DEF Economical
  <1>3. g \in Nat /\ Given(tasks, n) = g + IF kind = "p300" /\ was = "vs1" THEN 1 ELSE 0
    BY <1>1, GivenNext
  <1>4. /\ d \in Nat /\ Entries(order, tasks) = d + IF more /\ acc.mode = "vs1" THEN 1 ELSE 0
        /\ EndMode(order, tasks) = IF ~more THEN acc.mode ELSE IF acc.mode = "vs1" THEN "p300" ELSE "vs1"
    <2>1. EndMode(acc.done, tasks) = acc.mode /\ n - 1 \in 0 .. Len(tasks)
      BY <1>1, <1>2
    <2>2. /\ Entries(acc.done, tasks) \in Nat
          /\ Entries(Ordered(acc), tasks) = Entries(acc.done, tasks)
               + IF Len(acc.other) > 0 /\ acc.mode = "vs1" THEN 1 ELSE 0
          /\ EndMode(Ordered(acc), tasks) = IF Len(acc.other) = 0 THEN acc.mode
                                            ELSE IF acc.mode = "vs1" THEN "p300" ELSE "vs1"
      BY <2>1, EntriesOfRegion
    <2>3. Len(acc.other) = 0 <=> ~more
      BY <1>1
    <2>4. QED
      BY <2>2, <2>3
  <1>5. was \in {"vs1", "p300"}
    BY DEF ModeOf
  <1>6. CASE ~tasks[n].independent
    <2>1. q.done = order \o <<n>> /\ q.other = <<>> /\ q.mode = kind
      BY <1>6 DEF Place, Ordered
    <2>2. order \in Seq(Nat) /\ <<n>> \in Seq(Nat) /\ Len(<<n>>) = 1 /\ <<n>>[1] = n
      BY <1>1 DEF Ordered
    <2>3. \A k \in 1 .. Len(<<n>>) : ModeOf(tasks[<<n>>[k]]) = kind
      BY <2>2
    <2> HIDE DEF order, d, g, more, was, kind, q
    <2>4. /\ Entries(order \o <<n>>, tasks) = Entries(order, tasks)
               + IF kind = "p300" /\ EndMode(order, tasks) = "vs1" THEN 1 ELSE 0
          /\ EndMode(order \o <<n>>, tasks) = kind
      <3> DEFINE t == <<n>>
      <3>1. t \in Seq(Nat) /\ Len(t) > 0 /\ \A k \in 1 .. Len(t) : ModeOf(tasks[t[k]]) = kind
        BY <2>2, <2>3
      <3> HIDE DEF t
      <3>2. /\ Entries(order \o t, tasks) = Entries(order, tasks)
                 + IF Len(t) > 0 /\ kind = "p300" /\ EndMode(order, tasks) = "vs1" THEN 1 ELSE 0
            /\ EndMode(order \o t, tasks) = IF Len(t) > 0 THEN kind ELSE EndMode(order, tasks)
        BY <1>1, <2>2, <3>1, EntriesOfRun
      <3>3. QED
        BY <3>1, <3>2 DEF t
    <2>5. Entries(order \o <<n>>, tasks) <= Given(tasks, n)
      BY <1>1, <1>2, <1>3, <1>4, <1>5, <2>4
    <2>6. Len(q.other) = 0
      BY <2>1
    <2>7. QED
      BY <1>1, <2>1, <2>4, <2>5, <2>6 DEF Economical, q, kind
  <1>7. CASE tasks[n].independent
    <2>1. /\ q.done = acc.done /\ q.mode = acc.mode
          /\ Len(q.other) > 0 <=> more \/ kind # acc.mode
          /\ Len(q.other) = 0 <=> ~(Len(q.other) > 0)
      <3>1. CASE kind = acc.mode
        <4>1. q = [acc EXCEPT !.same = Append(@, n)]
          BY <1>7, <3>1 DEF Place
        <4>2. q.done = acc.done /\ q.mode = acc.mode /\ q.other = acc.other
          BY <4>1 DEF Split, Placed
        <4>3. QED
          BY <1>1, <3>1, <4>2
      <3>2. CASE kind # acc.mode
        <4>1. q = [acc EXCEPT !.other = Append(@, n)]
          BY <1>7, <3>2 DEF Place
        <4>2. q.done = acc.done /\ q.mode = acc.mode /\ q.other = Append(acc.other, n)
          BY <4>1 DEF Split, Placed
        <4>3. QED
          BY <1>1, <3>2, <4>2
      <3>3. QED
        BY <3>1, <3>2
    <2>2. Entries(q.done, tasks) = d /\ EndMode(q.done, tasks) = q.mode
      BY <1>2, <2>1
    <2> HIDE DEF d, g, more, was, kind, q
    <2>3. /\ d <= Given(tasks, n)
          /\ q.mode = "vs1" /\ Len(q.other) > 0 => d + 1 <= Given(tasks, n)
          /\ q.mode = "vs1" /\ Len(q.other) = 0 => kind = "vs1"
          /\ q.mode = "p300" /\ Len(q.other) > 0 /\ kind = "p300" => d + 1 <= Given(tasks, n)
      BY <1>1, <1>2, <1>3, <1>4, <1>5, <2>1
    <2>4. QED
      BY <1>1, <2>2, <2>3 DEF Economical, q, kind
  <1>8. QED
    BY <1>6, <1>7

\* The order of a list: every job once, none too early, and in no more windows than needed.
LEMMA OrderSound ==
    ASSUME NEW tasks \in Seq(ReadJobs)
    PROVE  LET order == SafeOrder(tasks)
           IN  /\ order \in Seq(1 .. Len(tasks)) /\ Kept(order, tasks)
               /\ \A i \in 1 .. Len(tasks) : Has(order, i)
               /\ Entries(order, tasks) <= Given(tasks, Len(tasks))
  <1> DEFINE N == Len(tasks)
  <1>1. PICK f : Placings(f, tasks, N) /\ SafeOrder(tasks) = Ordered(f[N])
    BY OrderUnfolds
  <1>2. N \in Nat
    OBVIOUS
  <1> DEFINE G == {n \in 0 .. N : (\E b : Split(f[n], n, b, tasks)) /\ Economical(f[n], n, tasks)}
  <1>3. 0 \in G
    <2>1. f[0] = Empty
      BY <1>1, <1>2 DEF Placings, Placing
    <2>2. Split(Empty, 0, 0, tasks)
      BY DEF Empty, Split, Placed, Kept, Rising
    <2>3. Given(tasks, 0) = 0 /\ Entries(<<>>, tasks) = 0
      <3>1. Needed(tasks, 0) = {} /\ {k \in 1 .. Len(<<>>) : Begins(<<>>, tasks, k)} = {}
        BY DEF Needed
      <3>2. QED
        BY <3>1, FS_EmptySet DEF Given, Entries
    <2>4. Economical(Empty, 0, tasks)
      BY <2>3 DEF Economical, Empty, EndMode
    <2>5. QED
      BY <1>2, <2>1, <2>2, <2>4
  <1>4. ASSUME NEW n \in 1 .. N, n - 1 \in G PROVE n \in G
    <2>1. PICK b : Split(f[n - 1], n - 1, b, tasks)
      BY <1>4
    <2>2. Economical(f[n - 1], n - 1, tasks)
      BY <1>4
    <2>3. n \in 0 .. N /\ n # 0
      BY <1>2
    <2>4. f[n] = Place(f[n - 1], n, tasks[n])
      BY <1>1, <2>3 DEF Placings, Placing
    <2>5. (\E c : Split(f[n], n, c, tasks)) /\ Economical(f[n], n, tasks)
      BY <2>1, <2>2, <2>4, SplitNext, EconomicalNext
    <2>6. QED
      BY <2>3, <2>5
  <1>5. N \in G
    <2>1. \A n \in 1 .. N : n - 1 \in G => n \in G
      BY <1>4
    <2> HIDE DEF G, N
    <2>2. \A n \in 0 .. N : n \in G
      BY <1>2, <1>3, <2>1, UpTo
    <2>3. QED
      BY <1>2, <2>2
  <1> DEFINE acc == f[N]
  <1>6. PICK b : Split(acc, N, b, tasks)
    BY <1>5
  <1>7. Economical(acc, N, tasks) /\ N \in 0 .. Len(tasks)
    BY <1>2, <1>5
  <1> HIDE DEF acc
  <1>8. /\ Ordered(acc) \in Seq(1 .. Len(tasks)) /\ Kept(Ordered(acc), tasks)
        /\ \A i \in 1 .. N : Has(Ordered(acc), i)
    BY <1>6, <1>7, SplitInOrder
  <1>9. Entries(Ordered(acc), tasks) <= Given(tasks, N)
    <2>1. EndMode(acc.done, tasks) = acc.mode
      BY <1>7 DEF Economical
    <2>2. /\ Entries(acc.done, tasks) \in Nat
          /\ Entries(Ordered(acc), tasks) = Entries(acc.done, tasks)
               + IF Len(acc.other) > 0 /\ acc.mode = "vs1" THEN 1 ELSE 0
      BY <1>6, <1>7, <2>1, EntriesOfRegion
    <2>3. /\ Entries(acc.done, tasks) <= Given(tasks, N)
          /\ acc.mode = "vs1" /\ Len(acc.other) > 0 => Entries(acc.done, tasks) + 1 <= Given(tasks, N)
      BY <1>7 DEF Economical
    <2>4. QED
      BY <2>2, <2>3
  <1>10. QED
    BY <1>1, <1>8, <1>9 DEF acc

-----------------------------------------------------------------------------
\* A plan is sound when there are moments, from its begin to its end, at which each step
\* finds what it needs.
Steps(tasks) == [kind : {"entry", "return", "read"}, job : 0 .. Len(tasks)]
Moments     == [clock : Nat, left : Nat, p06 : Int, mode : {"vs1", "p300"}]
Outset(since)  == [clock |-> 0, left |-> 0, p06 |-> -since, mode |-> "vs1"]

After(m, st, tasks) ==
    CASE st.kind = "entry"  -> [clock |-> m.clock + EnterTime, left |-> m.clock, p06 |-> m.p06, mode |-> "p300"]
      [] st.kind = "return" -> [clock |-> m.clock + ReturnTime, left |-> m.left,
                                p06 |-> m.clock + ReturnTime, mode |-> "vs1"]
      [] st.kind = "read"   -> [clock |-> m.clock + tasks[st.job].duration, left |-> m.left,
                                p06 |-> IF tasks[st.job].kind = "P06" THEN m.clock + tasks[st.job].duration ELSE m.p06,
                                mode |-> m.mode]

MayRead(m, job) ==
    /\ m.mode = ModeOf(job)
    /\ m.clock - job.queued <= MaxWait /\ m.clock + job.duration <= job.deadline
    /\ ModeOf(job) = "vs1" => (job.kind = "P06" \/ m.clock + job.duration - m.p06 <= MaxAge)
MayReturn(m) ==
    /\ m.mode = "p300"
    /\ m.clock + ReturnTime - m.left <= MaxAbsence /\ m.clock + ReturnTime - m.p06 <= MaxAge
Allows(m, st, tasks) ==
    CASE st.kind = "entry"  -> m.mode = "vs1"
      [] st.kind = "return" -> MayReturn(m)
      [] st.kind = "read"   -> st.job \in 1 .. Len(tasks) /\ MayRead(m, tasks[st.job])

Timeline(tr, tasks, steps, since) ==
    /\ tr \in [0 .. Len(steps) -> Moments] /\ tr[0] = Outset(since)
    /\ \A k \in 1 .. Len(steps) : Allows(tr[k - 1], steps[k], tasks) /\ tr[k] = After(tr[k - 1], steps[k], tasks)

Planned(tasks) == [t : Nat, p06 : Int, left : Nat, mode : {"vs1", "p300"}, steps : Seq(Steps(tasks)), ok : BOOLEAN]
MomentOf(p)   == [clock |-> p.t, left |-> p.left, p06 |-> p.p06, mode |-> p.mode]
Sound(p, tasks, since) ==
    /\ p \in Planned(tasks)
    /\ p.ok => since <= MaxAge /\ \E tr : Timeline(tr, tasks, p.steps, since) /\ tr[Len(p.steps)] = MomentOf(p)

\* A step leads from moment to moment.
LEMMA AfterType ==
    ASSUME NEW tasks \in Seq(ReadJobs), NEW m \in Moments, NEW st \in Steps(tasks), Allows(m, st, tasks)
    PROVE  After(m, st, tasks) \in Moments
  <1>1. m.clock \in Nat /\ m.left \in Nat /\ m.p06 \in Int /\ m.mode \in {"vs1", "p300"}
    BY DEF Moments
  <1>2. CASE st.kind = "entry"
    BY <1>1, <1>2, PhaseNumbers DEF After, Moments
  <1>3. CASE st.kind = "return"
    BY <1>1, <1>3, PhaseNumbers DEF After, Moments
  <1>4. CASE st.kind = "read"
    <2>1. st.job \in 1 .. Len(tasks)
      BY <1>4 DEF Allows
    <2>2. tasks[st.job] \in ReadJobs
      BY <2>1
    <2>3. tasks[st.job].duration \in Nat
      BY <2>2 DEF ReadJobs
    <2>4. QED
      BY <1>1, <1>4, <2>3 DEF After, Moments
  <1>5. QED
    BY <1>2, <1>3, <1>4 DEF Steps

\* What was gone through can be gone on with.
LEMMA Longer ==
    ASSUME NEW tasks \in Seq(ReadJobs), NEW since, NEW steps \in Seq(Steps(tasks)), NEW tr,
           Timeline(tr, tasks, steps, since),
           NEW st \in Steps(tasks), Allows(tr[Len(steps)], st, tasks)
    PROVE  \E next : /\ Timeline(next, tasks, Append(steps, st), since)
                    /\ next[Len(Append(steps, st))] = After(tr[Len(steps)], st, tasks)
  <1> DEFINE n      == Len(steps)
             longer == Append(steps, st)
             next   == [k \in 0 .. n + 1 |-> IF k = n + 1 THEN After(tr[n], st, tasks) ELSE tr[k]]
  <1>1. /\ n \in Nat /\ Len(longer) = n + 1 /\ longer[n + 1] = st
        /\ \A k \in 1 .. n : longer[k] = steps[k]
    OBVIOUS
  <1>2. tr[n] \in Moments
    BY <1>1 DEF Timeline
  <1>3. After(tr[n], st, tasks) \in Moments
    BY <1>2, AfterType
  <1>4. next \in [0 .. n + 1 -> Moments]
    <2>1. ASSUME NEW k \in 0 .. n + 1 PROVE next[k] \in Moments
      <3>1. k # n + 1 => k \in 0 .. n
        BY <1>1
      <3>2. QED
        BY <1>3, <3>1 DEF Timeline
    <2>2. QED
      BY <2>1
  <1>5. next[0] = Outset(since)
    BY <1>1 DEF Timeline
  <1>6. ASSUME NEW k \in 1 .. n + 1
        PROVE  Allows(next[k - 1], longer[k], tasks) /\ next[k] = After(next[k - 1], longer[k], tasks)
    <2>1. CASE k = n + 1
      <3>1. next[k - 1] = tr[n] /\ next[k] = After(tr[n], st, tasks) /\ longer[k] = st
        BY <1>1, <2>1
      <3> HIDE DEF next, longer
      <3>2. QED
        BY <3>1
    <2>2. CASE k # n + 1
      <3>1. k \in 1 .. n /\ k - 1 \in 0 .. n /\ k - 1 # n + 1
        BY <1>1, <2>2
      <3>2. next[k - 1] = tr[k - 1] /\ next[k] = tr[k] /\ longer[k] = steps[k]
        BY <1>1, <3>1
      <3> HIDE DEF next, longer
      <3>3. QED
        BY <3>1, <3>2 DEF Timeline
    <2>3. QED
      BY <2>1, <2>2
  <1>7. next[n + 1] = After(tr[n], st, tasks)
    BY <1>1
  <1> HIDE DEF next, longer
  <1>8. Timeline(next, tasks, longer, since) /\ next[Len(longer)] = After(tr[n], st, tasks)
    BY <1>1, <1>4, <1>5, <1>6, <1>7 DEF Timeline
  <1>9. QED
    BY <1>8 DEF longer

\* A planned step: what it allows has to be in what is checked.
LEMMA StageSound ==
    ASSUME NEW tasks \in Seq(ReadJobs), NEW since, NEW p, Sound(p, tasks, since),
           NEW st \in Steps(tasks), NEW q \in Planned(tasks),
           q.steps = Append(p.steps, st),
           q.ok => p.ok /\ Allows(MomentOf(p), st, tasks) /\ MomentOf(q) = After(MomentOf(p), st, tasks)
    PROVE  Sound(q, tasks, since)
  <1> SUFFICES ASSUME q.ok
               PROVE  since <= MaxAge /\ \E tr : Timeline(tr, tasks, q.steps, since) /\ tr[Len(q.steps)] = MomentOf(q)
    BY DEF Sound
  <1>1. PICK tr : Timeline(tr, tasks, p.steps, since) /\ tr[Len(p.steps)] = MomentOf(p)
    BY DEF Sound
  <1>2. p.steps \in Seq(Steps(tasks))
    BY DEF Sound, Planned
  <1>3. Allows(tr[Len(p.steps)], st, tasks) /\ MomentOf(q) = After(tr[Len(p.steps)], st, tasks)
    BY <1>1
  <1> DEFINE steps == p.steps
  <1>4. steps \in Seq(Steps(tasks)) /\ Timeline(tr, tasks, steps, since) /\ Allows(tr[Len(steps)], st, tasks)
    BY <1>1, <1>2, <1>3
  <1> HIDE DEF steps
  <1>5. \E next : /\ Timeline(next, tasks, Append(steps, st), since)
                 /\ next[Len(Append(steps, st))] = After(tr[Len(steps)], st, tasks)
    BY <1>4, Longer
  <1>6. QED
    BY <1>3, <1>5 DEF Sound, steps

\* return_vs1 leads to VS1.
LEMMA ReturnSound ==
    ASSUME NEW tasks \in Seq(ReadJobs), NEW since, NEW p, Sound(p, tasks, since)
    PROVE  Sound(ReturnPlanned(p), tasks, since) /\ ReturnPlanned(p).mode = "vs1"
  <1> DEFINE q  == ReturnPlanned(p)
             st == Handover("return")
             t  == p.t + ReturnTime
  <1>1. /\ p.t \in Nat /\ p.left \in Nat /\ p.p06 \in Int /\ p.mode \in {"vs1", "p300"} /\ p.ok \in BOOLEAN
        /\ p.steps \in Seq(Steps(tasks))
    BY DEF Sound, Planned
  <1>2. CASE p.mode = "vs1"
    BY <1>2 DEF ReturnPlanned
  <1>3. CASE p.mode = "p300"
    <2>1. st \in Steps(tasks) /\ st.kind = "return"
      BY DEF Handover, Steps
    <2>2. t \in Nat
      BY <1>1, PhaseNumbers
    <2>3. Append(p.steps, st) \in Seq(Steps(tasks))
      BY <1>1, <2>1
    <2>4. /\ q.steps = Append(p.steps, st) /\ q.mode = "vs1" /\ q.t = t /\ q.left = p.left /\ q.p06 = t
          /\ (q.ok => p.ok /\ t - p.left <= MaxAbsence /\ t - p.p06 <= MaxAge)
      BY <1>3 DEF ReturnPlanned
    <2>5. q \in Planned(tasks)
      BY <1>1, <1>3, <2>2, <2>3 DEF ReturnPlanned, Planned
    <2> HIDE DEF q, st
    <2>6. MomentOf(q) = After(MomentOf(p), st, tasks)
      BY <2>1, <2>4 DEF MomentOf, After
    <2>10. q.ok => p.ok /\ MayReturn(MomentOf(p))
      <3>1. MomentOf(p).mode = "p300" /\ MomentOf(p).clock = p.t /\ MomentOf(p).left = p.left /\ MomentOf(p).p06 = p.p06
        BY <1>3 DEF MomentOf
      <3>2. ReturnTime \in Nat /\ MaxAbsence \in Nat /\ MaxAge \in Nat
        BY PhaseNumbers
      <3>3. ASSUME q.ok
            PROVE  p.ok /\ (p.t + ReturnTime) - p.left <= MaxAbsence /\ (p.t + ReturnTime) - p.p06 <= MaxAge
        BY <2>4, <3>3, Zenon
      <3>4. QED
        BY <1>1, <3>1, <3>2, <3>3 DEF MayReturn
    <2>7. q.ok => p.ok /\ Allows(MomentOf(p), st, tasks)
      BY <2>1, <2>10 DEF Allows
    <2>8. Sound(q, tasks, since)
      BY <2>1, <2>4, <2>5, <2>6, <2>7, StageSound
    <2>9. QED
      BY <2>4, <2>8 DEF q
  <1>4. QED
    BY <1>1, <1>2, <1>3

\* An entry leads to P300.
LEMMA EntrySound ==
    ASSUME NEW tasks \in Seq(ReadJobs), NEW since, NEW p, Sound(p, tasks, since)
    PROVE  Sound(EntryPlanned(p), tasks, since) /\ EntryPlanned(p).mode = "p300"
  <1> DEFINE q  == EntryPlanned(p)
             st == Handover("entry")
  <1>1. /\ p.t \in Nat /\ p.left \in Nat /\ p.p06 \in Int /\ p.mode \in {"vs1", "p300"} /\ p.ok \in BOOLEAN
        /\ p.steps \in Seq(Steps(tasks))
    BY DEF Sound, Planned
  <1>2. CASE p.mode = "p300"
    BY <1>2 DEF EntryPlanned
  <1>3. CASE p.mode = "vs1"
    <2>1. st \in Steps(tasks) /\ st.kind = "entry"
      BY DEF Handover, Steps
    <2>2. p.t + EnterTime \in Nat
      BY <1>1, PhaseNumbers
    <2>3. Append(p.steps, st) \in Seq(Steps(tasks))
      BY <1>1, <2>1
    <2>4. /\ q.steps = Append(p.steps, st) /\ q.mode = "p300" /\ q.t = p.t + EnterTime /\ q.left = p.t
          /\ q.p06 = p.p06 /\ q.ok = p.ok
      BY <1>3 DEF EntryPlanned
    <2>5. q \in Planned(tasks)
      BY <1>1, <1>3, <2>2, <2>3 DEF EntryPlanned, Planned
    <2> HIDE DEF q, st
    <2>6. MomentOf(q) = After(MomentOf(p), st, tasks)
      BY <2>1, <2>4 DEF MomentOf, After
    <2>7. q.ok => p.ok /\ Allows(MomentOf(p), st, tasks)
      BY <1>3, <2>1, <2>4 DEF MomentOf, Allows
    <2>8. Sound(q, tasks, since)
      BY <2>1, <2>4, <2>5, <2>6, <2>7, StageSound
    <2>9. QED
      BY <2>4, <2>8 DEF q
  <1>4. QED
    BY <1>1, <1>2, <1>3

\* A read is planned when its limits allow it.
LEMMA ReadSound ==
    ASSUME NEW tasks \in Seq(ReadJobs), NEW since, NEW p, Sound(p, tasks, since),
           NEW i \in 1 .. Len(tasks), p.mode = ModeOf(tasks[i])
    PROVE  Sound(ReadPlanned(p, i, tasks[i]), tasks, since)
  <1> DEFINE job == tasks[i]
             q   == ReadPlanned(p, i, job)
             st  == ReadOf(i)
             t   == p.t + job.duration
  <1>1. /\ p.t \in Nat /\ p.left \in Nat /\ p.p06 \in Int /\ p.mode \in {"vs1", "p300"} /\ p.ok \in BOOLEAN
        /\ p.steps \in Seq(Steps(tasks))
    BY DEF Sound, Planned
  <1>2. job \in ReadJobs
    OBVIOUS
  <1>3. job.duration \in Nat /\ job.queued \in Int /\ job.deadline \in Int
    BY <1>2 DEF ReadJobs
  <1>4. st \in Steps(tasks) /\ st.kind = "read" /\ st.job = i
    BY DEF ReadOf, Steps
  <1>5. Append(p.steps, st) \in Seq(Steps(tasks)) /\ t \in Nat
    BY <1>1, <1>3, <1>4
  <1> HIDE DEF job
  <1>6. /\ q.steps = Append(p.steps, st) /\ q.mode = p.mode /\ q.t = t /\ q.left = p.left
        /\ q.p06 = (IF job.kind = "P06" THEN t ELSE p.p06)
        /\ q.ok => (/\ p.ok /\ p.t - job.queued <= MaxWait /\ t <= job.deadline
                   /\ (ModeOf(job) = "vs1" => (job.kind = "P06" \/ t - p.p06 <= MaxAge)))
    BY DEF ReadPlanned
  <1>7. q \in Planned(tasks)
    BY <1>1, <1>5 DEF ReadPlanned, Planned
  <1> HIDE DEF q, st
  <1>8. MomentOf(q) = After(MomentOf(p), st, tasks)
    BY <1>4, <1>6 DEF MomentOf, After, job
  <1>9. p.mode = ModeOf(job)
    BY DEF job
  <1>10. q.ok => p.ok /\ MayRead(MomentOf(p), job)
    <2>1. MomentOf(p).mode = p.mode /\ MomentOf(p).clock = p.t /\ MomentOf(p).p06 = p.p06
      BY DEF MomentOf
    <2>2. ASSUME q.ok
          PROVE  /\ p.ok /\ p.t - job.queued <= MaxWait /\ p.t + job.duration <= job.deadline
                 /\ (ModeOf(job) = "vs1" => (job.kind = "P06" \/ (p.t + job.duration) - p.p06 <= MaxAge))
      BY <1>6, <2>2, Zenon
    <2>3. QED
      BY <1>1, <1>3, <1>9, <2>1, <2>2 DEF MayRead
  <1>11. q.ok => p.ok /\ Allows(MomentOf(p), st, tasks)
    BY <1>4, <1>10 DEF Allows, job
  <1>12. Sound(q, tasks, since)
    BY <1>4, <1>6, <1>7, <1>8, <1>11, StageSound
  <1>13. QED
    BY <1>12 DEF q, job

\* The recursion of Plan.
Fresh(since) == [t |-> 0, p06 |-> -since, left |-> 0, mode |-> "vs1", steps |-> <<>>, ok |-> since <= MaxAge]
Planning(f, tasks, since, n) ==
    IF n = 0 THEN Fresh(since) ELSE JobPlanned(f[n - 1], SafeOrder(tasks)[n], tasks[SafeOrder(tasks)[n]])
Plans(f, tasks, since, m) == f = [n \in 0 .. m |-> Planning(f, tasks, since, n)]

\* It has a solution.
LEMMA PlansExist ==
    ASSUME NEW tasks \in Seq(ReadJobs), NEW since
    PROVE  \E f : Plans(f, tasks, since, Len(SafeOrder(tasks)))
  <1> DEFINE N == Len(SafeOrder(tasks))
             T == {m \in 0 .. N : ~ \E f : Plans(f, tasks, since, m)}
  <1>1. N \in Nat
    BY OrderSound
  <1> HIDE DEF N
  <1>2. SUFFICES ASSUME T # {} PROVE FALSE
    BY <1>1 DEF N
  <1>3. PICK m \in T : \A n \in T : m <= n
    <2>1. T \in SUBSET Nat
      BY <1>1
    <2> HIDE DEF T
    <2>2. QED
      BY <1>2, <2>1, LeastNumber
  <1>4. m # 0
    <2>1. Plans([n \in 0 .. 0 |-> Fresh(since)], tasks, since, 0)
      BY DEF Plans, Planning
    <2>2. QED
      BY <2>1
  <1>5. m - 1 \in 0 .. N /\ m - 1 \notin T /\ m \in Nat
    <2>1. m \in 0 .. N
      BY <1>3
    <2>2. m \in Nat /\ m - 1 \in 0 .. N /\ ~(m <= m - 1)
      BY <1>1, <1>4, <2>1
    <2> HIDE DEF T
    <2>3. QED
      BY <1>3, <2>2
  <1>6. PICK f : Plans(f, tasks, since, m - 1)
    BY <1>5
  <1> DEFINE g == [n \in 0 .. m |-> IF n = m THEN Planning(f, tasks, since, m) ELSE f[n]]
  <1>7. ASSUME NEW n \in 0 .. m PROVE g[n] = Planning(g, tasks, since, n)
    <2>1. n # 0 => n - 1 \in 0 .. m /\ n - 1 # m
      BY <1>5
    <2>2. n # 0 => g[n - 1] = f[n - 1]
      BY <2>1
    <2>3. Planning(g, tasks, since, n) = Planning(f, tasks, since, n)
      BY <2>2 DEF Planning
    <2>4. n # m => n \in 0 .. m - 1
      BY <1>5
    <2>5. n # m => f[n] = Planning(f, tasks, since, n)
      BY <1>6, <2>4 DEF Plans
    <2>6. QED
      BY <2>3, <2>5
  <1>8. Plans(g, tasks, since, m)
    BY <1>7 DEF Plans
  <1>9. QED
    BY <1>3, <1>8

\* What Plan unfolds to.
LEMMA PlanUnfolds ==
    ASSUME NEW tasks \in Seq(ReadJobs), NEW since
    PROVE  \E f : /\ Plans(f, tasks, since, Len(SafeOrder(tasks)))
                 /\ Plan(tasks, since) = ReturnPlanned(f[Len(SafeOrder(tasks))])
  <1> DEFINE order == SafeOrder(tasks)
             planned[n \in 0 .. Len(order)] ==
                IF n = 0 THEN [t |-> 0, p06 |-> -since, left |-> 0, mode |-> "vs1", steps |-> <<>>, ok |-> since <= MaxAge]
                ELSE JobPlanned(planned[n - 1], order[n], tasks[order[n]])
  <1>1. planned = CHOOSE f : Plans(f, tasks, since, Len(SafeOrder(tasks)))
    BY DEF Plans, Planning, Fresh
  <1>2. Plan(tasks, since) = ReturnPlanned(planned[Len(order)])
    BY DEF Plan
  <1> HIDE DEF planned
  <1>3. QED
    BY <1>1, <1>2, PlansExist

\* The next job of a sound plan.
LEMMA JobSound ==
    ASSUME NEW tasks \in Seq(ReadJobs), NEW since, NEW p, Sound(p, tasks, since), NEW i \in 1 .. Len(tasks)
    PROVE  Sound(JobPlanned(p, i, tasks[i]), tasks, since)
  <1> DEFINE q == IF ModeOf(tasks[i]) = "vs1" THEN ReturnPlanned(p) ELSE EntryPlanned(p)
  <1>1. Sound(q, tasks, since) /\ q.mode = ModeOf(tasks[i])
    BY ReturnSound, EntrySound DEF ModeOf
  <1>2. JobPlanned(p, i, tasks[i]) = ReadPlanned(q, i, tasks[i])
    BY DEF JobPlanned
  <1> HIDE DEF q
  <1>3. QED
    BY <1>1, <1>2, ReadSound

\* Every plan is sound, and ends in VS1.
LEMMA PlanSound ==
    ASSUME NEW tasks \in Seq(ReadJobs), NEW since \in Nat
    PROVE  Sound(Plan(tasks, since), tasks, since) /\ Plan(tasks, since).mode = "vs1"
  <1> DEFINE order == SafeOrder(tasks)
             N     == Len(order)
  <1>1. order \in Seq(1 .. Len(tasks)) /\ N \in Nat
    BY OrderSound
  <1>2. PICK f : Plans(f, tasks, since, N) /\ Plan(tasks, since) = ReturnPlanned(f[N])
    BY PlanUnfolds
  <1>3. \A n \in 0 .. N : f[n] = Planning(f, tasks, since, n)
    BY <1>2 DEF Plans
  <1> DEFINE G == {n \in 0 .. N : Sound(f[n], tasks, since)}
  <1>4. 0 \in G
    <2>1. f[0] = Fresh(since)
      BY <1>1, <1>3 DEF Planning
    <2>2. Fresh(since) \in Planned(tasks)
      BY DEF Fresh, Planned
    <2> DEFINE tr == [k \in 0 .. 0 |-> Outset(since)]
    <2>3. Len(Fresh(since).steps) = 0 /\ (Fresh(since).ok <=> since <= MaxAge) /\ MomentOf(Fresh(since)) = Outset(since)
      BY DEF Fresh, MomentOf, Outset
    <2>4. Outset(since) \in Moments
      BY DEF Outset, Moments
    <2>5. Timeline(tr, tasks, Fresh(since).steps, since) /\ tr[0] = Outset(since)
      BY <2>3, <2>4 DEF Timeline
    <2>6. Sound(Fresh(since), tasks, since)
      BY <2>2, <2>3, <2>5 DEF Sound
    <2>7. QED
      BY <1>1, <2>1, <2>6
  <1>5. ASSUME NEW n \in 1 .. N, n - 1 \in G PROVE n \in G
    <2>1. n \in 0 .. N /\ n # 0 /\ order[n] \in 1 .. Len(tasks)
      BY <1>1
    <2>2. f[n] = JobPlanned(f[n - 1], order[n], tasks[order[n]])
      BY <1>3, <2>1 DEF Planning
    <2>3. Sound(f[n - 1], tasks, since)
      BY <1>5
    <2> HIDE DEF order
    <2>4. Sound(f[n], tasks, since)
      BY <2>1, <2>2, <2>3, JobSound
    <2>5. QED
      BY <2>1, <2>4
  <1>6. N \in G
    <2>1. \A n \in 1 .. N : n - 1 \in G => n \in G
      BY <1>5
    <2> HIDE DEF G, N
    <2>2. \A n \in 0 .. N : n \in G
      BY <1>1, <1>4, <2>1, UpTo
    <2>3. QED
      BY <1>1, <2>2
  <1>7. QED
    BY <1>2, <1>6, ReturnSound

-----------------------------------------------------------------------------
\* In P300 the way back is still ahead, and within the limit.
LEMMA AbsenceKept ==
    ASSUME NEW tasks \in Seq(ReadJobs), NEW since, NEW steps \in Seq(Steps(tasks)), NEW tr,
           Timeline(tr, tasks, steps, since), tr[Len(steps)].mode = "vs1",
           NEW k \in 0 .. Len(steps), tr[k].mode = "p300"
    PROVE  tr[k].clock - tr[k].left <= MaxAbsence
  <1> DEFINE N == Len(steps)
             Late(j) == j \in 0 .. N /\ tr[j].mode = "p300" /\ ~(tr[j].clock - tr[j].left <= MaxAbsence)
             T == {d \in 0 .. N : Late(N - d)}
  <1>1. N \in Nat
    OBVIOUS
  <1> HIDE DEF N
  <1>2. SUFFICES ASSUME Late(k) PROVE FALSE
    BY DEF N
  <1>3. N - k \in T
    <2>1. N - k \in 0 .. N /\ N - (N - k) = k
      BY <1>1, <1>2
    <2>2. QED
      BY <1>2, <2>1
  <1>4. PICK d \in T : \A e \in T : d <= e
    <2>1. T \in SUBSET Nat
      BY <1>1
    <2> HIDE DEF T
    <2>2. QED
      BY <1>3, <2>1, LeastNumber
  <1> DEFINE j == N - d
  <1>5. j \in 0 .. N /\ Late(j) /\ d \in 0 .. N
    BY <1>1, <1>4
  <1>6. j # N
    BY <1>5 DEF N
  <1>7. j + 1 \in 1 .. N /\ (j + 1) - 1 = j /\ j + 1 \in 0 .. N
    BY <1>1, <1>5, <1>6
  <1>8. Allows(tr[j], steps[j + 1], tasks) /\ tr[j + 1] = After(tr[j], steps[j + 1], tasks)
    BY <1>7 DEF Timeline, N
  <1>9. ~Late(j + 1)
    <2>1. d - 1 \in 0 .. N /\ N - (d - 1) = j + 1 /\ ~(d <= d - 1)
      BY <1>1, <1>5, <1>6
    <2>2. QED
      BY <1>4, <2>1
  <1>10. tr[j] \in Moments
    BY <1>5 DEF Timeline, N
  <1>11. tr[j].clock \in Nat /\ tr[j].left \in Nat
    BY <1>10 DEF Moments
  <1> HIDE DEF j
  <1>12. CASE steps[j + 1].kind = "entry"
    BY <1>5, <1>8, <1>12 DEF Allows
  <1>13. CASE steps[j + 1].kind = "return"
    <2>1. tr[j].clock + ReturnTime - tr[j].left <= MaxAbsence
      BY <1>8, <1>13 DEF Allows, MayReturn
    <2>2. ReturnTime \in Nat /\ MaxAbsence \in Nat
      BY PhaseNumbers
    <2> DEFINE c == tr[j].clock
               l == tr[j].left
    <2>3. c \in Nat /\ l \in Nat /\ c + ReturnTime - l <= MaxAbsence
      BY <1>11, <2>1
    <2> HIDE DEF c, l
    <2>4. c - l <= MaxAbsence
      BY <2>2, <2>3
    <2>5. tr[j].clock - tr[j].left <= MaxAbsence
      BY <2>4 DEF c, l
    <2>6. QED
      BY <1>5, <2>5
  <1>14. CASE steps[j + 1].kind = "read"
    <2>1. steps[j + 1].job \in 1 .. Len(tasks)
      BY <1>8, <1>14 DEF Allows
    <2>2. tasks[steps[j + 1].job] \in ReadJobs
      BY <2>1
    <2>3. tasks[steps[j + 1].job].duration \in Nat
      BY <2>2 DEF ReadJobs
    <2>4. /\ tr[j + 1].clock = tr[j].clock + tasks[steps[j + 1].job].duration /\ tr[j + 1].left = tr[j].left
          /\ tr[j + 1].mode = tr[j].mode
      BY <1>8, <1>14 DEF After
    <2>5. MaxAbsence \in Nat
      BY PhaseNumbers
    <2>6. tr[j + 1].clock - tr[j + 1].left <= MaxAbsence
      BY <1>5, <1>7, <1>9, <2>4
    <2>7. tr[j].clock - tr[j].left <= MaxAbsence
      <3> DEFINE c == tr[j].clock
                 l == tr[j].left
                 r == tasks[steps[j + 1].job].duration
      <3>1. c \in Nat /\ l \in Nat /\ r \in Nat /\ (c + r) - l <= MaxAbsence
        BY <1>11, <2>3, <2>4, <2>6
      <3> HIDE DEF c, l, r
      <3>2. c - l <= MaxAbsence
        BY <2>5, <3>1
      <3>3. QED
        BY <3>2 DEF c, l
    <2>8. QED
      BY <1>5, <2>7
  <1>15. steps[j + 1] \in Steps(tasks)
    BY <1>7 DEF N
  <1>16. QED
    BY <1>12, <1>13, <1>14, <1>15 DEF Steps

\* In VS1 the last P06 is young enough, and the window before it was short enough.
LEMMA AgeKept ==
    ASSUME NEW tasks \in Seq(ReadJobs), NEW since \in Nat, since <= MaxAge, NEW steps \in Seq(Steps(tasks)), NEW tr,
           Timeline(tr, tasks, steps, since),
           NEW k \in 0 .. Len(steps), tr[k].mode = "vs1"
    PROVE  /\ tr[k].clock - tr[k].p06 <= MaxAge
           /\ k > 0 /\ steps[k].kind = "return" => tr[k].clock - tr[k].left <= MaxAbsence
  <1>1. CASE k = 0
    BY <1>1 DEF Timeline, Outset
  <1>2. CASE k # 0
    <2>1. k \in 1 .. Len(steps) /\ k - 1 \in 0 .. Len(steps)
      BY <1>2
    <2>2. /\ Allows(tr[k - 1], steps[k], tasks) /\ tr[k] = After(tr[k - 1], steps[k], tasks)
          /\ tr[k - 1] \in Moments /\ steps[k] \in Steps(tasks)
      <3>1. tr \in [0 .. Len(steps) -> Moments]
        BY DEF Timeline
      <3>2. tr[k - 1] \in Moments
        BY <2>1, <3>1
      <3>3. steps[k] \in Steps(tasks)
        BY <2>1
      <3>4. Allows(tr[k - 1], steps[k], tasks) /\ tr[k] = After(tr[k - 1], steps[k], tasks)
        BY <2>1 DEF Timeline
      <3>5. QED
        BY <3>2, <3>3, <3>4
    <2>3. tr[k - 1].clock \in Nat /\ tr[k - 1].left \in Nat /\ tr[k - 1].p06 \in Int
      BY <2>2 DEF Moments
    <2>4. CASE steps[k].kind = "entry"
      BY <2>2, <2>4 DEF After
    <2>5. CASE steps[k].kind = "return"
      <3>1. tr[k - 1].clock + ReturnTime - tr[k - 1].left <= MaxAbsence
        BY <2>2, <2>5 DEF Allows, MayReturn
      <3>2. /\ tr[k].clock = tr[k - 1].clock + ReturnTime /\ tr[k].p06 = tr[k - 1].clock + ReturnTime
            /\ tr[k].left = tr[k - 1].left
        BY <2>2, <2>5 DEF After
      <3>3. ReturnTime \in Nat /\ MaxAbsence \in Nat /\ MaxAge \in Nat
        BY PhaseNumbers
      <3> DEFINE c == tr[k - 1].clock
                 l == tr[k - 1].left
      <3>4. /\ c \in Nat /\ l \in Nat /\ c + ReturnTime - l <= MaxAbsence
            /\ tr[k].clock = c + ReturnTime /\ tr[k].p06 = c + ReturnTime /\ tr[k].left = l
        BY <2>3, <3>1, <3>2
      <3> HIDE DEF c, l
      <3>5. tr[k].clock - tr[k].p06 <= MaxAge
        <4>1. (c + ReturnTime) - (c + ReturnTime) <= MaxAge
          BY <3>3, <3>4
        <4>2. QED
          BY <3>4, <4>1
      <3>6. tr[k].clock - tr[k].left <= MaxAbsence
        <4>1. (c + ReturnTime) - l <= MaxAbsence
          BY <3>3, <3>4
        <4>2. QED
          BY <3>4, <4>1
      <3>7. QED
        BY <3>5, <3>6
    <2>6. CASE steps[k].kind = "read"
      <3>1. steps[k].job \in 1 .. Len(tasks)
        BY <2>2, <2>6 DEF Allows
      <3>2. tasks[steps[k].job] \in ReadJobs
        BY <3>1
      <3>3. tasks[steps[k].job].duration \in Nat
        BY <3>2 DEF ReadJobs
      <3>4. MayRead(tr[k - 1], tasks[steps[k].job])
        BY <2>2, <2>6 DEF Allows
      <3> DEFINE job == tasks[steps[k].job]
      <3>5. /\ tr[k].clock = tr[k - 1].clock + job.duration /\ tr[k].mode = tr[k - 1].mode
            /\ tr[k].p06 = IF job.kind = "P06" THEN tr[k - 1].clock + job.duration ELSE tr[k - 1].p06
        BY <2>2, <2>6 DEF After
      <3>6. MaxAge \in Nat
        BY PhaseNumbers
      <3>7. CASE job.kind = "P06"
        <4>1. tr[k].clock - tr[k].p06 <= MaxAge
          BY <2>3, <3>3, <3>5, <3>6, <3>7
        <4>2. QED
          BY <2>6, <4>1
      <3>8. CASE job.kind # "P06"
        <4>1. tr[k - 1].clock + job.duration - tr[k - 1].p06 <= MaxAge
          BY <3>4, <3>5, <3>8 DEF MayRead
        <4>2. tr[k].clock - tr[k].p06 <= MaxAge
          <5> DEFINE c == tr[k - 1].clock
                     d == job.duration
                     p == tr[k - 1].p06
          <5>1. /\ c \in Nat /\ d \in Nat /\ p \in Int /\ c + d - p <= MaxAge
                /\ tr[k].clock = c + d /\ tr[k].p06 = p
            BY <2>3, <3>3, <3>5, <3>8, <4>1
          <5> HIDE DEF c, d, p
          <5>2. (c + d) - p <= MaxAge
            BY <3>6, <5>1
          <5>3. QED
            BY <5>1, <5>2
        <4>3. QED
          BY <2>6, <4>2
      <3>9. QED
        BY <3>7, <3>8
    <2>7. QED
      BY <2>2, <2>4, <2>5, <2>6 DEF Steps
  <1>3. QED
    BY <1>1, <1>2

-----------------------------------------------------------------------------
\* The moment a batch is at; between batches there is nothing of one, and during one its
\* moment is one of those that lead to the end of its plan.
Moment == [clock |-> clock, left |-> left, p06 |-> p06, mode |-> mode]

Counted ==
    /\ managers \in 0 .. MaxManagers /\ bound \in 0 .. managers /\ legacy \in 0 .. MaxLegacy
    /\ spent \in BOOLEAN /\ depth \in 0 .. 1 /\ ledger \subseteq Vs1Kinds
    /\ outdated \subseteq ledger

Idle == active # "batch" => jobs = <<>> /\ plan = NoPlan /\ step = 1

Timely(tr, since) ==
    /\ since \in Nat /\ since <= MaxAge
    /\ Timeline(tr, jobs, plan.steps, since) /\ tr[Len(plan.steps)].mode = "vs1" /\ tr[step - 1] = Moment
UnderWay ==
    active = "batch" =>
        /\ jobs \in JobLists /\ plan.steps \in Seq(Steps(jobs)) /\ step \in 1 .. Len(plan.steps) + 1
        /\ \E since, tr : Timely(tr, since)

BatchInv == LineOwner /\ Counted /\ Idle /\ UnderWay

\* A new process has no batch.
LEMMA InitBatchInv == PhasesInit => BatchInv
  <1> SUFFICES ASSUME PhasesInit PROVE BatchInv
    OBVIOUS
  <1>1. LineOwner
    BY InitLineOwner
  <1>2. Counted
    <2>1. /\ managers = 0 /\ bound = 0 /\ legacy = 0 /\ spent = FALSE /\ depth = 0
          /\ ledger = {} /\ outdated = {}
          /\ MaxManagers \in Nat /\ MaxLegacy \in Nat
      BY PhaseNumbers DEF PhasesInit
    <2>2. spent \in BOOLEAN
      BY <2>1, Zenon
    <2>3. QED
      BY <2>1, <2>2 DEF Counted
  <1>3. Idle /\ UnderWay
    BY DEF PhasesInit, Idle, UnderWay
  <1>4. QED
    BY <1>1, <1>2, <1>3 DEF BatchInv

\* What happens between batches leaves their state alone.
LEMMA BetweenBatchInv ==
    BatchInv /\ (EnterManager \/ LeaveManager \/ Bind \/ OpenGroup \/ CloseGroup \/ StartLegacy \/ EndLegacy)
    => Counted' /\ Idle' /\ UnderWay'
  <1> SUFFICES ASSUME BatchInv,
                      EnterManager \/ LeaveManager \/ Bind \/ OpenGroup \/ CloseGroup \/ StartLegacy \/ EndLegacy
               PROVE  Counted' /\ Idle' /\ UnderWay'
    OBVIOUS
  <1>1. MaxManagers \in Nat /\ MaxLegacy \in Nat
    BY PhaseNumbers
  <1>2. ASSUME active # "batch", active' # "batch", UNCHANGED batch PROVE Idle' /\ UnderWay'
    BY <1>2 DEF BatchInv, Idle, UnderWay, batch
  <1>3. CASE EnterManager \/ LeaveManager
    <2>1. active # "batch" /\ active' # "batch" /\ UNCHANGED batch
      BY <1>3 DEF EnterManager, LeaveManager
    <2>2. Counted'
      BY <1>1, <1>3 DEF EnterManager, LeaveManager, bridge, samples, BatchInv, Counted
    <2>3. QED
      BY <1>2, <2>1, <2>2
  <1>4. CASE Bind \/ OpenGroup \/ CloseGroup
    <2>1. active # "batch" /\ active' # "batch" /\ UNCHANGED batch
      BY <1>4 DEF Bind, MayBind, OpenGroup, CloseGroup
    <2>2. spent' \in BOOLEAN
      BY <1>4, Zenon DEF Bind, OpenGroup, CloseGroup, BatchInv, Counted
    <2>3. Counted'
      BY <1>1, <1>4, <2>2 DEF Bind, OpenGroup, CloseGroup, samples, BatchInv, Counted
    <2>4. QED
      BY <1>2, <2>1, <2>3
  <1>5. CASE StartLegacy \/ EndLegacy
    <2>1. active # "batch" /\ active' # "batch" /\ UNCHANGED batch
      BY <1>5 DEF StartLegacy, EndLegacy, MayServe
    <2>2. spent' \in BOOLEAN
      BY <1>5, Zenon DEF StartLegacy, EndLegacy, BatchInv, Counted
    <2>3. Counted'
      BY <1>1, <1>5, <2>2 DEF StartLegacy, EndLegacy, samples, BatchInv, Counted
    <2>4. QED
      BY <1>2, <2>1, <2>3
  <1>6. QED
    BY <1>3, <1>4, <1>5

\* A batch starts with a plan that was not refused.
LEMMA ExecuteBatchInv == BatchInv /\ Execute => Counted' /\ Idle' /\ UnderWay'
  <1> SUFFICES ASSUME BatchInv, Execute PROVE Counted' /\ Idle' /\ UnderWay'
    OBVIOUS
  <1>1. Counted'
    BY DEF Execute, bridge, BatchInv, Counted, Handshake, Vs1Kinds
  <1>2. active' = "batch" /\ mode = "vs1" /\ mode' = "vs1"
    BY DEF Execute, MayExecute, BoundMode
  <1>3. PICK tasks \in JobLists, since \in Ages :
          /\ Plan(tasks, since).ok
          /\ jobs' = tasks /\ plan' = Plan(tasks, since) /\ step' = 1
          /\ clock' = 0 /\ left' = 0 /\ p06' = -since
    BY DEF Execute
  <1>4. tasks \in Seq(ReadJobs) /\ since \in Nat
    BY PhaseNumbers
  <1> DEFINE p == Plan(tasks, since)
  <1>5. Sound(p, tasks, since) /\ p.mode = "vs1"
    BY <1>4, PlanSound
  <1> HIDE DEF p
  <1>6. PICK tr : Timeline(tr, tasks, p.steps, since) /\ tr[Len(p.steps)] = MomentOf(p)
    BY <1>3, <1>5 DEF Sound, p
  <1>7. since <= MaxAge /\ p.steps \in Seq(Steps(tasks))
    BY <1>3, <1>5 DEF Sound, Planned, p
  <1>8. tr[Len(p.steps)].mode = "vs1"
    BY <1>5, <1>6 DEF MomentOf
  <1>9. jobs' = tasks /\ plan' = p /\ step' = 1
    BY <1>3 DEF p
  <1>10. tr[step' - 1] = Moment'
    BY <1>2, <1>3, <1>6 DEF Timeline, Outset, Moment
  <1>11. Timely(tr, since)'
    BY <1>4, <1>6, <1>7, <1>8, <1>9, <1>10 DEF Timely
  <1>12. 1 \in 1 .. Len(p.steps) + 1
    BY <1>7
  <1>13. UnderWay'
    BY <1>4, <1>7, <1>9, <1>11, <1>12 DEF UnderWay
  <1>14. QED
    BY <1>1, <1>2, <1>13 DEF Idle

\* A step that takes the moment to the next one keeps the batch on its way.
LEMMA OneStepOn ==
    ASSUME UnderWay, active = "batch", step <= Len(plan.steps),
           UNCHANGED <<active, jobs, plan>>, step' = step + 1, Moment' = After(Moment, plan.steps[step], jobs)
    PROVE  UnderWay'
  <1>1. jobs \in JobLists /\ plan.steps \in Seq(Steps(jobs)) /\ step \in 1 .. Len(plan.steps) + 1
    BY DEF UnderWay
  <1>2. PICK since, tr : Timely(tr, since)
    BY DEF UnderWay
  <1>3. step \in 1 .. Len(plan.steps) /\ step + 1 \in 1 .. Len(plan.steps) + 1 /\ (step + 1) - 1 = step
    BY <1>1
  <1>4. tr[step] = After(tr[step - 1], plan.steps[step], jobs)
    BY <1>2, <1>3 DEF Timely, Timeline
  <1>5. tr[step' - 1] = Moment'
    BY <1>2, <1>3, <1>4 DEF Timely
  <1>6. since \in Nat /\ since <= MaxAge /\ Timeline(tr, jobs, plan.steps, since) /\ tr[Len(plan.steps)].mode = "vs1"
    BY <1>2 DEF Timely
  <1>7. Timely(tr, since)'
    BY <1>5, <1>6 DEF Timely
  <1>8. QED
    BY <1>1, <1>3, <1>7 DEF UnderWay

\* The next step finds what it needs.
LEMMA NextIsAllowed ==
    ASSUME UnderWay, active = "batch", step <= Len(plan.steps)
    PROVE  /\ jobs \in Seq(ReadJobs) /\ step \in 1 .. Len(plan.steps)
           /\ Moment \in Moments /\ Allows(Moment, plan.steps[step], jobs)
  <1>1. jobs \in JobLists /\ plan.steps \in Seq(Steps(jobs)) /\ step \in 1 .. Len(plan.steps) + 1
    BY DEF UnderWay
  <1>2. PICK since, tr : Timely(tr, since)
    BY DEF UnderWay
  <1>3. step \in 1 .. Len(plan.steps) /\ step - 1 \in 0 .. Len(plan.steps)
    BY <1>1
  <1>4. tr[step - 1] \in Moments /\ Allows(tr[step - 1], plan.steps[step], jobs)
    BY <1>2, <1>3 DEF Timely, Timeline
  <1>5. tr[step - 1] = Moment
    BY <1>2 DEF Timely
  <1>6. QED
    BY <1>1, <1>3, <1>4, <1>5, PhaseNumbers

\* Each step of a batch does what its plan took it to do.
LEMMA StepBatchInv ==
    BatchInv /\ (EnterP300 \/ LeaveP300 \/ ReadJob) => Counted' /\ Idle' /\ UnderWay'
  <1> SUFFICES ASSUME BatchInv, EnterP300 \/ LeaveP300 \/ ReadJob PROVE Counted' /\ Idle' /\ UnderWay'
    OBVIOUS
  <1>1. /\ active = "batch" /\ step <= Len(plan.steps) /\ step' = step + 1 /\ UNCHANGED <<active, jobs, plan>>
        /\ UNCHANGED <<managers, bound, legacy, spent, depth>>
    BY DEF EnterP300, LeaveP300, ReadJob, StepIs, bridge
  <1>2. UnderWay /\ Counted
    BY DEF BatchInv
  <1>3. Idle'
    BY <1>1 DEF Idle
  <1>4. /\ jobs \in Seq(ReadJobs) /\ step \in 1 .. Len(plan.steps)
        /\ Moment \in Moments /\ Allows(Moment, plan.steps[step], jobs)
    BY <1>1, <1>2, NextIsAllowed
  <1>5. CASE EnterP300
    <2>1. Counted'
      BY <1>1, <1>2, <1>5 DEF EnterP300, Counted
    <2>2. plan.steps[step].kind = "entry"
      BY <1>5 DEF EnterP300, StepIs
    <2>3. Moment' = After(Moment, plan.steps[step], jobs)
      BY <1>5, <2>2 DEF EnterP300, Moment, After
    <2>4. QED
      BY <1>1, <1>2, <1>3, <2>1, <2>3, OneStepOn
  <1>6. CASE LeaveP300
    <2>1. Counted'
      BY <1>1, <1>2, <1>6 DEF LeaveP300, Counted, Handshake, Vs1Kinds
    <2>2. plan.steps[step].kind = "return"
      BY <1>6 DEF LeaveP300, StepIs
    <2>3. Moment' = After(Moment, plan.steps[step], jobs)
      BY <1>6, <2>2 DEF LeaveP300, Moment, After
    <2>4. QED
      BY <1>1, <1>2, <1>3, <2>1, <2>3, OneStepOn
  <1>7. CASE ReadJob
    <2> DEFINE job == jobs[plan.steps[step].job]
    <2>1. plan.steps[step].kind = "read"
      BY <1>7 DEF ReadJob, StepIs
    <2>2. plan.steps[step].job \in 1 .. Len(jobs)
      BY <1>4, <2>1 DEF Allows
    <2>3. job \in ReadJobs
      BY <1>4, <2>2
    <2>4. /\ mode = ModeOf(job) /\ UNCHANGED <<mode, left>> /\ clock' = clock + job.duration
          /\ p06' = (IF job.kind = "P06" THEN clock' ELSE p06)
          /\ ledger' = (IF mode = "vs1" THEN ledger \cup {job.kind} ELSE ledger) /\ outdated' \subseteq outdated
      BY <1>7 DEF ReadJob
    <2>5. ledger' \subseteq Vs1Kinds
      BY <1>2, <2>3, <2>4 DEF Counted, ReadJobs, ModeOf, Vs1Kinds
    <2>6. Counted'
      BY <1>1, <1>2, <2>4, <2>5 DEF Counted
    <2>7. Moment' = After(Moment, plan.steps[step], jobs)
      BY <2>1, <2>4 DEF Moment, After
    <2>8. QED
      BY <1>1, <1>2, <1>3, <2>6, <2>7, OneStepOn
  <1>8. QED
    BY <1>5, <1>6, <1>7

\* A batch that ends leaves nothing.
LEMMA EndBatchInv == BatchInv /\ (FinishBatch \/ StepFails \/ ResumeFails) => Counted' /\ Idle' /\ UnderWay'
  <1> SUFFICES ASSUME BatchInv, FinishBatch \/ StepFails \/ ResumeFails PROVE Counted' /\ Idle' /\ UnderWay'
    OBVIOUS
  <1>1. /\ active' = "none" /\ ledger' = {} /\ outdated' = {} /\ jobs' = <<>> /\ plan' = NoPlan /\ step' = 1
        /\ UNCHANGED <<managers, bound, legacy, depth>> /\ spent' \in {spent, TRUE}
    BY DEF FinishBatch, StepFails, ResumeFails, Raises
  <1>2. QED
    BY <1>1 DEF BatchInv, Counted, Idle, UnderWay

\* Every step of the batches keeps the invariant.
LEMMA NextBatchInv == BatchInv /\ [PhasesNext]_phasesVars => BatchInv'
  <1> SUFFICES ASSUME BatchInv, [PhasesNext]_phasesVars PROVE BatchInv'
    OBVIOUS
  <1>1. LineOwner'
    BY NextLineOwner DEF BatchInv
  <1>2. CASE PhasesNext
    <2>1. Counted' /\ Idle' /\ UnderWay'
      BY <1>2, BetweenBatchInv, ExecuteBatchInv, StepBatchInv, EndBatchInv DEF PhasesNext, BatchSteps
    <2>2. QED
      BY <1>1, <2>1 DEF BatchInv
  <1>3. CASE UNCHANGED phasesVars
    <2>1. Counted' /\ Idle'
      BY <1>3 DEF phasesVars, bridge, batch, samples, BatchInv, Counted, Idle
    <2>2. UNCHANGED <<active, jobs, plan, step, clock, left, p06, mode>>
      BY <1>3 DEF phasesVars, bridge, batch, times
    <2>3. UnderWay'
      BY <2>2 DEF BatchInv, UnderWay, Timely, Moment
    <2>4. QED
      BY <1>1, <2>1, <2>3 DEF BatchInv
  <1>4. QED
    BY <1>2, <1>3

\* The moment of the batch is within the limits of its plan.
LEMMA MomentIsKept ==
    ASSUME BatchInv, active = "batch"
    PROVE  LimitsAreKept /\ ReadsAreInTime
  <1>1. jobs \in JobLists /\ plan.steps \in Seq(Steps(jobs)) /\ step \in 1 .. Len(plan.steps) + 1 /\ UnderWay
    BY DEF BatchInv, UnderWay
  <1>2. PICK since, tr : Timely(tr, since)
    BY DEF BatchInv, UnderWay
  <1> DEFINE steps == plan.steps
             k     == step - 1
  <1>3. jobs \in Seq(ReadJobs) /\ steps \in Seq(Steps(jobs))
    BY <1>1, PhaseNumbers
  <1>4. /\ since \in Nat /\ since <= MaxAge /\ Timeline(tr, jobs, steps, since) /\ tr[Len(steps)].mode = "vs1"
        /\ tr[k].clock = clock /\ tr[k].left = left /\ tr[k].p06 = p06 /\ tr[k].mode = mode
    BY <1>2 DEF Timely, Moment
  <1>5. k \in 0 .. Len(steps) /\ (step > 1 <=> k > 0)
    BY <1>1
  <1>6. steps[k] = plan.steps[step - 1]
    OBVIOUS
  <1> HIDE DEF steps, k
  <1>7. mode = "p300" => clock - left <= MaxAbsence
    <2>1. ASSUME mode = "p300" PROVE tr[k].clock - tr[k].left <= MaxAbsence
      BY <1>3, <1>4, <1>5, <2>1, AbsenceKept
    <2>2. QED
      BY <1>4, <2>1
  <1>8. mode = "vs1" => /\ clock - p06 <= MaxAge
                        /\ k > 0 /\ steps[k].kind = "return" => clock - left <= MaxAbsence
    <2>1. ASSUME mode = "vs1"
          PROVE  /\ tr[k].clock - tr[k].p06 <= MaxAge
                 /\ k > 0 /\ steps[k].kind = "return" => tr[k].clock - tr[k].left <= MaxAbsence
      BY <1>3, <1>4, <1>5, <2>1, AgeKept
    <2>2. QED
      BY <1>4, <2>1
  <1>9. LimitsAreKept
    BY <1>5, <1>6, <1>7, <1>8 DEF LimitsAreKept
  <1>10. ReadsAreInTime
    <2> SUFFICES ASSUME StepIs("read")
                 PROVE  /\ clock - jobs[plan.steps[step].job].queued <= MaxWait
                        /\ clock + jobs[plan.steps[step].job].duration <= jobs[plan.steps[step].job].deadline
      BY DEF ReadsAreInTime
    <2>1. step <= Len(plan.steps) /\ plan.steps[step].kind = "read"
      BY DEF StepIs
    <2>2. Allows(Moment, plan.steps[step], jobs)
      BY <1>1, <2>1, NextIsAllowed
    <2>3. MayRead(Moment, jobs[plan.steps[step].job])
      BY <2>1, <2>2 DEF Allows
    <2>4. QED
      BY <2>3 DEF MayRead, Moment
  <1>11. QED
    BY <1>9, <1>10

\* A batch that was planned is carried out within its budget: VS1 is never away longer than
\* allowed nor spoken with an older P06, and no read waits too long or ends too late
\* (plan_phase_windows, execute_read_phases): for every list of jobs and every budget.
THEOREM PlanSafe == PhasesSpec => []PlanInv
  <1>1. PhasesSpec => []BatchInv
    BY InitBatchInv, NextBatchInv, PTL DEF PhasesSpec
  <1>2. ASSUME BatchInv PROVE PlanInv
    <2>1. active = "batch" => LimitsAreKept /\ ReadsAreInTime
      BY <1>2, MomentIsKept
    <2>2. active # "batch" => LimitsAreKept /\ ReadsAreInTime
      BY DEF LimitsAreKept, ReadsAreInTime, StepIs
    <2>3. jobs \in JobLists \cup {<<>>} /\ step \in 1 .. Len(plan.steps) + 1
      <3>1. CASE active = "batch"
        BY <1>2, <3>1 DEF BatchInv, UnderWay
      <3>2. CASE active # "batch"
        BY <1>2, <3>2 DEF BatchInv, Idle, NoPlan
      <3>3. QED
        BY <3>1, <3>2
    <2>4. PhasesTypeOK
      BY <1>2, <2>3 DEF BatchInv, Counted, LineOwner, BridgeTypes, LedgerIsCurrent, PhasesTypeOK
    <2>5. QED
      BY <2>1, <2>2, <2>4 DEF PlanInv
  <1>3. QED
    BY <1>1, <1>2, PTL

-----------------------------------------------------------------------------
\* The steps of a plan that are of one kind.
OfKind(steps, kind) == {k \in 1 .. Len(steps) : steps[k].kind = kind}

\* One more step.
LEMMA OneMoreStep ==
    ASSUME NEW tasks \in Seq(ReadJobs), NEW steps \in Seq(Steps(tasks)), NEW st \in Steps(tasks), NEW kind
    PROVE  /\ Append(steps, st) \in Seq(Steps(tasks))
           /\ Append(steps, st)[Len(steps) + 1] = st
           /\ \A k \in 1 .. Len(steps) : Append(steps, st)[k] = steps[k]
           /\ OfKind(Append(steps, st), kind)
                = IF st.kind = kind THEN OfKind(steps, kind) \cup {Len(steps) + 1} ELSE OfKind(steps, kind)
           /\ \A k \in OfKind(steps, kind) : k \in 1 .. Len(steps) /\ k < Len(steps) + 1
           /\ Cardinality(OfKind(steps, kind)) \in Nat
           /\ Cardinality(OfKind(Append(steps, st), kind))
                = Cardinality(OfKind(steps, kind)) + IF st.kind = kind THEN 1 ELSE 0
  <1> DEFINE more == Append(steps, st)
             n    == Len(steps)
             A    == OfKind(steps, kind)
  <1>1. /\ n \in Nat /\ Len(more) = n + 1 /\ more[n + 1] = st /\ more \in Seq(Steps(tasks))
        /\ \A k \in 1 .. n : more[k] = steps[k]
    OBVIOUS
  <1> HIDE DEF more, n
  <1>2. \A k \in A : k \in 1 .. n /\ k < n + 1
    BY <1>1 DEF OfKind, n
  <1>3. OfKind(more, kind) = IF st.kind = kind THEN A \cup {n + 1} ELSE A
    <2>1. 1 .. n + 1 = 1 .. n \cup {n + 1}
      BY <1>1
    <2>2. n + 1 \notin 1 .. n
      BY <1>1
    <2>3. OfKind(more, kind) = {k \in 1 .. n \cup {n + 1} : more[k].kind = kind}
      BY <1>1, <2>1 DEF OfKind
    <2>4. A = {k \in 1 .. n : more[k].kind = kind}
      BY <1>1 DEF OfKind, n
    <2> HIDE DEF A
    <2>5. QED
      BY <1>1, <2>2, <2>3, <2>4
  <1>4. IsFiniteSet(A) /\ n + 1 \notin A
    <2>1. IsFiniteSet(1 .. n) /\ A \subseteq 1 .. n
      BY <1>1, FS_Interval DEF OfKind, n
    <2>2. n + 1 \notin 1 .. n
      BY <1>1
    <2> HIDE DEF A
    <2>3. QED
      BY <2>1, <2>2, FS_Subset
  <1> HIDE DEF A
  <1>5. Cardinality(A) \in Nat /\ Cardinality(A \cup {n + 1}) = Cardinality(A) + 1
    BY <1>4, FS_AddElement, FS_CardinalityType
  <1>6. Cardinality(OfKind(more, kind)) = Cardinality(A) + IF st.kind = kind THEN 1 ELSE 0
    BY <1>3, <1>5
  <1>7. QED
    BY <1>1, <1>2, <1>3, <1>5, <1>6 DEF more, n, A

\* The reads of the steps are the first n jobs of the order, each once, and none too early.
Reading(steps, order, n, tasks) ==
    /\ \A k \in OfKind(steps, "read") : \E m \in 1 .. n : steps[k].job = order[m]
    /\ \A m \in 1 .. n : \E k \in OfKind(steps, "read") : steps[k].job = order[m]
    /\ \A k, l \in OfKind(steps, "read") :
         k < l => steps[k].job # steps[l].job /\ ~Before(tasks, steps[l].job, steps[k].job)

\* A handover reads nothing.
LEMMA HandoverReads ==
    ASSUME NEW tasks \in Seq(ReadJobs), NEW order, NEW n, NEW steps \in Seq(Steps(tasks)),
           NEW kind \in {"entry", "return"}, Reading(steps, order, n, tasks)
    PROVE  Reading(Append(steps, Handover(kind)), order, n, tasks)
  <1> DEFINE st   == Handover(kind)
             more == Append(steps, st)
  <1>1. st \in Steps(tasks) /\ st.kind # "read"
    BY DEF Handover, Steps
  <1> HIDE DEF st
  <1>2. /\ OfKind(more, "read") = OfKind(steps, "read")
        /\ \A k \in OfKind(steps, "read") : more[k] = steps[k]
    BY <1>1, OneMoreStep
  <1> DEFINE R == OfKind(steps, "read")
  <1> HIDE DEF more, R
  <1>3. /\ \A k \in R : \E m \in 1 .. n : steps[k].job = order[m]
        /\ \A m \in 1 .. n : \E k \in R : steps[k].job = order[m]
        /\ \A k, l \in R : k < l => steps[k].job # steps[l].job /\ ~Before(tasks, steps[l].job, steps[k].job)
    BY DEF Reading, R
  <1>4. OfKind(more, "read") = R /\ \A k \in R : more[k] = steps[k]
    BY <1>2 DEF R
  <1>5. \A k \in R : \E m \in 1 .. n : more[k].job = order[m]
    BY <1>3, <1>4
  <1>6. \A m \in 1 .. n : \E k \in R : more[k].job = order[m]
    BY <1>3, <1>4
  <1>7. \A k, l \in R : k < l => more[k].job # more[l].job /\ ~Before(tasks, more[l].job, more[k].job)
    BY <1>3, <1>4
  <1>8. Reading(more, order, n, tasks)
    BY <1>4, <1>5, <1>6, <1>7 DEF Reading
  <1>9. QED
    BY <1>8 DEF more, st

\* The read of the next one of the order.
LEMMA ReadReads ==
    ASSUME NEW tasks \in Seq(ReadJobs), NEW order \in Seq(1 .. Len(tasks)), Kept(order, tasks),
           NEW n \in 1 .. Len(order), NEW steps \in Seq(Steps(tasks)), Reading(steps, order, n - 1, tasks)
    PROVE  Reading(Append(steps, ReadOf(order[n])), order, n, tasks)
  <1> DEFINE st   == ReadOf(order[n])
             more == Append(steps, st)
             last == Len(steps) + 1
             R    == OfKind(steps, "read")
  <1>1. st \in Steps(tasks) /\ st.kind = "read" /\ st.job = order[n]
    <2>1. order[n] \in 0 .. Len(tasks)
      OBVIOUS
    <2>2. QED
      BY <2>1 DEF ReadOf, Steps
  <1> HIDE DEF st
  <1>2. /\ OfKind(more, "read") = R \cup {last} /\ more[last] = st
        /\ \A k \in R : more[k] = steps[k] /\ k < last /\ k \in Nat
    BY <1>1, OneMoreStep
  <1>3. /\ n \in Nat /\ n \in 1 .. n /\ last \in Nat /\ Len(order) \in Nat
        /\ \A m \in 1 .. n - 1 : m \in 1 .. n /\ m \in 1 .. Len(order) /\ m < n
        /\ \A m \in 1 .. n : m = n \/ m \in 1 .. n - 1
    OBVIOUS
  <1> HIDE DEF more, R, last
  <1>4. /\ \A k \in R : \E m \in 1 .. n - 1 : more[k].job = order[m]
        /\ \A m \in 1 .. n - 1 : \E k \in R : more[k].job = order[m]
        /\ \A k, l \in R : k < l => more[k].job # more[l].job /\ ~Before(tasks, more[l].job, more[k].job)
    <2>1. /\ \A k \in R : \E m \in 1 .. n - 1 : steps[k].job = order[m]
          /\ \A m \in 1 .. n - 1 : \E k \in R : steps[k].job = order[m]
          /\ \A k, l \in R : k < l => steps[k].job # steps[l].job /\ ~Before(tasks, steps[l].job, steps[k].job)
      BY DEF Reading, R
    <2>2. \A k \in R : more[k] = steps[k]
      BY <1>2
    <2>3. ASSUME NEW k \in R PROVE \E m \in 1 .. n - 1 : more[k].job = order[m]
      <3>1. more[k] = steps[k]
        BY <2>2
      <3>2. \E m \in 1 .. n - 1 : steps[k].job = order[m]
        BY <2>1
      <3>3. QED
        BY <3>1, <3>2
    <2>4. \A m \in 1 .. n - 1 : \E k \in R : more[k].job = order[m]
      BY <2>1, <2>2
    <2>5. ASSUME NEW k \in R, NEW l \in R, k < l
          PROVE  more[k].job # more[l].job /\ ~Before(tasks, more[l].job, more[k].job)
      <3>1. more[k] = steps[k] /\ more[l] = steps[l]
        BY <2>2
      <3>2. steps[k].job # steps[l].job /\ ~Before(tasks, steps[l].job, steps[k].job)
        BY <2>1, <2>5
      <3>3. QED
        BY <3>1, <3>2
    <2>6. QED
      BY <2>3, <2>4, <2>5
  <1>5. \A k \in R \cup {last} : \E m \in 1 .. n : more[k].job = order[m]
    BY <1>1, <1>2, <1>3, <1>4
  <1>6. \A m \in 1 .. n : \E k \in R \cup {last} : more[k].job = order[m]
    BY <1>1, <1>2, <1>3, <1>4
  <1>7. ASSUME NEW k \in R \cup {last}, NEW l \in R \cup {last}, k < l
        PROVE  more[k].job # more[l].job /\ ~Before(tasks, more[l].job, more[k].job)
    <2>1. k \in R
      BY <1>2, <1>3, <1>7
    <2>2. CASE l \in R
      BY <1>4, <1>7, <2>1, <2>2
    <2>3. CASE l = last
      <3>1. PICK m \in 1 .. n - 1 : more[k].job = order[m]
        BY <1>4, <2>1
      <3>2. order[m] # order[n] /\ ~Before(tasks, order[n], order[m])
        BY <1>3 DEF Kept
      <3>3. more[l].job = order[n]
        BY <1>1, <1>2, <2>3
      <3>4. QED
        BY <3>1, <3>2, <3>3
    <2>4. QED
      BY <2>2, <2>3
  <1>8. Reading(more, order, n, tasks)
    BY <1>2, <1>5, <1>6, <1>7 DEF Reading
  <1>9. QED
    BY <1>8 DEF more, st

\* The windows the first n jobs of an order begin.
Begun300(order, tasks, n) == Cardinality({k \in 1 .. n : Begins(order, tasks, k)})

\* One more job of an order.
LEMMA Begun300Next ==
    ASSUME NEW order, NEW tasks, NEW n \in Nat \ {0}
    PROVE  /\ Begun300(order, tasks, n - 1) \in Nat
           /\ Begun300(order, tasks, n) = Begun300(order, tasks, n - 1) + IF Begins(order, tasks, n) THEN 1 ELSE 0
  <1> DEFINE A == {k \in 1 .. n - 1 : Begins(order, tasks, k)}
  <1>1. IsFiniteSet(A) /\ n \notin A
    <2>1. IsFiniteSet(1 .. n - 1) /\ A \subseteq 1 .. n - 1 /\ n \notin 1 .. n - 1
      BY FS_Interval
    <2> HIDE DEF A
    <2>2. QED
      BY <2>1, FS_Subset
  <1>2. {k \in 1 .. n : Begins(order, tasks, k)} = IF Begins(order, tasks, n) THEN A \cup {n} ELSE A
    <2>1. 1 .. n = 1 .. n - 1 \cup {n}
      OBVIOUS
    <2>2. QED
      BY <2>1
  <1>3. A = {k \in 1 .. n - 1 : Begins(order, tasks, k)}
    OBVIOUS
  <1> HIDE DEF A
  <1>4. Cardinality(A) \in Nat /\ Cardinality(A \cup {n}) = Cardinality(A) + 1
    BY <1>1, FS_AddElement, FS_CardinalityType
  <1>5. QED
    BY <1>2, <1>3, <1>4 DEF Begun300

\* What is planned for the first n jobs of an order.
Carries(p, order, n, tasks) ==
    /\ p.steps \in Seq(Steps(tasks)) /\ p.mode \in {"vs1", "p300"}
    /\ Reading(p.steps, order, n, tasks)
    /\ p.mode = IF n = 0 THEN "vs1" ELSE ModeOf(tasks[order[n]])
    /\ Cardinality(OfKind(p.steps, "entry")) = Begun300(order, tasks, n)

\* Planning one job adds its read, and an entry where the order begins a window.
LEMMA JobCarries ==
    ASSUME NEW tasks \in Seq(ReadJobs), NEW order \in Seq(1 .. Len(tasks)), Kept(order, tasks),
           NEW n \in 1 .. Len(order), NEW p, Carries(p, order, n - 1, tasks)
    PROVE  Carries(JobPlanned(p, order[n], tasks[order[n]]), order, n, tasks)
  <1> DEFINE i    == order[n]
             kind == ModeOf(tasks[i])
             q    == IF kind = "vs1" THEN ReturnPlanned(p) ELSE EntryPlanned(p)
             r    == ReadPlanned(q, i, tasks[i])
             c    == Cardinality(OfKind(p.steps, "entry"))
  <1>1. n \in Nat \ {0} /\ kind \in {"vs1", "p300"} /\ JobPlanned(p, i, tasks[i]) = r
    BY DEF JobPlanned, ModeOf
  <1>2. /\ p.steps \in Seq(Steps(tasks)) /\ p.mode \in {"vs1", "p300"} /\ Reading(p.steps, order, n - 1, tasks)
        /\ p.mode = (IF n = 1 THEN "vs1" ELSE ModeOf(tasks[order[n - 1]]))
        /\ c = Begun300(order, tasks, n - 1)
    BY <1>1 DEF Carries
  <1>3. /\ Begun300(order, tasks, n - 1) \in Nat
        /\ Begun300(order, tasks, n) = Begun300(order, tasks, n - 1) + IF Begins(order, tasks, n) THEN 1 ELSE 0
    BY <1>1, Begun300Next
  <1>4. Begins(order, tasks, n) <=> kind = "p300" /\ p.mode = "vs1"
    BY <1>1, <1>2 DEF Begins
  <1> HIDE DEF c, kind, i
  <1>5. /\ q.steps \in Seq(Steps(tasks)) /\ q.mode = kind /\ Reading(q.steps, order, n - 1, tasks)
        /\ Cardinality(OfKind(q.steps, "entry")) = Begun300(order, tasks, n)
    <2>1. CASE p.mode = kind
      <3>1. q = p
        BY <1>1, <2>1 DEF ReturnPlanned, EntryPlanned
      <3>2. c = Begun300(order, tasks, n)
        BY <1>1, <1>2, <1>3, <1>4, <2>1
      <3>3. QED
        BY <1>2, <2>1, <3>1, <3>2 DEF c
    <2>2. ASSUME NEW to \in {"entry", "return"}, q.mode = kind, q.steps = Append(p.steps, Handover(to)),
                 to = "entry" <=> Begins(order, tasks, n)
          PROVE  /\ q.steps \in Seq(Steps(tasks)) /\ q.mode = kind /\ Reading(q.steps, order, n - 1, tasks)
                 /\ Cardinality(OfKind(q.steps, "entry")) = Begun300(order, tasks, n)
      <3> DEFINE st == Handover(to)
      <3>1. st \in Steps(tasks) /\ st.kind = to
        BY DEF Handover, Steps
      <3>2. Reading(Append(p.steps, st), order, n - 1, tasks)
        BY <1>2, HandoverReads
      <3> HIDE DEF st
      <3>3. /\ Append(p.steps, st) \in Seq(Steps(tasks))
            /\ Cardinality(OfKind(Append(p.steps, st), "entry")) = c + IF st.kind = "entry" THEN 1 ELSE 0
        BY <1>2, <3>1, OneMoreStep DEF c
      <3>4. q.steps = Append(p.steps, st)
        BY <2>2 DEF st
      <3> HIDE DEF q
      <3>5. QED
        BY <1>2, <1>3, <2>2, <3>1, <3>2, <3>3, <3>4
    <2>3. CASE p.mode # kind /\ kind = "vs1"
      <3>1. q.mode = kind /\ q.steps = Append(p.steps, Handover("return"))
        BY <2>3 DEF ReturnPlanned
      <3>2. ~Begins(order, tasks, n)
        BY <1>4, <2>3
      <3> HIDE DEF q
      <3>3. QED
        BY <2>2, <3>1, <3>2
    <2>4. CASE p.mode # kind /\ kind = "p300"
      <3>1. p.mode = "vs1"
        BY <1>2, <2>4
      <3>2. q.mode = kind /\ q.steps = Append(p.steps, Handover("entry"))
        BY <2>4, <3>1 DEF EntryPlanned
      <3>3. Begins(order, tasks, n)
        BY <1>4, <2>4, <3>1
      <3> HIDE DEF q
      <3>4. QED
        BY <2>2, <3>2, <3>3
    <2>5. QED
      BY <1>1, <2>1, <2>3, <2>4
  <1> HIDE DEF q
  <1>6. r.steps = Append(q.steps, ReadOf(i)) /\ r.mode = kind
    BY <1>5 DEF ReadPlanned
  <1> HIDE DEF r
  <1>7. Reading(r.steps, order, n, tasks)
    BY <1>5, <1>6, ReadReads DEF i
  <1>8. ReadOf(i) \in Steps(tasks) /\ ReadOf(i).kind = "read"
    <2>1. i \in 0 .. Len(tasks)
      BY DEF i
    <2>2. QED
      BY <2>1 DEF ReadOf, Steps
  <1> DEFINE st == ReadOf(i)
  <1> HIDE DEF st
  <1>9. /\ r.steps \in Seq(Steps(tasks)) /\ Cardinality(OfKind(q.steps, "entry")) \in Nat
        /\ Cardinality(OfKind(r.steps, "entry")) = Cardinality(OfKind(q.steps, "entry"))
    <2>1. st \in Steps(tasks) /\ st.kind # "entry" /\ r.steps = Append(q.steps, st)
      BY <1>6, <1>8 DEF st
    <2>2. /\ Append(q.steps, st) \in Seq(Steps(tasks)) /\ Cardinality(OfKind(q.steps, "entry")) \in Nat
          /\ Cardinality(OfKind(Append(q.steps, st), "entry"))
               = Cardinality(OfKind(q.steps, "entry")) + IF st.kind = "entry" THEN 1 ELSE 0
      BY <1>5, <2>1, OneMoreStep
    <2>3. QED
      BY <2>1, <2>2
  <1>10. Carries(r, order, n, tasks)
    BY <1>1, <1>5, <1>6, <1>7, <1>9 DEF Carries, kind, i
  <1>11. QED
    BY <1>1, <1>10 DEF i

\* A plan reads every job once and in order, and leaves VS1 no more often than needed.
LEMMA PlanInOrder ==
    ASSUME NEW tasks \in Seq(ReadJobs), NEW since
    PROVE  LET steps == Plan(tasks, since).steps
           IN  /\ steps \in Seq(Steps(tasks))
               /\ {steps[k].job : k \in OfKind(steps, "read")} = 1 .. Len(tasks)
               /\ \A k, l \in OfKind(steps, "read") :
                    k < l => steps[k].job # steps[l].job /\ ~Before(tasks, steps[l].job, steps[k].job)
               /\ Cardinality(OfKind(steps, "entry")) <= Given(tasks, Len(tasks))
  <1> DEFINE order == SafeOrder(tasks)
             N     == Len(order)
  <1>1. /\ order \in Seq(1 .. Len(tasks)) /\ Kept(order, tasks)
        /\ \A i \in 1 .. Len(tasks) : Has(order, i)
        /\ Entries(order, tasks) <= Given(tasks, Len(tasks))
    BY OrderSound
  <1>2. PICK f : Plans(f, tasks, since, N) /\ Plan(tasks, since) = ReturnPlanned(f[N])
    BY PlanUnfolds
  <1>3. N \in Nat
    BY <1>1
  <1>4. \A n \in 0 .. N : f[n] = Planning(f, tasks, since, n)
    BY <1>2 DEF Plans
  <1> HIDE DEF N
  <1> DEFINE G == {n \in 0 .. N : Carries(f[n], order, n, tasks)}
  <1>5. 0 \in G
    <2>1. f[0] = Fresh(since)
      BY <1>3, <1>4 DEF Planning
    <2>2. OfKind(<<>>, "read") = {} /\ OfKind(<<>>, "entry") = {} /\ 1 .. 0 = {}
      BY DEF OfKind
    <2>3. Begun300(order, tasks, 0) = 0 /\ Cardinality({}) = 0
      BY <2>2, FS_EmptySet DEF Begun300
    <2>4. Reading(<<>>, order, 0, tasks)
      BY <2>2 DEF Reading
    <2>5. Fresh(since).steps = <<>> /\ Fresh(since).mode = "vs1" /\ <<>> \in Seq(Steps(tasks))
      BY DEF Fresh
    <2>6. Carries(Fresh(since), order, 0, tasks)
      BY <2>2, <2>3, <2>4, <2>5 DEF Carries
    <2>7. QED
      BY <1>3, <2>1, <2>6
  <1>6. ASSUME NEW n \in 1 .. N, n - 1 \in G PROVE n \in G
    <2>1. n \in 0 .. N /\ n # 0 /\ n \in 1 .. Len(order)
      BY <1>3 DEF N
    <2>2. f[n] = JobPlanned(f[n - 1], order[n], tasks[order[n]])
      BY <1>4, <2>1 DEF Planning
    <2>3. Carries(f[n - 1], order, n - 1, tasks)
      BY <1>6
    <2> HIDE DEF order
    <2>4. Carries(f[n], order, n, tasks)
      BY <1>1, <2>1, <2>2, <2>3, JobCarries
    <2>5. QED
      BY <2>1, <2>4
  <1>7. N \in G
    <2>1. \A n \in 1 .. N : n - 1 \in G => n \in G
      BY <1>6
    <2> HIDE DEF G
    <2>2. \A n \in 0 .. N : n \in G
      BY <1>3, <1>5, <2>1, UpTo
    <2>3. QED
      BY <1>3, <2>2
  <1> DEFINE p     == f[N]
             steps == ReturnPlanned(p).steps
  <1>8. Carries(p, order, N, tasks)
    BY <1>7
  <1> HIDE DEF p, order
  <1>9. /\ steps \in Seq(Steps(tasks)) /\ Reading(steps, order, N, tasks)
        /\ Cardinality(OfKind(steps, "entry")) = Begun300(order, tasks, N)
    <2>1. CASE p.mode = "vs1"
      BY <1>8, <2>1 DEF ReturnPlanned, Carries
    <2>2. CASE p.mode # "vs1"
      <3> DEFINE st == Handover("return")
      <3>1. st \in Steps(tasks) /\ st.kind = "return"
        BY DEF Handover, Steps
      <3>2. steps = Append(p.steps, st)
        BY <2>2 DEF ReturnPlanned
      <3>3. p.steps \in Seq(Steps(tasks)) /\ Reading(p.steps, order, N, tasks)
            /\ Cardinality(OfKind(p.steps, "entry")) = Begun300(order, tasks, N)
        BY <1>8 DEF Carries
      <3>4. Reading(Append(p.steps, st), order, N, tasks)
        BY <3>3, HandoverReads
      <3> HIDE DEF st
      <3>5. /\ Append(p.steps, st) \in Seq(Steps(tasks)) /\ Cardinality(OfKind(p.steps, "entry")) \in Nat
            /\ Cardinality(OfKind(Append(p.steps, st), "entry"))
                 = Cardinality(OfKind(p.steps, "entry")) + IF st.kind = "entry" THEN 1 ELSE 0
        BY <3>1, <3>3, OneMoreStep
      <3> HIDE DEF steps
      <3>6. QED
        BY <3>1, <3>2, <3>3, <3>4, <3>5
    <2>3. QED
      BY <2>1, <2>2
  <1>10. Plan(tasks, since).steps = steps
    BY <1>2 DEF p
  <1> HIDE DEF steps
  <1> DEFINE R == OfKind(steps, "read")
  <1>11. \A k, l \in R : k < l => steps[k].job # steps[l].job /\ ~Before(tasks, steps[l].job, steps[k].job)
    BY <1>9 DEF Reading
  <1>12. \A k \in R : steps[k].job \in 1 .. Len(tasks)
    <2>1. \A m \in 1 .. N : order[m] \in 1 .. Len(tasks)
      BY <1>1 DEF N, order
    <2>2. QED
      BY <1>9, <2>1 DEF Reading
  <1>13. \A i \in 1 .. Len(tasks) : \E k \in R : steps[k].job = i
    <2>1. \A i \in 1 .. Len(tasks) : \E m \in 1 .. N : order[m] = i
      BY <1>1 DEF Has, N, order
    <2>2. QED
      BY <1>9, <2>1 DEF Reading
  <1>14. Cardinality(OfKind(steps, "entry")) <= Given(tasks, Len(tasks))
    BY <1>1, <1>9 DEF Begun300, Entries, N, order
  <1> HIDE DEF R
  <1>15. {steps[k].job : k \in R} = 1 .. Len(tasks)
    BY <1>12, <1>13
  <1>16. QED
    BY <1>9, <1>10, <1>11, <1>14, <1>15 DEF R

-----------------------------------------------------------------------------
\* A plan reads every job once, with none passing a barrier or one of its protocol, and leaves
\* VS1 no more often than the order given would (OrderInv), for every batch that runs.
THEOREM OrderSafe == PhasesSpec => []OrderInv
  <1>1. PhasesInit => OrderInv
    BY DEF PhasesInit, OrderInv, OrderIsSafe, NoExtraWindows
  <1>2. OrderInv /\ [PhasesNext]_phasesVars => OrderInv'
    <2> SUFFICES ASSUME OrderInv, [PhasesNext]_phasesVars PROVE OrderInv'
      OBVIOUS
    <2>1. ASSUME active' # "batch" PROVE OrderInv'
      BY <2>1 DEF OrderInv, OrderIsSafe, NoExtraWindows
    <2>2. ASSUME UNCHANGED <<active, jobs, plan>> PROVE OrderInv'
      BY <2>2 DEF OrderInv, OrderIsSafe, NoExtraWindows, Precedes
    <2>3. CASE EnterManager \/ LeaveManager \/ Bind \/ OpenGroup \/ CloseGroup \/ StartLegacy \/ EndLegacy
      <3>1. active' # "batch"
        BY <2>3 DEF EnterManager, LeaveManager, Bind, MayBind, OpenGroup, CloseGroup, StartLegacy, EndLegacy
      <3>2. QED
        BY <2>1, <3>1
    <2>4. CASE Execute
      <3>1. PICK tasks \in JobLists, since \in Ages : jobs' = tasks /\ plan' = Plan(tasks, since)
        BY <2>4 DEF Execute
      <3>2. tasks \in Seq(ReadJobs)
        BY PhaseNumbers
      <3> DEFINE steps == Plan(tasks, since).steps
      <3>3. /\ steps \in Seq(Steps(tasks))
            /\ {steps[k].job : k \in OfKind(steps, "read")} = 1 .. Len(tasks)
            /\ \A k, l \in OfKind(steps, "read") :
                  k < l => steps[k].job # steps[l].job /\ ~Before(tasks, steps[l].job, steps[k].job)
            /\ Cardinality(OfKind(steps, "entry")) <= Given(tasks, Len(tasks))
        BY <3>2, PlanInOrder
      <3>4. plan'.steps = steps /\ jobs' = tasks
        BY <3>1
      <3> HIDE DEF steps
      <3>5. DOMAIN steps = 1 .. Len(steps) /\ DOMAIN tasks = 1 .. Len(tasks)
        BY <3>2, <3>3
      <3>6. OrderIsSafe'
        BY <3>3, <3>4, <3>5 DEF OrderIsSafe, OfKind, Before, Precedes
      <3>7. NoExtraWindows'
        BY <3>3, <3>4, <3>5 DEF NoExtraWindows, OfKind, Given, Needed
      <3>8. QED
        BY <3>6, <3>7 DEF OrderInv
    <2>5. CASE BatchSteps \/ StepFails \/ ResumeFails
      <3>1. active' # "batch" \/ UNCHANGED <<active, jobs, plan>>
        BY <2>5 DEF BatchSteps, EnterP300, LeaveP300, ReadJob, FinishBatch, StepFails, ResumeFails, Raises
      <3>2. QED
        BY <2>1, <2>2, <3>1
    <2>6. CASE UNCHANGED phasesVars
      <3>1. UNCHANGED <<active, jobs, plan>>
        BY <2>6 DEF phasesVars, batch
      <3>2. QED
        BY <2>2, <3>1
    <2>7. QED
      BY <2>3, <2>4, <2>5, <2>6 DEF PhasesNext
  <1>3. QED
    BY <1>1, <1>2, PTL DEF PhasesSpec

=============================================================================
