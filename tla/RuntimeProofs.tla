--------------------------- MODULE RuntimeProofs ----------------------------
(***************************************************************************)
(* Proofs about the serial owner: a session of the coordinator              *)
(* (Coordinator), whatever frame fails and in whatever order the procedures *)
(* are called, and the main loop (HybridRuntime), for any number of         *)
(* requests and readbacks.                                                  *)
(***************************************************************************)
EXTENDS Coordinator, HybridRuntime, QueueLemmas

-----------------------------------------------------------------------------
\* A session.  SessionInv is the inductive invariant: the frames a procedure has left
\* say what protocol the controller speaks while it runs.

\* The protocol a frame expects of the controller, other than EOT, and the frames that
\* may follow it.
Expects(f)    == IF f \in {"enq", "vs1_id", "start"} THEN "SYNC" ELSE Speaks(f)
Successors(f) == CASE f \in {"eot", "enq"} -> {"enq", "vs1_id", "start"}
                   [] f = "vs1_id"         -> {"read"}
                   [] f = "start"          -> {"ident"}
                   [] OTHER                -> {}

\* The protocol a procedure ends in.
Leaves(o) == IF o \in ToP300 \cup {"ram", "identity"} THEN "P300" ELSE "VS1"

\* A list of frames each of which finds what the one before it leaves.
Fits(frames, o) ==
    /\ frames \in Seq(Frames)
    /\ \A i \in 1 .. Len(frames) : i < Len(frames) => frames[i + 1] \in Successors(frames[i])
    /\ frames # <<>> => Speaks(frames[Len(frames)]) = Leaves(o)
    /\ o \in Reads => Len(frames) <= 1

\* A procedure after its EOT, and one without any, is on a clean line and in step with
\* the controller.
LineInv ==
    op # "none" =>
        /\ Fits(todo, op)
        /\ todo = <<>> => protocol = Leaves(op) /\ ~dirty
        /\ todo # <<>> /\ todo[1] # "eot" => protocol = Expects(todo[1]) /\ ~dirty

\* Plain reads run in their verified mode, and outside procedures a verified mode is true.
ModeInv ==
    /\ op = "gfa" => mode = "VS1_VERIFIED" /\ phase = mode
    /\ op \in {"ram", "identity"} => mode = "P300_VERIFIED" /\ phase = mode
    /\ VerifiedIsTrue

\* A closed session runs nothing, and the recovery counts.
StageInv ==
    /\ stage = "closed" => op = "none"
    /\ recoveries = IF attempted THEN 1 ELSE 0

SessionInv == CoordinatorTypeOK /\ FramesFit /\ LineInv /\ ModeInv /\ StageInv /\ CleanExitInVs1

\* The two halves of CoordinatorTypeOK: what the wire changes, and what the session does.
WireType ==
    /\ protocol \in {"VS1", "SYNC", "P300"}
    /\ mode \in Modes /\ phase \in Phases
    /\ op \in {"none"} \cup ToVs1 \cup ToP300 \cup Reads
    /\ todo \in Seq(Frames)
    /\ dirty \in BOOLEAN /\ misfit \in BOOLEAN

SessionType ==
    /\ attempted \in BOOLEAN /\ borrowed \in BOOLEAN
    /\ stage \in Stages
    /\ report \in {"none", "restored", "restore_failed", "refused", "enter_failed"}
    /\ recoveries \in Nat

-----------------------------------------------------------------------------
\* A new program is outside every session.
LEMMA InitSessionInv == CoordinatorInit => SessionInv
  <1> SUFFICES ASSUME CoordinatorInit PROVE SessionInv
    OBVIOUS
  <1>1. CoordinatorTypeOK
    <2>1. protocol \in {"VS1", "SYNC", "P300"} /\ mode \in Modes /\ phase \in Phases /\ stage \in Stages
      BY DEF CoordinatorInit, Modes, Phases, Stages
    <2>2. attempted \in BOOLEAN /\ borrowed \in BOOLEAN /\ dirty \in BOOLEAN /\ misfit \in BOOLEAN
      BY DEF CoordinatorInit
    <2>3. /\ op \in {"none"} \cup ToVs1 \cup ToP300 \cup Reads
          /\ todo \in Seq(Frames)
          /\ report \in {"none", "restored", "restore_failed", "refused", "enter_failed"}
          /\ recoveries \in Nat
      BY DEF CoordinatorInit
    <2>4. QED
      BY <2>1, <2>2, <2>3 DEF CoordinatorTypeOK
  <1>2. FramesFit /\ LineInv /\ ModeInv /\ StageInv /\ CleanExitInVs1
    BY DEF CoordinatorInit, FramesFit, LineInv, ModeInv, VerifiedIsTrue, StageInv, CleanExitInVs1
  <1>3. QED
    BY <1>1, <1>2 DEF SessionInv

\* Every script is a list of fitting frames that begins with EOT or is one frame.
LEMMA ScriptFits ==
    ASSUME NEW o \in ToVs1 \cup ToP300 \cup Reads
    PROVE  /\ Fits(Script(o), o) /\ Script(o) # <<>>
           /\ Script(o)[1] = CASE o \in {"vs1_attached", "gfa"} -> "read"
                               [] o = "ram"                     -> "ram"
                               [] o = "identity"                -> "ident"
                               [] OTHER                         -> "eot"
  <1> DEFINE s == Script(o)
  <1> USE DEF Successors, Speaks, Leaves, ToP300, Reads
  <1>1. CASE o \in {"vs1_two_enq", "vs1_recovery"}
    <2>1. s = <<"eot", "enq", "enq", "vs1_id", "read">>
      BY <1>1 DEF Script
    <2>2. s \in Seq(Frames) /\ Len(s) = 5 /\ s # <<>> /\ s[1] = "eot" /\ s[5] = "read"
      BY <2>1 DEF Frames
    <2>3. \A i \in 1 .. 5 : i < 5 => s[i + 1] \in Successors(s[i])
      BY <2>1
    <2>4. QED
      BY <1>1, <2>2, <2>3 DEF Fits
  <1>2. CASE o = "vs1_fast"
    <2>1. s = <<"eot", "enq", "vs1_id", "read">>
      BY <1>2 DEF Script
    <2>2. s \in Seq(Frames) /\ Len(s) = 4 /\ s # <<>> /\ s[1] = "eot" /\ s[4] = "read"
      BY <2>1 DEF Frames
    <2>3. \A i \in 1 .. 4 : i < 4 => s[i + 1] \in Successors(s[i])
      BY <2>1
    <2>4. QED
      BY <1>2, <2>2, <2>3 DEF Fits
  <1>3. CASE o = "vs1_early"
    <2>1. s = <<"eot", "vs1_id", "read">>
      BY <1>3 DEF Script
    <2>2. s \in Seq(Frames) /\ Len(s) = 3 /\ s # <<>> /\ s[1] = "eot" /\ s[3] = "read"
      BY <2>1 DEF Frames
    <2>3. \A i \in 1 .. 3 : i < 3 => s[i + 1] \in Successors(s[i])
      BY <2>1
    <2>4. QED
      BY <1>3, <2>2, <2>3 DEF Fits
  <1>4. CASE o \in {"vs1_attached", "gfa"}
    <2>1. s = <<"read">>
      BY <1>4 DEF Script
    <2>2. s \in Seq(Frames) /\ Len(s) = 1 /\ s # <<>> /\ s[1] = "read" /\ s[1] = "read"
      BY <2>1 DEF Frames
    <2>3. \A i \in 1 .. 1 : i < 1 => s[i + 1] \in Successors(s[i])
      BY <2>1
    <2>4. QED
      BY <1>4, <2>2, <2>3 DEF Fits
  <1>5. CASE o = "p300"
    <2>1. s = <<"eot", "enq", "start", "ident">>
      BY <1>5 DEF Script
    <2>2. s \in Seq(Frames) /\ Len(s) = 4 /\ s # <<>> /\ s[1] = "eot" /\ s[4] = "ident"
      BY <2>1 DEF Frames
    <2>3. \A i \in 1 .. 4 : i < 4 => s[i + 1] \in Successors(s[i])
      BY <2>1
    <2>4. QED
      BY <1>5, <2>2, <2>3 DEF Fits
  <1>6. CASE o = "p300_early"
    <2>1. s = <<"eot", "start", "ident">>
      BY <1>6 DEF Script
    <2>2. s \in Seq(Frames) /\ Len(s) = 3 /\ s # <<>> /\ s[1] = "eot" /\ s[3] = "ident"
      BY <2>1 DEF Frames
    <2>3. \A i \in 1 .. 3 : i < 3 => s[i + 1] \in Successors(s[i])
      BY <2>1
    <2>4. QED
      BY <1>6, <2>2, <2>3 DEF Fits
  <1>7. CASE o = "ram"
    <2>1. s = <<"ram">>
      BY <1>7 DEF Script
    <2>2. s \in Seq(Frames) /\ Len(s) = 1 /\ s # <<>> /\ s[1] = "ram" /\ s[1] = "ram"
      BY <2>1 DEF Frames
    <2>3. \A i \in 1 .. 1 : i < 1 => s[i + 1] \in Successors(s[i])
      BY <2>1
    <2>4. QED
      BY <1>7, <2>2, <2>3 DEF Fits
  <1>8. CASE o = "identity"
    <2>1. s = <<"ident">>
      BY <1>8 DEF Script
    <2>2. s \in Seq(Frames) /\ Len(s) = 1 /\ s # <<>> /\ s[1] = "ident" /\ s[1] = "ident"
      BY <2>1 DEF Frames
    <2>3. \A i \in 1 .. 1 : i < 1 => s[i + 1] \in Successors(s[i])
      BY <2>1
    <2>4. QED
      BY <1>8, <2>2, <2>3 DEF Fits
  <1>9. QED
    BY <1>1, <1>2, <1>3, <1>4, <1>5, <1>6, <1>7, <1>8 DEF ToVs1

\* So is what is left of it after a frame.
LEMMA TailFits ==
    ASSUME NEW o, NEW frames, Fits(frames, o), frames # <<>>
    PROVE  /\ Fits(Tail(frames), o)
           /\ Head(frames) \in Frames /\ Head(frames) = frames[1]
           /\ Tail(frames) = <<>> => Speaks(Head(frames)) = Leaves(o)
           /\ Tail(frames) # <<>> => Tail(frames)[1] \in Successors(Head(frames))
           /\ o \in Reads => Len(frames) = 1
  <1> DEFINE rest == Tail(frames)
  <1>1. frames \in Seq(Frames) /\ Head(frames) = frames[1] /\ Head(frames) \in Frames /\ Len(frames) > 0
    BY DEF Fits
  <1>2. /\ rest \in Seq(Frames) /\ Len(rest) = Len(frames) - 1
        /\ \A i \in 1 .. Len(rest) : rest[i] = frames[i + 1]
    BY <1>1
  <1>3. \A i \in 1 .. Len(rest) : i < Len(rest) => rest[i + 1] \in Successors(rest[i])
    BY <1>1, <1>2 DEF Fits
  <1>4. rest # <<>> => Len(rest) > 0 /\ rest[Len(rest)] = frames[Len(frames)] /\ rest[1] = frames[2]
    BY <1>1, <1>2
  <1>5. rest = <<>> => Len(frames) = 1
    BY <1>2
  <1>6. Fits(rest, o)
    BY <1>1, <1>2, <1>3, <1>4 DEF Fits
  <1>7. QED
    BY <1>1, <1>4, <1>5, <1>6, <1>2 DEF Fits

-----------------------------------------------------------------------------
\* A procedure that its caller may start begins in step with the controller.
LEMMA StartInv ==
    ASSUME SessionInv, NEW o \in ToVs1 \cup ToP300 \cup Reads, Start(o),
           o = "gfa" => mode = "VS1_VERIFIED" /\ op = "none",
           o \in {"ram", "identity"} => mode = "P300_VERIFIED" /\ op = "none",
           o = "vs1_attached" => protocol = "VS1" /\ ~dirty
    PROVE  WireType' /\ FramesFit' /\ LineInv' /\ ModeInv' /\ op' = o /\ op' # "none"
  <1>1. op' = o /\ o # "none"
    BY DEF Start, ToVs1, ToP300, Reads
  <1>2. /\ Fits(todo', o) /\ todo' # <<>>
        /\ todo'[1] = CASE o \in {"vs1_attached", "gfa"} -> "read"
                        [] o = "ram"                     -> "ram"
                        [] o = "identity"                -> "ident"
                        [] OTHER                         -> "eot"
    BY ScriptFits DEF Start
  <1>3. protocol' = protocol /\ dirty' = dirty /\ misfit' = misfit
    BY DEF Start
  <1>4. WireType'
    <2>1. mode' \in Modes
      BY DEF Start, SessionInv, CoordinatorTypeOK, Modes
    <2>2. phase' \in Phases
      BY DEF Start, SessionInv, CoordinatorTypeOK, Phases
    <2>3. QED
      BY <1>1, <1>2, <1>3, <2>1, <2>2 DEF WireType, SessionInv, CoordinatorTypeOK, Fits
  <1>5. ModeInv'
    BY <1>1, <1>3 DEF ModeInv, VerifiedIsTrue, Start, Reads, SessionInv
  <1>6. LineInv'
    <2>1. o \in {"gfa", "ram", "identity"} => protocol = Leaves(o) /\ ~dirty
      BY DEF SessionInv, ModeInv, VerifiedIsTrue, Leaves, ToP300
    <2>2. todo'[1] # "eot" => protocol' = Expects(todo'[1]) /\ ~dirty'
      BY <1>2, <1>3, <2>1 DEF Expects, Speaks, Leaves, ToP300
    <2>3. QED
      BY <1>1, <1>2, <2>2 DEF LineInv
  <1>7. QED
    BY <1>1, <1>3, <1>4, <1>5, <1>6 DEF FramesFit, SessionInv

\* The recovery needs nothing of the state before it.
LEMMA RecoveryInv ==
    ASSUME SessionInv, StartRecovery, ~attempted
    PROVE  /\ WireType' /\ FramesFit' /\ LineInv' /\ ModeInv' /\ op' # "none"
           /\ attempted' = TRUE /\ recoveries' = 1
  <1>1. Start("vs1_recovery") /\ "vs1_recovery" \in ToVs1 \cup ToP300 \cup Reads
    BY DEF StartRecovery, ToVs1
  <1>2. WireType' /\ FramesFit' /\ LineInv' /\ ModeInv' /\ op' # "none"
    BY <1>1, StartInv
  <1>3. recoveries = 0
    BY DEF SessionInv, StageInv
  <1>4. QED
    BY <1>2, <1>3 DEF StartRecovery

-----------------------------------------------------------------------------
\* The wire: an answer, the end of a procedure, a failure.

\* A frame that is answered leaves the controller as the next one expects it.
LEMMA ExchangedInv ==
    ASSUME SessionInv, Exchanged
    PROVE  SessionInv'
  <1> DEFINE f == Head(todo)
  <1>1. op \in ToVs1 \cup ToP300 \cup Reads /\ op' = op
    BY DEF Exchanged, SessionInv, CoordinatorTypeOK
  <1>2. /\ Fits(todo', op) /\ todo' = Tail(todo)
        /\ f \in Frames /\ f = todo[1] /\ todo # <<>>
        /\ todo' = <<>> => Speaks(f) = Leaves(op)
        /\ todo' # <<>> => todo'[1] \in Successors(f)
        /\ op \in Reads => Len(todo) = 1
    BY TailFits DEF Exchanged, SessionInv, LineInv
  <1>3. protocol' = Speaks(f) /\ protocol' = After(f) /\ dirty' = (dirty /\ f # "eot")
    BY DEF Exchanged
  <1>4. f # "eot" => protocol = Expects(f) /\ ~dirty
    BY <1>2 DEF Exchanged, SessionInv, LineInv
  <1>5. ~dirty'
    BY <1>3, <1>4
  <1>6. FramesFit'
    <2>1. f \in {"read", "ident", "ram"} => ~dirty /\ protocol = Speaks(f)
      BY <1>4 DEF Expects
    <2>2. QED
      BY <2>1 DEF Exchanged, FramesFit, SessionInv
  <1>7. LineInv'
    <2>1. todo' # <<>> /\ todo'[1] # "eot" => protocol' = Expects(todo'[1])
      BY <1>2, <1>3 DEF Frames, Successors, Expects, Speaks
    <2>2. QED
      BY <1>1, <1>2, <1>3, <1>5, <2>1 DEF LineInv
  <1>8. ModeInv'
    <2>1. op # "none"
      BY DEF Exchanged
    <2>2. mode' = mode
      BY DEF Exchanged, object
    <2>3. op \in Reads => phase' = phase
      <3>1. op \in Reads => Len(todo) = 1
        BY <1>2
      <3>2. ~(1 > 1)
        OBVIOUS
      <3>3. op \in Reads => ~(Len(todo) > 1)
        BY <3>1, <3>2
      <3>4. QED
        BY <3>3 DEF Exchanged
    <2>4. QED
      BY <1>1, <2>1, <2>2, <2>3 DEF ModeInv, VerifiedIsTrue, SessionInv, Reads
  <1>9. CoordinatorTypeOK'
    <2>1. protocol' \in {"VS1", "SYNC", "P300"}
      BY <1>2, <1>3 DEF Speaks, Frames
    <2>2. phase' \in Phases
      BY DEF Exchanged, SessionInv, CoordinatorTypeOK, Phases
    <2>3. dirty' \in BOOLEAN /\ misfit' \in BOOLEAN
      BY <1>5, <1>6 DEF FramesFit, Exchanged
    <2>4. /\ mode' \in Modes /\ attempted' \in BOOLEAN /\ borrowed' \in BOOLEAN
          /\ stage' \in Stages /\ recoveries' \in Nat
          /\ report' \in {"none", "restored", "restore_failed", "refused", "enter_failed"}
      BY DEF Exchanged, object, SessionInv, CoordinatorTypeOK
    <2>5. QED
      BY <1>1, <1>2, <2>1, <2>2, <2>3, <2>4 DEF CoordinatorTypeOK, Fits, SessionInv
  <1>10. StageInv' /\ CleanExitInVs1'
    BY DEF Exchanged, object, StageInv, CleanExitInVs1, SessionInv
  <1>11. QED
    BY <1>6, <1>7, <1>8, <1>9, <1>10 DEF SessionInv

\* A procedure that has all its answers is in the mode it claims.
LEMMA CompletedInv ==
    ASSUME SessionInv, Completed, UNCHANGED stage
    PROVE  SessionInv'
  <1>1. /\ op \in ToVs1 \cup ToP300 \cup Reads /\ op' = "none" /\ stage # "closed"
        /\ protocol' = protocol /\ todo' = todo /\ dirty' = dirty /\ misfit' = misfit
        /\ borrowed' = borrowed /\ report' = report
    BY DEF Completed, SessionInv, CoordinatorTypeOK, StageInv
  <1>2. protocol = Leaves(op) /\ ~dirty
    BY DEF Completed, SessionInv, LineInv
  <1>3. op \in Reads =>
            /\ mode' = mode /\ phase' = phase /\ phase = mode
            /\ mode = IF op = "gfa" THEN "VS1_VERIFIED" ELSE "P300_VERIFIED"
    BY DEF Completed, SessionInv, ModeInv, Reads
  <1>4. op \notin Reads =>
            /\ mode' = IF op \in ToP300 THEN "P300_VERIFIED" ELSE "VS1_VERIFIED"
            /\ phase' = mode'
    BY DEF Completed
  <1>5. VerifiedIsTrue'
    BY <1>1, <1>2, <1>3, <1>4 DEF VerifiedIsTrue, Leaves, Reads, ToP300
  <1>6. /\ attempted' = (attempted /\ op \notin ToP300)
        /\ recoveries' = IF op \in ToP300 THEN 0 ELSE recoveries
        /\ attempted \in BOOLEAN /\ recoveries = IF attempted THEN 1 ELSE 0
    BY DEF Completed, SessionInv, CoordinatorTypeOK, StageInv
  <1>7. CoordinatorTypeOK'
    <2>1. mode' \in Modes
      BY <1>3, <1>4 DEF Modes
    <2>2. phase' \in Phases
      BY <1>3, <1>4 DEF Phases
    <2>3. attempted' \in BOOLEAN
      BY <1>6
    <2>4. recoveries' \in Nat
      BY <1>6
    <2>5. QED
      BY <1>1, <2>1, <2>2, <2>3, <2>4 DEF CoordinatorTypeOK, SessionInv
  <1>8. StageInv'
    BY <1>1, <1>6 DEF StageInv
  <1>9. FramesFit' /\ LineInv' /\ ModeInv' /\ CleanExitInVs1'
    BY <1>1, <1>5 DEF FramesFit, LineInv, ModeInv, CleanExitInVs1, SessionInv
  <1>10. QED
    BY <1>7, <1>8, <1>9 DEF SessionInv

\* A frame that fails takes the mode with it, and leaves the line to be cleaned.
LEMMA FailedInv ==
    ASSUME SessionInv, Failed, UNCHANGED stage
    PROVE  SessionInv'
  <1> DEFINE f == Head(todo)
  <1>1. /\ op \in ToVs1 \cup ToP300 \cup Reads /\ op' = "none" /\ stage # "closed"
        /\ todo' = <<>> /\ dirty' = TRUE
        /\ mode' = "FAILED_CLOSED" /\ phase' = "FAILED_CLOSED"
        /\ UNCHANGED <<attempted, borrowed, report, recoveries>>
    BY DEF Failed, SessionInv, CoordinatorTypeOK, StageInv
  <1>2. f \in Frames /\ f = todo[1] /\ todo # <<>>
    BY TailFits DEF Failed, SessionInv, LineInv
  <1>3. f # "eot" => protocol = Expects(f) /\ ~dirty
    BY <1>2 DEF Failed, SessionInv, LineInv
  <1>4. protocol' \in {"VS1", "SYNC", "P300"}
    BY DEF Failed, After, SessionInv, CoordinatorTypeOK
  <1>5. misfit' = FALSE
    <2>1. f \in {"read", "ident", "ram"} => ~dirty /\ protocol = Speaks(f)
      BY <1>3 DEF Expects
    <2>2. QED
      BY <2>1 DEF Failed, FramesFit, SessionInv, CoordinatorTypeOK
  <1>6. CoordinatorTypeOK'
    <2>1. mode' \in Modes /\ phase' \in Phases
      BY <1>1 DEF Modes, Phases
    <2>2. todo' \in Seq(Frames)
      BY <1>1
    <2>3. QED
      BY <1>1, <1>4, <1>5, <2>1, <2>2 DEF CoordinatorTypeOK, SessionInv
  <1>7. FramesFit' /\ LineInv' /\ ModeInv' /\ StageInv' /\ CleanExitInVs1'
    BY <1>1, <1>5
       DEF FramesFit, LineInv, ModeInv, VerifiedIsTrue, StageInv, CleanExitInVs1, SessionInv
  <1>8. QED
    BY <1>6, <1>7 DEF SessionInv

-----------------------------------------------------------------------------
\* The session.

\* A step that starts a procedure, once its wire part is known.
LEMMA StartedInv ==
    ASSUME SessionInv, WireType', FramesFit', LineInv', ModeInv', op' # "none",
           attempted' \in BOOLEAN, borrowed' \in BOOLEAN,
           stage' \in Stages \ {"closed"},
           UNCHANGED report,
           recoveries' = IF attempted' THEN 1 ELSE 0
    PROVE  SessionInv'
  <1>1. recoveries' \in Nat
    OBVIOUS
  <1>2. CoordinatorTypeOK'
    BY <1>1 DEF CoordinatorTypeOK, WireType, SessionInv
  <1>3. StageInv' /\ CleanExitInVs1'
    BY DEF StageInv, CleanExitInVs1
  <1>4. QED
    BY <1>2, <1>3 DEF SessionInv

\* A step between two procedures that leaves the wire alone.
LEMMA WaitingInv ==
    ASSUME SessionInv, op = "none",
           UNCHANGED <<protocol, phase, op, todo, dirty, misfit, attempted, borrowed, recoveries>>,
           mode' \in {mode, "DETACHED", "FAILED_CLOSED"},
           stage' \in Stages,
           report' \in {report, "restored", "restore_failed", "refused", "enter_failed"},
           stage' = "closed" /\ report' = "restored" => protocol = "VS1" /\ ~dirty
    PROVE  SessionInv'
  <1>1. CoordinatorTypeOK'
    <2>1. mode' \in Modes
      BY DEF SessionInv, CoordinatorTypeOK, Modes
    <2>2. report' \in {"none", "restored", "restore_failed", "refused", "enter_failed"}
      BY DEF SessionInv, CoordinatorTypeOK
    <2>3. QED
      BY <2>1, <2>2 DEF CoordinatorTypeOK, SessionInv
  <1>2. FramesFit' /\ LineInv' /\ ModeInv' /\ StageInv' /\ CleanExitInVs1'
    BY DEF FramesFit, LineInv, ModeInv, VerifiedIsTrue, StageInv, CleanExitInVs1, SessionInv
  <1>3. QED
    BY <1>1, <1>2 DEF SessionInv

\* Whatever a session does, it keeps the invariant: one case per action.
LEMMA SessionStepInv ==
    ASSUME SessionInv, Session
    PROVE  SessionInv'
  <1>1. ASSUME NEW borrow \in BOOLEAN, Enter(borrow) PROVE SessionInv'
    <2> DEFINE o == IF borrow THEN "vs1_attached" ELSE "vs1_two_enq"
    <2>1. o \in ToVs1 /\ Start(o)
      BY <1>1 DEF Enter, ToVs1
    <2>2. o = "vs1_attached" => protocol = "VS1" /\ ~dirty
      BY <1>1 DEF Enter
    <2>3. WireType' /\ FramesFit' /\ LineInv' /\ ModeInv' /\ op' # "none"
      BY <2>1, <2>2, StartInv
    <2>4. QED
      BY <1>1, <2>3, StartedInv DEF Enter, Stages
  <1>2. CASE Entered
    <2>1. stage' \in Stages /\ (mode # "VS1_VERIFIED" => report' = "enter_failed")
      BY <1>2 DEF Entered, Close, Stages
    <2>2. op = "none" /\ UNCHANGED <<protocol, phase, op, todo, dirty, misfit, mode, attempted, borrowed, recoveries>>
      BY <1>2 DEF Entered, wire, object
    <2>3. /\ report' \in {report, "enter_failed"}
          /\ ~(stage' = "closed" /\ report' = "restored")
      BY <1>2 DEF Entered, Close
    <2>4. QED
      BY <2>1, <2>2, <2>3, WaitingInv
  <1>3. CASE Exited
    <2>1. op = "none" /\ UNCHANGED <<protocol, phase, op, todo, dirty, misfit, attempted, borrowed, recoveries>>
      BY <1>3 DEF Exited, wire
    <2>2. /\ stage' \in Stages /\ mode' \in {"DETACHED", "FAILED_CLOSED"}
          /\ report' \in {"restored", "restore_failed"}
          /\ report' = "restored" => mode = "VS1_VERIFIED"
      BY <1>3 DEF Exited, Close, Stages
    <2>3. report' = "restored" => protocol = "VS1" /\ ~dirty
      BY <2>1, <2>2 DEF SessionInv, ModeInv, VerifiedIsTrue
    <2>4. QED
      BY <2>1, <2>2, <2>3, WaitingInv
  <1>4. CASE Exit
    <2>1. CASE mode = "VS1_VERIFIED"
      <3>1. op = "none" /\ UNCHANGED <<protocol, phase, op, todo, dirty, misfit, attempted, borrowed, recoveries>>
        BY <1>4, <2>1 DEF Exit, wire
      <3>2. stage' \in Stages /\ mode' = "DETACHED" /\ report' = "restored"
        BY <1>4, <2>1 DEF Exit, Close, Stages
      <3>3. protocol = "VS1" /\ ~dirty
        BY <2>1, <3>1 DEF SessionInv, ModeInv, VerifiedIsTrue
      <3>4. QED
        BY <3>1, <3>2, <3>3, WaitingInv
    <2>2. CASE mode # "VS1_VERIFIED" /\ ~attempted
      <3>1. StartRecovery /\ stage' = "exit" /\ UNCHANGED <<report, borrowed>>
        BY <1>4, <2>2 DEF Exit
      <3>2. /\ WireType' /\ FramesFit' /\ LineInv' /\ ModeInv' /\ op' # "none"
            /\ attempted' = TRUE /\ recoveries' = 1
        BY <2>2, <3>1, RecoveryInv
      <3>3. borrowed' \in BOOLEAN
        BY <3>1 DEF SessionInv, CoordinatorTypeOK
      <3>4. QED
        BY <3>1, <3>2, <3>3, StartedInv DEF Stages
    <2>3. CASE mode # "VS1_VERIFIED" /\ attempted
      <3>1. op = "none" /\ UNCHANGED <<protocol, phase, op, todo, dirty, misfit, attempted, borrowed, recoveries>>
        BY <1>4, <2>3 DEF Exit, wire
      <3>2. stage' \in Stages /\ mode' = "FAILED_CLOSED" /\ report' = "refused"
        BY <1>4, <2>3 DEF Exit, Close, Stages
      <3>3. QED
        BY <3>1, <3>2, WaitingInv
    <2>4. QED
      BY <2>1, <2>2, <2>3 DEF SessionInv, CoordinatorTypeOK
  <1>5. ASSUME NEW o \in ToVs1 \cup ToP300 \cup Reads, Call(o) PROVE SessionInv'
    <2>1. Start(o) /\ op = "none" /\ UNCHANGED <<attempted, borrowed, stage, report, recoveries>>
      BY <1>5 DEF Call
    <2>2. /\ o = "gfa" => mode = "VS1_VERIFIED"
          /\ o \in {"ram", "identity"} => mode = "P300_VERIFIED"
          /\ o # "vs1_attached"
      BY <1>5 DEF Call, ToP300
    <2>3. WireType' /\ FramesFit' /\ LineInv' /\ ModeInv' /\ op' # "none"
      BY <2>1, <2>2, StartInv
    <2>4. stage' \in Stages \ {"closed"}
      BY <1>5, <2>1 DEF Call, Stages, WindowStages
    <2>5. /\ attempted' \in BOOLEAN /\ borrowed' \in BOOLEAN
          /\ recoveries' = IF attempted' THEN 1 ELSE 0
      BY <2>1 DEF SessionInv, CoordinatorTypeOK, StageInv
    <2>6. QED
      BY <2>1, <2>3, <2>4, <2>5, StartedInv
  <1>6. CASE CallRestore
    <2>1. StartRecovery /\ ~attempted /\ UNCHANGED <<borrowed, stage, report>>
      BY <1>6 DEF CallRestore
    <2>2. /\ WireType' /\ FramesFit' /\ LineInv' /\ ModeInv' /\ op' # "none"
          /\ attempted' = TRUE /\ recoveries' = 1
      BY <2>1, RecoveryInv
    <2>3. stage' \in Stages \ {"closed"} /\ borrowed' \in BOOLEAN
      BY <1>6, <2>1 DEF CallRestore, SessionInv, CoordinatorTypeOK
    <2>4. QED
      BY <2>1, <2>2, <2>3, StartedInv
  <1>7. CASE OpenWindow
    <2>1. Start("p300") /\ stage' = "win_enter" /\ UNCHANGED <<attempted, borrowed, report, recoveries>>
      BY <1>7 DEF OpenWindow
    <2>2. WireType' /\ FramesFit' /\ LineInv' /\ ModeInv' /\ op' # "none"
      BY <2>1, StartInv DEF ToP300
    <2>3. /\ attempted' \in BOOLEAN /\ borrowed' \in BOOLEAN
          /\ recoveries' = IF attempted' THEN 1 ELSE 0
      BY <2>1 DEF SessionInv, CoordinatorTypeOK, StageInv
    <2>4. QED
      BY <2>1, <2>2, <2>3, StartedInv DEF Stages, WindowStages
  <1>8. CASE RunCallback
    <2>1. /\ op = "none" /\ stage' = "win_body"
          /\ UNCHANGED <<protocol, phase, op, todo, dirty, misfit, mode, attempted, borrowed, recoveries, report>>
      BY <1>8 DEF RunCallback, wire, object
    <2>2. QED
      BY <2>1, WaitingInv DEF Stages, WindowStages
  <1>9. CASE Finally
    <2>1. CASE mode = "P300_VERIFIED"
      <3>1. Start("vs1_fast") /\ stage' = "win_fast" /\ UNCHANGED <<attempted, borrowed, report, recoveries>>
        BY <1>9, <2>1 DEF Finally
      <3>2. WireType' /\ FramesFit' /\ LineInv' /\ ModeInv' /\ op' # "none"
        BY <3>1, StartInv DEF ToVs1
      <3>3. /\ attempted' \in BOOLEAN /\ borrowed' \in BOOLEAN
            /\ recoveries' = IF attempted' THEN 1 ELSE 0
        BY <3>1 DEF SessionInv, CoordinatorTypeOK, StageInv
      <3>4. QED
        BY <3>1, <3>2, <3>3, StartedInv DEF Stages, WindowStages
    <2>2. CASE mode = "FAILED_CLOSED" /\ ~attempted
      <3>1. StartRecovery /\ stage' = "win_restore" /\ UNCHANGED <<report, borrowed>>
        BY <1>9, <2>2 DEF Finally
      <3>2. /\ WireType' /\ FramesFit' /\ LineInv' /\ ModeInv' /\ op' # "none"
            /\ attempted' = TRUE /\ recoveries' = 1
        BY <2>2, <3>1, RecoveryInv
      <3>3. borrowed' \in BOOLEAN
        BY <3>1 DEF SessionInv, CoordinatorTypeOK
      <3>4. QED
        BY <3>1, <3>2, <3>3, StartedInv DEF Stages, WindowStages
    <2>3. CASE mode = "VS1_VERIFIED" \/ (mode = "FAILED_CLOSED" /\ attempted)
      <3>1. /\ op = "none" /\ stage' = "user"
            /\ UNCHANGED <<protocol, phase, op, todo, dirty, misfit, mode, attempted, borrowed, recoveries, report>>
        BY <1>9, <2>3 DEF Finally, wire
      <3>2. QED
        BY <3>1, WaitingInv DEF Stages
    <2>4. QED
      BY <1>9, <2>1, <2>2, <2>3 DEF Finally
  <1>10. QED
    BY <1>1, <1>2, <1>3, <1>4, <1>5, <1>6, <1>7, <1>8, <1>9 DEF Session

\* SessionInv is inductive.
LEMMA NextSessionInv == SessionInv /\ [CoordinatorNext]_coordinatorVars => SessionInv'
  <1> SUFFICES ASSUME SessionInv, [CoordinatorNext]_coordinatorVars PROVE SessionInv'
    OBVIOUS
  <1>1. CASE Wire
    BY <1>1, ExchangedInv, CompletedInv, FailedInv DEF Wire
  <1>2. CASE Session
    BY <1>2, SessionStepInv
  <1>3. CASE UNCHANGED coordinatorVars
    BY <1>3
       DEF coordinatorVars, wire, object, SessionInv, CoordinatorTypeOK, FramesFit, LineInv,
           ModeInv, VerifiedIsTrue, StageInv, CleanExitInVs1
  <1>4. QED
    BY <1>1, <1>2, <1>3 DEF CoordinatorNext

\* The invariant of the coordinator.
LEMMA SpecSessionInv == CoordinatorSpec => []SessionInv
  BY InitSessionInv, NextSessionInv, PTL DEF CoordinatorSpec

-----------------------------------------------------------------------------
\* For every sequence of calls and failures: no frame meets the wrong protocol or a
\* dirty line, and the conservative recovery runs once at most (restore_vs1).
THEOREM CoordinatorSafe == CoordinatorSpec => []CoordinatorInv
  <1>1. SessionInv => CoordinatorInv
    BY DEF SessionInv, StageInv, CoordinatorInv, OneRecovery
  <1>2. QED
    BY <1>1, SpecSessionInv, PTL

\* A verified mode is always true of the controller (to_p300, _verify_vs1, gfa_read).
THEOREM ModesAreTrue == CoordinatorSpec => []VerifiedIsTrue
  <1>1. SessionInv => VerifiedIsTrue
    BY DEF SessionInv, ModeInv
  <1>2. QED
    BY <1>1, SpecSessionInv, PTL

\* A session that ends without an error ends in VS1, on a clean line (__exit__).
THEOREM SessionsEndInVs1 == CoordinatorSpec => []CleanExitInVs1
  <1>1. SessionInv => CleanExitInVs1
    BY DEF SessionInv
  <1>2. QED
    BY <1>1, SpecSessionInv, PTL

\* The way back from a window to its caller is verified VS1 or failed closed with the
\* recovery used up (p300_window).
THEOREM WindowsLeaveP300 == CoordinatorSpec => WindowLeavesP300
  <1> DEFINE Returns == (stage \in WindowStages /\ stage' = "user") =>
                        (mode' = "VS1_VERIFIED" \/ (mode' = "FAILED_CLOSED" /\ attempted'))
  <1>1. [CoordinatorNext]_coordinatorVars => [Returns]_coordinatorVars
    <2> SUFFICES ASSUME CoordinatorNext PROVE Returns
      OBVIOUS
    <2> USE DEF WindowStages
    <2>1. CASE Wire
      BY <2>1 DEF Wire, Exchanged
    <2>2. CASE \E borrow \in BOOLEAN : Enter(borrow)
      BY <2>2 DEF Enter
    <2>3. CASE Entered \/ Exited \/ Exit
      BY <2>3 DEF Entered, Exited, Exit
    <2>4. CASE \E o \in ToVs1 \cup ToP300 \cup Reads : Call(o)
      BY <2>4 DEF Call
    <2>5. CASE CallRestore \/ OpenWindow \/ RunCallback
      BY <2>5 DEF CallRestore, OpenWindow, RunCallback
    <2>6. CASE Finally
      BY <2>6 DEF Finally, wire
    <2>7. QED
      BY <2>1, <2>2, <2>3, <2>4, <2>5, <2>6 DEF CoordinatorNext, Session
  <1>2. QED
    BY <1>1, PTL DEF CoordinatorSpec, WindowLeavesP300

-----------------------------------------------------------------------------
\* The main loop.  RuntimeInv is the inductive invariant.  Its core is the place of each
\* readback ticket, asleep, queued or in flight, but never at two of them.

\* The number of tickets the delayed readbacks so far have been given.
Issued == sets * Readbacks - delaysLeft

\* A ticket is new when it is issued, and it is in one place at a time.
TicketsInv ==
    /\ Issued \in 0 .. MaxSets * Readbacks
    /\ \A t \in timers \cup ToSet(forcedQ) : t <= Issued
    /\ inflight <= Issued
    /\ Distinct(forcedQ)
    /\ timers \cap ToSet(forcedQ) = {}
    /\ inflight # 0 => inflight \notin timers \cup ToSet(forcedQ)

\* A missed readback is known to the ledger.
LedgerKnows == LedgerIsExact /\ (missed => ledgerFailed)

\* The freeze holds the mutex, and a callback that still starts workers does, too.
MutexInv ==
    /\ mutex = "mqtt" <=> delaysLeft > 0
    /\ pc \in {"fence", "decide", "window"} => mutex = "main"

\* A write nobody has read back is known to the gate.
GateInv ==
    unproved # "none" => opaque \/ (unproved \in Values /\ unread[unproved] > 0)

WindowInv == WindowQuiet /\ WindowNeedsReadback /\ MissedReadbackIsFinal

RuntimeInv == TypeOK /\ TicketsInv /\ LedgerKnows /\ MutexInv /\ GateInv /\ WindowInv

-----------------------------------------------------------------------------
\* The bound on the numbers of tickets, set by set.
LEMMA Product ==
    ASSUME NEW n \in 0 .. MaxSets
    PROVE  /\ n * Readbacks \in Nat /\ n * Readbacks <= MaxSets * Readbacks
           /\ (n + 1) * Readbacks = n * Readbacks + Readbacks
           /\ MaxSets * Readbacks \in Nat
  <1>1. n \in Nat /\ MaxSets \in Nat /\ Readbacks \in Nat /\ n <= MaxSets
    BY RuntimeAssumption
  <1>2. PICK d \in Nat : MaxSets = n + d
    <2>1. MaxSets - n \in Nat /\ MaxSets = n + (MaxSets - n)
      BY <1>1
    <2>2. QED
      BY <2>1
  <1>3. MaxSets * Readbacks = n * Readbacks + d * Readbacks
    BY <1>1, <1>2
  <1>4. n * Readbacks \in Nat /\ d * Readbacks \in Nat
    BY <1>1, <1>2
  <1>5. QED
    BY <1>1, <1>3, <1>4

\* With fewer left to give, more are given.
LEMMA FewerLeft ==
    ASSUME NEW given \in Nat, NEW all \in Nat, NEW left \in Nat, NEW fewer \in Nat,
           given <= all, fewer < left, given - left \in Nat
    PROVE  given - fewer \in 0 .. all /\ given - left < given - fewer
  OBVIOUS

\* Tickets are numbers, and none of them is 0.
LEMMA TicketNumbers == Tickets \subseteq Nat \ {0}
  BY Product, RuntimeAssumption DEF Tickets

\* A new process knows of no request.
LEMMA InitRuntimeInv == Init => RuntimeInv
  <1> SUFFICES ASSUME Init PROVE RuntimeInv
    OBVIOUS
  <1>1. ToSet(forcedQ) = {} /\ forcedQ = <<>>
    <2>1. forcedQ = <<>> /\ forcedQ \in Seq({})
      BY DEF Init
    <2>2. QED
      BY <2>1, Members
  <1>2. TypeOK
    <2>1. mqttQ \in Seq(Requests) /\ tcpQ \in Seq(Requests) /\ forcedQ \in Seq(Tickets \cup {Naked})
      BY DEF Init
    <2>2. Len(tcpQ) <= MaxTcp
      BY RuntimeAssumption DEF Init
    <2>3. unread \in [Values -> Nat]
      BY DEF Init
    <2>4. delaysLeft \in 0 .. Readbacks /\ sets \in 0 .. MaxSets /\ commands \in 0 .. MaxCommands
      BY RuntimeAssumption DEF Init
    <2>5. QED
      BY <2>1, <2>2, <2>3, <2>4 DEF Init, TypeOK
  <1>3. TicketsInv
    <2>1. Issued = 0 /\ 0 \in 0 .. MaxSets * Readbacks
      BY Product, RuntimeAssumption DEF Init, Issued
    <2>2. QED
      BY <1>1, <2>1 DEF Init, TicketsInv, Distinct
  <1>4. LedgerKnows /\ MutexInv /\ GateInv /\ WindowInv
    BY <1>1
       DEF Init, LedgerKnows, LedgerIsExact, MutexInv, GateInv, WindowInv, WindowQuiet,
           WindowNeedsReadback, MissedReadbackIsFinal
  <1>5. QED
    BY <1>2, <1>3, <1>4 DEF RuntimeInv

-----------------------------------------------------------------------------
\* The other threads.

\* A request arrives: only the queues change, and no window is open.
LEMMA ArrivalInv ==
    ASSUME RuntimeInv, NEW r \in Requests, MqttCommand(r) \/ TcpReceive(r)
    PROVE  RuntimeInv'
  <1> USE DEF refresh, gate, tick
  <1>1. TypeOK'
    <2>1. CASE MqttCommand(r)
      <3>1. mqttQ' \in Seq(Requests)
        BY <2>1, AppendMembers DEF MqttCommand, RuntimeInv, TypeOK
      <3>2. commands' \in 0 .. MaxCommands
        BY <2>1, RuntimeAssumption DEF MqttCommand, RuntimeInv, TypeOK
      <3>3. QED
        BY <2>1, <3>1, <3>2 DEF MqttCommand, RuntimeInv, TypeOK
    <2>2. CASE TcpReceive(r)
      <3>1. tcpQ \in Seq(Requests) /\ Len(tcpQ) \in Nat /\ Len(tcpQ) <= MaxTcp /\ MaxTcp \in Nat
        BY RuntimeAssumption DEF RuntimeInv, TypeOK
      <3>2. tcpQ' \in Seq(Requests) /\ Len(tcpQ') <= MaxTcp
        <4>1. CASE tcpQ' = tcpQ
          BY <3>1, <4>1
        <4>2. CASE ~(Len(tcpQ) >= MaxTcp) /\ tcpQ' = Append(tcpQ, r)
          <5>1. tcpQ' \in Seq(Requests) /\ Len(tcpQ') = Len(tcpQ) + 1
            BY <3>1, <4>2, AppendMembers
          <5>2. QED
            BY <3>1, <4>2, <5>1
        <4>3. QED
          BY <2>2, <4>1, <4>2 DEF TcpReceive
      <3>3. commands' \in 0 .. MaxCommands
        BY <2>2, RuntimeAssumption DEF TcpReceive, RuntimeInv, TypeOK
      <3>4. overflow' \in BOOLEAN
        BY <2>2 DEF TcpReceive, RuntimeInv, TypeOK
      <3>5. QED
        BY <2>2, <3>2, <3>3, <3>4 DEF TcpReceive, RuntimeInv, TypeOK
    <2>3. QED
      BY <2>1, <2>2
  <1>2. pc' = pc /\ pc # "window"
    BY DEF MqttCommand, TcpReceive, RuntimeInv, MutexInv
  <1>3. TicketsInv' /\ LedgerKnows' /\ MutexInv' /\ GateInv' /\ WindowInv'
    <2>1. UNCHANGED <<pc, mutex, refresh, gate, sets>>
      BY DEF MqttCommand, TcpReceive
    <2>2. QED
      BY <1>2, <2>1
         DEF RuntimeInv, TicketsInv, Issued, LedgerKnows, LedgerIsExact, MutexInv, GateInv,
             WindowInv, WindowQuiet, WindowNeedsReadback, MissedReadbackIsFinal
  <1>4. QED
    BY <1>1, <1>3 DEF RuntimeInv

\* A /set takes the mutex and announces its readbacks.
LEMMA MqttSetInv ==
    ASSUME RuntimeInv, NEW v \in Values, MqttSet(v)
    PROVE  RuntimeInv'
  <1> USE DEF gate, tick
  <1>1. /\ mqttQ' = Append(mqttQ, v) /\ delaysLeft' = Readbacks /\ sets' = sets + 1 /\ mutex' = "mqtt"
        /\ UNCHANGED <<pc, call, tcpQ, overflow, timers, forcedQ, ledger, inflight, ledgerFailed, missed,
                       gate, tick, ctl, commands>>
        /\ mutex = "free" /\ sets < MaxSets
    BY DEF MqttSet
  <1>2. /\ delaysLeft = 0 /\ Readbacks \in Nat /\ Readbacks > 0
        /\ sets \in 0 .. MaxSets /\ MaxSets \in Nat
        /\ pc \notin {"fence", "decide", "window"}
    BY <1>1, RuntimeAssumption DEF RuntimeInv, MutexInv, TypeOK
  <1>3. sets' \in 0 .. MaxSets /\ delaysLeft' \in 0 .. Readbacks
    BY <1>1, <1>2
  <1>4. TypeOK'
    <2>1. mqttQ' \in Seq(Requests)
      BY <1>1, AppendMembers DEF RuntimeInv, TypeOK, Requests
    <2>2. QED
      BY <1>1, <1>3, <2>1 DEF RuntimeInv, TypeOK
  <1>5. Issued' = Issued
    BY <1>1, <1>2, Product DEF Issued
  <1>6. TicketsInv'
    BY <1>1, <1>5 DEF TicketsInv, RuntimeInv
  <1>7. LedgerKnows' /\ MutexInv' /\ GateInv' /\ WindowInv'
    BY <1>1, <1>2
       DEF RuntimeInv, LedgerKnows, LedgerIsExact, MutexInv, GateInv, WindowInv, WindowQuiet,
           WindowNeedsReadback, MissedReadbackIsFinal
  <1>8. QED
    BY <1>4, <1>6, <1>7 DEF RuntimeInv

\* A worker is started with a ticket nobody had before, or the callback ends.
LEMMA ForceDelayedInv ==
    ASSUME RuntimeInv, ForceDelayed
    PROVE  RuntimeInv'
  <1> USE DEF queues, gate, tick, bounds
  <1>1. /\ UNCHANGED <<pc, call, queues, forcedQ, inflight, ledgerFailed, missed, gate, tick, ctl, bounds>>
        /\ mutex = "mqtt"
        /\ mutex' = IF delaysLeft' = 0 THEN "free" ELSE "mqtt"
    BY DEF ForceDelayed
  <1>2. /\ delaysLeft \in 1 .. Readbacks /\ Readbacks \in Nat
        /\ sets \in 0 .. MaxSets /\ sets * Readbacks \in Nat /\ sets * Readbacks <= MaxSets * Readbacks
        /\ MaxSets * Readbacks \in Nat
        /\ pc \notin {"fence", "decide", "window"}
        /\ Issued \in Nat
    BY <1>1, RuntimeAssumption, Product DEF RuntimeInv, MutexInv, TypeOK, TicketsInv
  <1>3. delaysLeft' \in 0 .. Readbacks /\ delaysLeft' < delaysLeft
    BY <1>2 DEF ForceDelayed
  <1>4. Issued' \in 0 .. MaxSets * Readbacks /\ Issued < Issued'
    <2>1. Issued = sets * Readbacks - delaysLeft /\ Issued' = sets * Readbacks - delaysLeft'
      BY <1>1 DEF Issued
    <2>2. delaysLeft \in Nat /\ delaysLeft' \in Nat
      BY <1>2, <1>3
    <2>3. QED
      BY <1>2, <1>3, <2>1, <2>2, FewerLeft
  <1>5. \/ /\ ledger' = ledger \cup {Ticket} /\ timers' = timers \cup {Ticket}
           /\ Ticket = Issued' /\ Ticket \in Tickets
        \/ UNCHANGED <<ledger, timers>>
    BY <1>1, <1>2, <1>4 DEF ForceDelayed, Ticket, Issued, Tickets
  <1>6. Ticket = Issued + 1
    BY <1>2 DEF Ticket, Issued
  <1>7. TypeOK'
    BY <1>1, <1>3, <1>5 DEF RuntimeInv, TypeOK
  <1>8. TicketsInv'
    <2>1. \A t \in timers \cup ToSet(forcedQ) : t \in Int /\ t <= Issued
      <3>1. ToSet(forcedQ) \subseteq Tickets \cup {Naked}
        BY Members DEF RuntimeInv, TypeOK
      <3>2. timers \subseteq Tickets
        BY DEF RuntimeInv, TypeOK
      <3>3. \A t \in timers \cup ToSet(forcedQ) : t <= Issued
        BY DEF RuntimeInv, TicketsInv
      <3>4. QED
        BY <3>1, <3>2, <3>3, TicketNumbers DEF Naked
    <2>2. inflight \in Int /\ inflight <= Issued
      BY TicketNumbers DEF RuntimeInv, TypeOK, TicketsInv
    <2>3. \A t \in timers' \cup ToSet(forcedQ) : t <= Issued'
      BY <1>2, <1>4, <1>5, <2>1
    <2>4. inflight <= Issued'
      BY <1>2, <1>4, <2>2
    <2>5. Ticket \notin timers \cup ToSet(forcedQ) /\ Ticket # inflight
      BY <1>2, <1>6, <2>1, <2>2
    <2>6. QED
      BY <1>1, <1>4, <1>5, <2>3, <2>4 DEF TicketsInv, RuntimeInv
  <1>9. LedgerKnows'
    BY <1>1, <1>5 DEF RuntimeInv, LedgerKnows, LedgerIsExact
  <1>10. MutexInv' /\ GateInv' /\ WindowInv'
    BY <1>1, <1>2, <1>3
       DEF RuntimeInv, MutexInv, GateInv, WindowInv, WindowQuiet, WindowNeedsReadback,
           MissedReadbackIsFinal
  <1>11. QED
    BY <1>7, <1>8, <1>9, <1>10 DEF RuntimeInv

\* A ticket goes from sleep into the queue.
LEMMA WorkerWakesInv ==
    ASSUME RuntimeInv, NEW t \in Tickets, WorkerWakes(t)
    PROVE  RuntimeInv'
  <1> USE DEF queues, gate, tick, bounds
  <1>1. /\ t \in timers /\ timers' = timers \ {t} /\ forcedQ' = Append(forcedQ, t)
        /\ UNCHANGED <<pc, call, mutex, queues, delaysLeft, ledger, inflight, ledgerFailed, missed,
                       gate, tick, ctl, bounds>>
    BY DEF WorkerWakes
  <1>2. /\ forcedQ' \in Seq(Tickets \cup {Naked})
        /\ ToSet(forcedQ') = ToSet(forcedQ) \cup {t}
        /\ t \notin ToSet(forcedQ) => Distinct(forcedQ')
    BY <1>1, AppendMembers DEF RuntimeInv, TypeOK, TicketsInv
  <1>3. t \notin ToSet(forcedQ) /\ t # 0 /\ pc # "window"
    BY <1>1, RuntimeAssumption DEF RuntimeInv, TicketsInv, Tickets, WindowInv, WindowQuiet
  <1>4. TypeOK'
    BY <1>1, <1>2 DEF RuntimeInv, TypeOK
  <1>5. TicketsInv'
    BY <1>1, <1>2, <1>3 DEF RuntimeInv, TicketsInv, Issued
  <1>6. LedgerKnows' /\ MutexInv' /\ GateInv' /\ WindowInv'
    BY <1>1, <1>2, <1>3
       DEF RuntimeInv, LedgerKnows, LedgerIsExact, Naked, MutexInv, GateInv, WindowInv, WindowQuiet,
           WindowNeedsReadback, MissedReadbackIsFinal
  <1>7. QED
    BY <1>4, <1>5, <1>6 DEF RuntimeInv

-----------------------------------------------------------------------------
\* Legacy requests of the main loop.

\* A request in the bridge: the gate notes a write before it is sent.
LEMMA ObserveInv ==
    ASSUME RuntimeInv, NEW r \in Requests, ObserveLegacy(r)
    PROVE  /\ GateInv'
           /\ unread' \in [Values -> Nat] /\ opaque' \in BOOLEAN /\ settled' \in BOOLEAN
           /\ unproved' \in Values \cup {Raw, "none"}
           /\ failedClosed' = failedClosed
  <1>1. /\ unread \in [Values -> Nat] /\ opaque \in BOOLEAN /\ settled \in BOOLEAN
        /\ unproved \in Values \cup {Raw, "none"}
    BY DEF RuntimeInv, TypeOK
  <1>2. unread' = (IF r \in Values THEN [unread EXCEPT ![r] = @ + 1] ELSE unread) /\ unread' \in [Values -> Nat]
    BY <1>1 DEF ObserveLegacy
  <1>3. opaque' = (opaque \/ r = Raw) /\ opaque' \in BOOLEAN
    BY <1>1 DEF ObserveLegacy
  <1>4. unproved' = (IF r = Read \/ unproved = Raw THEN unproved ELSE r) /\ unproved' \in Values \cup {Raw, "none"}
    BY <1>1 DEF ObserveLegacy, Requests
  <1>5. GateInv'
    <2>1. \A v \in Values : unread[v] \in Nat /\ unread'[v] \in Nat /\ unread[v] <= unread'[v]
      BY <1>1, <1>2
    <2>2. r \in Values => unread'[r] > 0
      BY <1>1, <1>2
    <2>3. CASE r = Read \/ unproved = Raw
      BY <1>1, <1>3, <1>4, <2>1, <2>3 DEF GateInv, RuntimeInv
    <2>4. CASE r = Raw /\ unproved # Raw
      BY <1>3, <2>4 DEF GateInv
    <2>5. CASE r \in Values /\ r # Read /\ unproved # Raw
      BY <1>4, <2>2, <2>5 DEF GateInv
    <2>6. QED
      BY <2>3, <2>4, <2>5 DEF Requests
  <1>6. QED
    BY <1>1, <1>2, <1>3, <1>4, <1>5 DEF ObserveLegacy

\* A request of a queue or of the poll list.
LEMMA TakeInv ==
    ASSUME RuntimeInv, NEW r \in Requests, NEW forced \in BOOLEAN, Take(r, forced),
           mqttQ' \in Seq(Requests), tcpQ' \in Seq(Requests), Len(tcpQ') <= MaxTcp,
           forcedQ' \in Seq(Tickets \cup {Naked}), inflight' \in Tickets \cup {0},
           UNCHANGED <<mutex, overflow, ledger>>,
           TicketsInv', LedgerIsExact'
    PROVE  RuntimeInv'
  <1>1. /\ pc = "loop" /\ pc' = "call" /\ call' = [req |-> r, forced |-> forced] /\ ObserveLegacy(r)
        /\ UNCHANGED <<due, keepalive, ctl, sets, commands, delaysLeft, timers, ledgerFailed, missed>>
    BY DEF Take, tick, bounds
  <1>2. /\ GateInv'
        /\ unread' \in [Values -> Nat] /\ opaque' \in BOOLEAN /\ settled' \in BOOLEAN
        /\ unproved' \in Values \cup {Raw, "none"}
        /\ failedClosed' = failedClosed
    BY <1>1, ObserveInv
  <1>3. TypeOK'
    BY <1>1, <1>2 DEF RuntimeInv, TypeOK
  <1>4. LedgerKnows' /\ MutexInv' /\ WindowInv'
    BY <1>1
       DEF RuntimeInv, LedgerKnows, MutexInv, WindowInv, WindowQuiet, WindowNeedsReadback,
           MissedReadbackIsFinal
  <1>5. QED
    BY <1>2, <1>3, <1>4 DEF RuntimeInv

\* The main loop takes a request, whichever it finds.
LEMMA TakesInv ==
    ASSUME RuntimeInv, TakeMqtt \/ TakeTcp \/ TakeForced \/ Poll
    PROVE  RuntimeInv'
  <1>1. /\ mqttQ \in Seq(Requests) /\ tcpQ \in Seq(Requests) /\ Len(tcpQ) <= MaxTcp /\ MaxTcp \in Nat
        /\ forcedQ \in Seq(Tickets \cup {Naked}) /\ inflight \in Tickets \cup {0}
        /\ Read \in Requests
        /\ TicketsInv /\ LedgerIsExact
    BY RuntimeAssumption DEF RuntimeInv, TypeOK, LedgerKnows, Requests
  <1>2. ASSUME UNCHANGED <<forcedQ, ledger, inflight>>, NEW r, NEW forced, Take(r, forced)
        PROVE  TicketsInv' /\ LedgerIsExact'
    BY <1>1, <1>2 DEF Take, bounds, TicketsInv, Issued, LedgerIsExact
  <1>3. CASE TakeMqtt
    <2>1. Head(mqttQ) \in Requests /\ mqttQ' \in Seq(Requests)
      BY <1>1, <1>3, TailMembers DEF TakeMqtt
    <2>2. Take(Head(mqttQ), FALSE) /\ UNCHANGED <<mutex, tcpQ, overflow, forcedQ, ledger, inflight>>
      BY <1>3 DEF TakeMqtt
    <2>3. TicketsInv' /\ LedgerIsExact'
      BY <1>2, <2>2
    <2>4. QED
      BY <1>1, <2>1, <2>2, <2>3, TakeInv
  <1>4. CASE TakeTcp
    <2>1. /\ Head(tcpQ) \in Requests /\ tcpQ' \in Seq(Requests)
          /\ Len(tcpQ') = Len(tcpQ) - 1 /\ Len(tcpQ) \in Nat
      BY <1>1, <1>4, TailMembers DEF TakeTcp
    <2>2. Take(Head(tcpQ), FALSE) /\ UNCHANGED <<mutex, mqttQ, overflow, forcedQ, ledger, inflight>>
      BY <1>4 DEF TakeTcp
    <2>3. TicketsInv' /\ LedgerIsExact'
      BY <1>2, <2>2
    <2>4. Len(tcpQ') <= MaxTcp
      BY <1>1, <2>1
    <2>5. QED
      BY <1>1, <2>1, <2>2, <2>3, <2>4, TakeInv
  <1>5. CASE TakeForced
    <2> DEFINE t == Head(forcedQ)
    <2>1. /\ Take(Read, TRUE) /\ inflight = 0 /\ inflight' = t /\ forcedQ' = Tail(forcedQ)
          /\ UNCHANGED <<mutex, mqttQ, tcpQ, overflow, ledger, timers, ledgerFailed, sets, delaysLeft>>
      BY <1>5 DEF TakeForced, queues, Take, bounds
    <2>2. /\ t \in Tickets \cup {Naked} /\ forcedQ' \in Seq(Tickets \cup {Naked})
          /\ ToSet(forcedQ) = ToSet(forcedQ') \cup {t}
          /\ Distinct(forcedQ') /\ t \notin ToSet(forcedQ')
      BY <1>1, <1>5, <2>1, TailMembers DEF TakeForced, TicketsInv
    <2>3. TicketsInv'
      BY <1>1, <2>1, <2>2 DEF TicketsInv, Issued
    <2>4. LedgerIsExact'
      BY <1>1, <2>1, <2>2 DEF LedgerIsExact, Naked
    <2>5. QED
      BY <1>1, <2>1, <2>2, <2>3, <2>4, TakeInv DEF Naked
  <1>6. CASE Poll
    <2>1. Take(Read, FALSE) /\ UNCHANGED <<mutex, mqttQ, tcpQ, overflow, forcedQ, ledger, inflight>>
      BY <1>6 DEF Poll, queues
    <2>2. TicketsInv' /\ LedgerIsExact'
      BY <1>2, <2>1
    <2>3. QED
      BY <1>1, <2>1, <2>2, TakeInv
  <1>7. QED
    BY <1>3, <1>4, <1>5, <1>6

\* A naked index joins an empty queue; it is no ticket.
LEMMA ForcePollInv ==
    ASSUME RuntimeInv, ForcePoll
    PROVE  RuntimeInv'
  <1> USE DEF queues, gate, tick, bounds
  <1>1. /\ pc = "loop" /\ forcedQ = <<>> /\ forcedQ' = Append(forcedQ, Naked)
        /\ UNCHANGED <<pc, call, mutex, queues, delaysLeft, timers, ledger, inflight, ledgerFailed,
                       missed, gate, tick, ctl, bounds>>
    BY DEF ForcePoll
  <1>2. forcedQ \in Seq(Tickets \cup {Naked}) /\ ToSet(forcedQ) = {}
    BY <1>1, Members DEF RuntimeInv, TypeOK
  <1>3. /\ forcedQ' \in Seq(Tickets \cup {Naked}) /\ ToSet(forcedQ') = {Naked} /\ Distinct(forcedQ')
    <2>1. Naked \in Tickets \cup {Naked} /\ Naked \notin ToSet(forcedQ) /\ Distinct(forcedQ)
      BY <1>2 DEF RuntimeInv, TicketsInv
    <2>2. /\ Append(forcedQ, Naked) \in Seq(Tickets \cup {Naked})
          /\ ToSet(Append(forcedQ, Naked)) = ToSet(forcedQ) \cup {Naked}
          /\ Distinct(Append(forcedQ, Naked))
      BY <1>2, <2>1, AppendMembers
    <2>3. QED
      BY <1>1, <1>2, <2>2
  <1>4. timers \subseteq Nat \ {0} /\ inflight \in Nat
    BY TicketNumbers DEF RuntimeInv, TypeOK
  <1>5. Issued' = Issued /\ Naked <= Issued
    BY <1>1 DEF RuntimeInv, TicketsInv, Issued, Naked
  <1>6. TypeOK'
    BY <1>1, <1>3 DEF RuntimeInv, TypeOK
  <1>7. TicketsInv'
    BY <1>1, <1>3, <1>4, <1>5 DEF RuntimeInv, TicketsInv, Naked
  <1>8. LedgerKnows'
    BY <1>1, <1>2, <1>3 DEF RuntimeInv, LedgerKnows, LedgerIsExact
  <1>9. MutexInv' /\ GateInv' /\ WindowInv'
    BY <1>1
       DEF RuntimeInv, MutexInv, GateInv, WindowInv, WindowQuiet, WindowNeedsReadback,
           MissedReadbackIsFinal
  <1>10. QED
    BY <1>6, <1>7, <1>8, <1>9 DEF RuntimeInv

\* What a request does to the controller is one of its values.
LEMMA EffectType ==
    ASSUME RuntimeInv, NEW r, NEW ok, Effect(r, ok)
    PROVE  ctl' \in Values
  BY DEF Effect, RuntimeInv, TypeOK

\* A result: only a read of the written value settles a write.
LEMMA ResultInv ==
    ASSUME RuntimeInv, NEW r, NEW ok, ObserveResult(r, ok)
    PROVE  /\ GateInv'
           /\ unread' \in [Values -> Nat] /\ opaque' = opaque /\ settled' = settled
           /\ unproved' \in Values \cup {Raw, "none"}
           /\ failedClosed' = failedClosed
  <1>1. unread \in [Values -> Nat] /\ ctl \in Values /\ unproved \in Values \cup {Raw, "none"}
    BY DEF RuntimeInv, TypeOK
  <1>2. unread' \in [Values -> Nat] /\ \A v \in Values \ {ctl} : unread'[v] = unread[v]
    BY <1>1 DEF ObserveResult
  <1>3. opaque' = opaque /\ settled' = settled /\ failedClosed' = failedClosed
    BY DEF ObserveResult
  <1>4. unproved' \in {"none", unproved}
    BY DEF ObserveResult
  <1>5. GateInv'
    <2>1. CASE unproved' = "none"
      BY <2>1 DEF GateInv
    <2>2. CASE unproved' = unproved /\ unproved # ctl
      BY <1>2, <1>3, <2>2 DEF GateInv, RuntimeInv
    <2>3. CASE unproved' = unproved /\ unproved = ctl /\ unproved # "none"
      <3>1. unread' = unread
        BY <2>3 DEF ObserveResult
      <3>2. QED
        BY <1>3, <2>3, <3>1 DEF GateInv, RuntimeInv
    <2>4. QED
      BY <1>4, <2>1, <2>2, <2>3
  <1>6. QED
    BY <1>1, <1>2, <1>3, <1>4, <1>5

\* A readback retires its ticket, or the ledger fails with it.
LEMMA CompleteInv ==
    ASSUME RuntimeInv, NEW ok \in BOOLEAN, CompleteForced(ok),
           UNCHANGED <<timers, forcedQ, sets, delaysLeft>>
    PROVE  /\ TicketsInv' /\ LedgerKnows'
           /\ inflight' = 0 /\ ledger' \subseteq Tickets
           /\ ledgerFailed' \in BOOLEAN /\ missed' \in BOOLEAN
           /\ missed' => ledgerFailed'
  <1>1. /\ inflight' = 0 /\ ledger' \subseteq ledger /\ ledger \subseteq Tickets /\ timers \subseteq Tickets
        /\ inflight \in Tickets \cup {0} /\ ledgerFailed \in BOOLEAN /\ missed \in BOOLEAN
    BY DEF CompleteForced, RuntimeInv, TypeOK
  <1>2. 0 \notin Tickets
    BY TicketNumbers
  <1>3. TicketsInv'
    BY <1>1 DEF RuntimeInv, TicketsInv, Issued
  <1>4. ledgerFailed' \in BOOLEAN /\ missed' \in BOOLEAN /\ (missed' => ledgerFailed')
    BY <1>1 DEF CompleteForced, RuntimeInv, LedgerKnows
  <1>5. LedgerIsExact'
    <2>1. CASE ok
      BY <1>1, <1>2, <2>1 DEF CompleteForced, RuntimeInv, TicketsInv, LedgerKnows, LedgerIsExact
    <2>2. CASE ~ok
      BY <1>1, <2>2 DEF CompleteForced, RuntimeInv, LedgerKnows, LedgerIsExact
    <2>3. QED
      BY <2>1, <2>2
  <1>6. QED
    BY <1>1, <1>3, <1>4, <1>5 DEF LedgerKnows

\* The bridge returns, with or without a result the gate still takes.
LEMMA ReturnInv ==
    ASSUME RuntimeInv, NEW ok \in BOOLEAN, Return(ok)
    PROVE  RuntimeInv'
  <1> USE DEF queues, gate, tick, bounds
  <1>1. /\ pc = "call" /\ Effect(call.req, ok) /\ call' = Idle
        /\ UNCHANGED <<mutex, queues, delaysLeft, timers, forcedQ, tick, bounds>>
    BY DEF Return
  <1>2. ctl' \in Values
    BY <1>1, EffectType
  <1>3. CASE failedClosed
    <2>1. pc' = "refused" /\ UNCHANGED <<gate, ledger, inflight, ledgerFailed, missed>>
      BY <1>3 DEF Return
    <2>2. TypeOK'
      BY <1>1, <1>2, <2>1 DEF RuntimeInv, TypeOK
    <2>3. TicketsInv' /\ LedgerKnows' /\ MutexInv' /\ GateInv' /\ WindowInv'
      BY <1>1, <2>1
         DEF RuntimeInv, TicketsInv, Issued, LedgerKnows, LedgerIsExact, MutexInv, GateInv,
             WindowInv, WindowQuiet, WindowNeedsReadback, MissedReadbackIsFinal
    <2>4. QED
      BY <2>2, <2>3 DEF RuntimeInv
  <1>4. CASE ~failedClosed
    <2>1. pc' = "loop" /\ ObserveResult(call.req, ok)
      BY <1>4 DEF Return
    <2>2. /\ GateInv'
          /\ unread' \in [Values -> Nat] /\ opaque' = opaque /\ settled' = settled
          /\ unproved' \in Values \cup {Raw, "none"}
          /\ failedClosed' = failedClosed
      BY <2>1, ResultInv
    <2>3. /\ TicketsInv' /\ LedgerKnows'
          /\ inflight' \in Tickets \cup {0} /\ ledger' \subseteq Tickets
          /\ ledgerFailed' \in BOOLEAN /\ missed' \in BOOLEAN
      <3>1. CASE call.forced
        BY <1>1, <1>4, <3>1, CompleteInv DEF Return
      <3>2. CASE ~call.forced
        <4>1. UNCHANGED <<ledger, inflight, ledgerFailed, missed>>
          BY <1>4, <3>2 DEF Return
        <4>2. QED
          BY <1>1, <4>1 DEF RuntimeInv, TypeOK, TicketsInv, Issued, LedgerKnows, LedgerIsExact
      <3>3. QED
        BY <3>1, <3>2
    <2>4. TypeOK'
      BY <1>1, <1>2, <2>1, <2>2, <2>3 DEF RuntimeInv, TypeOK
    <2>5. MutexInv' /\ WindowInv'
      BY <1>1, <2>1
         DEF RuntimeInv, MutexInv, WindowInv, WindowQuiet, WindowNeedsReadback,
             MissedReadbackIsFinal
    <2>6. QED
      BY <2>2, <2>3, <2>4, <2>5 DEF RuntimeInv
  <1>5. QED
    BY <1>3, <1>4

-----------------------------------------------------------------------------
\* The tick, and the world.

\* A step that has nothing to do with readbacks leaves the ledger exact.
LEMMA RefreshUntouched ==
    ASSUME RuntimeInv, UNCHANGED <<refresh, sets>>
    PROVE  TicketsInv' /\ LedgerKnows'
  BY DEF refresh, RuntimeInv, TicketsInv, Issued, LedgerKnows, LedgerIsExact

\* A step of the main loop that opens no window.
LEMMA NoWindowInv ==
    ASSUME RuntimeInv,
           UNCHANGED <<call, queues, refresh, unread, opaque, unproved, ctl, bounds>>,
           settled' \in BOOLEAN, failedClosed' \in BOOLEAN, due' \in BOOLEAN, keepalive' \in BOOLEAN,
           pc' \in {"loop", "call", "freeze", "fence", "decide", "raised"},
           \/ mutex' = mutex /\ (pc' \in {"fence", "decide"} => mutex = "main")
           \/ mutex \in {"free", "main"} /\ mutex' = "main"
           \/ mutex \in {"free", "main"} /\ mutex' = "free" /\ pc' \in {"loop", "raised"}
    PROVE  RuntimeInv'
  <1>1. TypeOK'
    BY DEF RuntimeInv, TypeOK, queues, refresh, bounds
  <1>2. TicketsInv' /\ LedgerKnows'
    BY RefreshUntouched DEF bounds
  <1>3. MutexInv'
    BY DEF RuntimeInv, MutexInv, refresh
  <1>4. GateInv' /\ WindowInv'
    BY DEF RuntimeInv, GateInv, WindowInv, WindowQuiet, WindowNeedsReadback, MissedReadbackIsFinal
  <1>5. QED
    BY <1>1, <1>2, <1>3, <1>4 DEF RuntimeInv

\* The window opens: everything it relies on has just been looked at.
LEMMA OpenInv ==
    ASSUME RuntimeInv, pc = "decide", pc' = "window", ~ledgerFailed, ledger = {}, Admitted,
           UNCHANGED <<call, mutex, queues, refresh, gate, tick, ctl, bounds>>
    PROVE  RuntimeInv'
  <1>1. TypeOK'
    BY DEF RuntimeInv, TypeOK, queues, refresh, gate, tick, bounds
  <1>2. TicketsInv' /\ LedgerKnows'
    BY RefreshUntouched DEF bounds
  <1>3. MutexInv' /\ GateInv'
    BY DEF RuntimeInv, MutexInv, GateInv, refresh, gate
  <1>4. timers = {} /\ inflight = 0
    BY DEF RuntimeInv, LedgerKnows, LedgerIsExact
  <1>5. mutex = "main" /\ ~(delaysLeft > 0) /\ delaysLeft \in 0 .. Readbacks
    BY DEF RuntimeInv, MutexInv, TypeOK
  <1>6. delaysLeft = 0
    BY <1>5, RuntimeAssumption
  <1>7. WindowQuiet'
    BY <1>4, <1>5, <1>6 DEF WindowQuiet, Admitted, queues, refresh
  <1>8. WindowNeedsReadback'
    <2>1. unread \in [Values -> Nat]
      BY DEF RuntimeInv, TypeOK
    <2>2. unproved = "none"
      BY <2>1 DEF RuntimeInv, GateInv, Admitted, Unacknowledged
    <2>3. QED
      BY <2>2 DEF WindowNeedsReadback, gate
  <1>9. MissedReadbackIsFinal'
    BY DEF RuntimeInv, LedgerKnows, MissedReadbackIsFinal, refresh
  <1>10. QED
    BY <1>1, <1>2, <1>3, <1>7, <1>8, <1>9 DEF RuntimeInv, WindowInv

\* One case per step of the tick.
LEMMA TickInv ==
    ASSUME RuntimeInv, Tick \/ Freeze \/ Fence \/ Decide \/ WindowVerified \/ WindowFails
    PROVE  RuntimeInv'
  <1>1. /\ settled \in BOOLEAN /\ failedClosed \in BOOLEAN /\ due \in BOOLEAN /\ keepalive \in BOOLEAN
        /\ TRUE \in BOOLEAN /\ FALSE \in BOOLEAN
    BY DEF RuntimeInv, TypeOK
  <1> USE DEF gate, tick
  <1>2. CASE Tick
    <2>1. /\ UNCHANGED <<call, mutex, queues, refresh, gate, ctl, bounds>>
          /\ due' = FALSE /\ keepalive' \in BOOLEAN /\ pc' \in {"loop", "freeze"}
      BY <1>1, <1>2 DEF Tick
    <2>2. QED
      BY <1>1, <2>1, NoWindowInv
  <1>3. CASE Freeze
    <2>1. /\ UNCHANGED <<call, queues, refresh, gate, tick, ctl, bounds>>
          /\ mutex = "free" /\ mutex' = "main" /\ pc' = "fence"
      BY <1>3 DEF Freeze
    <2>2. QED
      BY <1>1, <2>1, NoWindowInv
  <1>4. CASE Fence
    <2>1. /\ UNCHANGED <<call, queues, refresh, gate, tick, ctl, bounds>>
          /\ mutex = "main"
          /\ \/ mutex' = "free" /\ pc' = "loop"
             \/ mutex' = mutex /\ pc' = "decide"
      BY <1>4 DEF Fence, Thaw, RuntimeInv, MutexInv
    <2>2. QED
      BY <1>1, <2>1, NoWindowInv
  <1>5. CASE Decide
    <2>1. /\ UNCHANGED <<call, queues, refresh, tick, ctl, bounds>>
          /\ pc = "decide" /\ mutex = "main"
      BY <1>5 DEF Decide, RuntimeInv, MutexInv
    <2>2. \/ /\ UNCHANGED <<mutex, gate>> /\ pc' = "window"
             /\ ~ledgerFailed /\ ledger = {} /\ Admitted
          \/ /\ UNCHANGED <<unread, opaque, settled, unproved>>
             /\ failedClosed' \in {failedClosed, TRUE}
             /\ mutex' = "free" /\ pc' \in {"loop", "raised"}
      BY <1>5 DEF Decide, Thaw, RaiseFailedClosed
    <2>3. CASE UNCHANGED <<mutex, gate>> /\ pc' = "window" /\ ~ledgerFailed /\ ledger = {} /\ Admitted
      BY <2>1, <2>3, OpenInv
    <2>4. CASE /\ UNCHANGED <<unread, opaque, settled, unproved>>
               /\ failedClosed' \in {failedClosed, TRUE}
               /\ mutex' = "free" /\ pc' \in {"loop", "raised"}
      BY <1>1, <2>1, <2>4, NoWindowInv
    <2>5. QED
      BY <2>2, <2>3, <2>4
  <1>6. CASE WindowVerified
    <2>1. /\ UNCHANGED <<call, queues, refresh, gate, ctl, bounds>>
          /\ due' = FALSE /\ keepalive' \in BOOLEAN /\ mutex = "main" /\ mutex' = "free" /\ pc' = "loop"
      BY <1>1, <1>6 DEF WindowVerified, Thaw, RuntimeInv, MutexInv
    <2>2. QED
      BY <1>1, <2>1, NoWindowInv
  <1>7. CASE WindowFails
    <2>1. /\ UNCHANGED <<call, queues, refresh, tick, ctl, bounds, unread, opaque, settled, unproved>>
          /\ failedClosed' = TRUE /\ mutex = "main" /\ mutex' = "free" /\ pc' = "raised"
      BY <1>7 DEF WindowFails, RaiseFailedClosed, RuntimeInv, MutexInv
    <2>2. QED
      BY <1>1, <2>1, NoWindowInv
  <1>8. QED
    BY <1>2, <1>3, <1>4, <1>5, <1>6, <1>7

\* Deadlines, the knob at the boiler and stuttering touch nothing of this.
LEMMA WorldInv ==
    ASSUME RuntimeInv, Time \/ Panel \/ UNCHANGED vars
    PROVE  RuntimeInv'
  <1>1. /\ UNCHANGED <<pc, call, mutex, queues, refresh, unread, opaque, failedClosed, unproved, bounds>>
        /\ settled' \in BOOLEAN /\ due' \in BOOLEAN /\ keepalive' \in BOOLEAN /\ ctl' \in Values
    BY DEF Time, Panel, vars, gate, tick, RuntimeInv, TypeOK
  <1>2. TypeOK'
    BY <1>1 DEF RuntimeInv, TypeOK, queues, refresh, bounds
  <1>3. TicketsInv' /\ LedgerKnows'
    BY <1>1, RefreshUntouched DEF bounds
  <1>4. MutexInv' /\ GateInv' /\ WindowInv'
    BY <1>1
       DEF RuntimeInv, MutexInv, GateInv, WindowInv, WindowQuiet, WindowNeedsReadback,
           MissedReadbackIsFinal, queues, refresh
  <1>5. QED
    BY <1>2, <1>3, <1>4 DEF RuntimeInv

-----------------------------------------------------------------------------
\* RuntimeInv is inductive.
LEMMA NextRuntimeInv == RuntimeInv /\ [Next]_vars => RuntimeInv'
  <1> SUFFICES ASSUME RuntimeInv, [Next]_vars PROVE RuntimeInv'
    OBVIOUS
  <1>1. CASE Others
    <2>1. ASSUME NEW r \in Requests, MqttCommand(r) \/ TcpReceive(r) PROVE RuntimeInv'
      BY <2>1, ArrivalInv
    <2>2. ASSUME NEW v \in Values, MqttSet(v) PROVE RuntimeInv'
      BY <2>2, MqttSetInv
    <2>3. ASSUME NEW t \in Tickets, WorkerWakes(t) PROVE RuntimeInv'
      BY <2>3, WorkerWakesInv
    <2>4. QED
      BY <1>1, <2>1, <2>2, <2>3, ForceDelayedInv DEF Others
  <1>2. CASE Main
    <2>1. ASSUME NEW ok \in BOOLEAN, Return(ok) PROVE RuntimeInv'
      BY <2>1, ReturnInv
    <2>2. CASE PortRaises
      <3>1. /\ pc = "call" /\ pc' = "raised"
            /\ UNCHANGED <<call, mutex, queues, refresh, gate, tick, ctl, bounds>>
        BY <2>2 DEF PortRaises
      <3>2. QED
        BY <3>1, NoWindowInv DEF RuntimeInv, TypeOK, gate, tick
    <2>3. QED
      BY <1>2, <2>1, <2>2, TakesInv, ForcePollInv, TickInv DEF Main
  <1>3. CASE Time \/ Panel \/ UNCHANGED vars
    BY <1>3, WorldInv
  <1>4. QED
    BY <1>1, <1>2, <1>3 DEF Next

\* The invariant of the runtime.
LEMMA SpecRuntimeInv == Spec => []RuntimeInv
  BY InitRuntimeInv, NextRuntimeInv, PTL DEF Spec

-----------------------------------------------------------------------------
\* While the controller may speak P300 no request waits and none can arrive (tick).
THEOREM WindowsAreQuiet == Spec => []WindowQuiet
  <1>1. RuntimeInv => WindowQuiet
    BY DEF RuntimeInv, WindowInv
  <1>2. QED
    BY <1>1, SpecRuntimeInv, PTL

\* No window opens over a write that no later read has shown (observe_legacy_result).
THEOREM WindowsNeedReadbacks == Spec => []WindowNeedsReadback
  <1>1. RuntimeInv => WindowNeedsReadback
    BY DEF RuntimeInv, WindowInv
  <1>2. QED
    BY <1>1, SpecRuntimeInv, PTL

\* The ledger loses no readback and invents none, and a failed one stops all windows
\* (PendingReadbackLedger).
THEOREM LedgerSafe == Spec => []LedgerInv
  <1>1. RuntimeInv => LedgerInv
    BY DEF RuntimeInv, LedgerKnows, WindowInv, LedgerInv
  <1>2. QED
    BY <1>1, SpecRuntimeInv, PTL
=============================================================================
