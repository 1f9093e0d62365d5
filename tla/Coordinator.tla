----------------------------- MODULE Coordinator -----------------------------
(***************************************************************************)
(* HandoverCoordinator and its ReadOnlyWire (coordinator.py): one session   *)
(* of the serial owner, from __enter__ to __exit__, with the handovers      *)
(* between VS1 and P300 frame by frame.  Every frame may go unsent, or be   *)
(* sent and get no answer or a wrong one.                                   *)
(*                                                                          *)
(* The controller is external: EOT makes it synchronise (it sends ENQs),    *)
(* STX plus an identity request starts VS1, 16 00 00 starts P300.           *)
(***************************************************************************)
EXTENDS Naturals, Sequences

VARIABLES
    protocol,   \* the controller: "VS1", "SYNC" or "P300"
    mode,       \* HandoverCoordinator.mode
    phase,      \* ReadOnlyWire.phase
    attempted,  \* _recovery_attempted
    borrowed,   \* _borrowed_port
    op,         \* the wire procedure that runs, "none" between two of them
    todo,       \* its frames still to be exchanged
    stage,      \* who called it, and what follows: see Stages
    report,     \* how the last session ended
    \* Observations the code does not make:
    dirty,      \* an exchange failed and no EOT has followed
    misfit,     \* a data frame met the wrong protocol or a dirty line
    recoveries  \* recoveries started since the last verified P300

object == <<mode, attempted, borrowed>>
wire   == <<protocol, phase, op, todo, dirty, misfit>>
coordinatorVars == <<wire, object, stage, report, recoveries>>

\* The frames of each procedure.  "read" stands for the plain VS1 reads in a row
\* (software, P80, P06; or one GFA value), "ident" for the two P300 identities.
Script(o) ==
    CASE o = "vs1_two_enq"  -> <<"eot", "enq", "enq", "vs1_id", "read">>
      [] o = "vs1_fast"     -> <<"eot", "enq", "vs1_id", "read">>
      [] o = "vs1_early"    -> <<"eot", "vs1_id", "read">>
      [] o = "vs1_recovery" -> <<"eot", "enq", "enq", "vs1_id", "read">>
      [] o = "vs1_attached" -> <<"read">>
      [] o = "gfa"          -> <<"read">>
      [] o = "p300"         -> <<"eot", "enq", "start", "ident">>
      [] o = "p300_early"   -> <<"eot", "start", "ident">>
      [] o = "ram"          -> <<"ram">>
      [] o = "identity"     -> <<"ident">>

ToVs1  == {"vs1_two_enq", "vs1_fast", "vs1_early", "vs1_recovery", "vs1_attached"}
ToP300 == {"p300", "p300_early"}
Reads  == {"gfa", "ram", "identity"}
Frames == {"eot", "enq", "vs1_id", "read", "start", "ident", "ram"}

Modes  == {"DETACHED", "UNKNOWN", "SWITCHING", "VS1_VERIFIED", "P300_VERIFIED",
           "FAILED_CLOSED", "RECOVERING"}
Phases == {"FAILED_CLOSED", "VS1_SYNC", "VS1_HANDSHAKE", "VS1_VERIFIED",
           "P300_SYNC", "P300_HANDSHAKE", "P300_VERIFIED"}

\* closed: no session; enter, exit: inside __enter__, __exit__; user: the with
\* body; the others: inside p300_window, before, in and after its callback.
WindowStages == {"win_enter", "win_body", "win_fast", "win_restore"}
Stages == {"closed", "enter", "user", "exit"} \cup WindowStages

CoordinatorTypeOK ==
    /\ protocol \in {"VS1", "SYNC", "P300"}
    /\ mode \in Modes /\ phase \in Phases
    /\ attempted \in BOOLEAN /\ borrowed \in BOOLEAN
    /\ op \in {"none"} \cup ToVs1 \cup ToP300 \cup Reads
    /\ todo \in Seq(Frames)
    /\ stage \in Stages
    /\ report \in {"none", "restored", "restore_failed", "refused", "enter_failed"}
    /\ dirty \in BOOLEAN /\ misfit \in BOOLEAN
    /\ recoveries \in Nat

\* The owner may find the controller in any protocol.
CoordinatorInit ==
    /\ protocol \in {"VS1", "SYNC", "P300"}
    /\ mode = "DETACHED" /\ phase = "FAILED_CLOSED"
    /\ attempted = FALSE /\ borrowed = FALSE
    /\ op = "none" /\ todo = <<>>
    /\ stage = "closed" /\ report = "none"
    /\ dirty = FALSE /\ misfit = FALSE
    /\ recoveries = 0

-----------------------------------------------------------------------------
\* Procedures of the wire

\* A procedure starts: the phase that admits its first frame, and the mode.
Start(o) ==
    /\ op' = o
    /\ todo' = Script(o)
    /\ mode' = CASE o = "vs1_recovery" -> "RECOVERING"
                 [] o \in Reads        -> mode
                 [] OTHER              -> "SWITCHING"
    /\ phase' = CASE o = "vs1_attached" -> "VS1_HANDSHAKE"
                  [] o \in ToP300       -> "P300_SYNC"
                  [] o \in Reads        -> phase
                  [] OTHER              -> "VS1_SYNC"
    /\ UNCHANGED <<protocol, dirty, misfit>>

\* restore_vs1, when it neither returns nor raises at once.
StartRecovery ==
    /\ Start("vs1_recovery")
    /\ attempted' = TRUE
    /\ recoveries' = recoveries + 1
   

\* The protocol after a frame has reached the controller.
After(frame) ==
    CASE frame = "eot"                       -> "SYNC"
      [] frame = "vs1_id" /\ protocol = "SYNC" -> "VS1"
      [] frame = "start" /\ protocol = "SYNC"  -> "P300"
      [] OTHER                               -> protocol

\* The protocol in which a frame can be answered.
Speaks(frame) ==
    CASE frame \in {"eot", "enq"}            -> "SYNC"
      [] frame \in {"vs1_id", "read"}        -> "VS1"
      [] frame \in {"start", "ident", "ram"} -> "P300"

\* tx and the reception: the frame's answer is the expected one.  PHASE_TX_ALLOW
\* admits the frames of the current phase, and the phases follow the frames.
Exchanged ==
    /\ op # "none" /\ todo # <<>>
    /\ LET f == Head(todo) IN
        /\ After(f) = Speaks(f)
        /\ protocol' = After(f)
        /\ dirty' = (dirty /\ f # "eot")
        /\ misfit' = (misfit \/ (f \in {"read", "ident", "ram"} /\ (dirty \/ protocol # Speaks(f))))
        /\ phase' = IF Len(todo) > 1 /\ Head(Tail(todo)) \in {"vs1_id", "start"}
                    THEN IF op \in ToVs1 THEN "VS1_HANDSHAKE" ELSE "P300_HANDSHAKE"
                    ELSE phase
    /\ todo' = Tail(todo)
    /\ UNCHANGED <<op, object, stage, report, recoveries>>

\* The procedure has all its answers: the session is verified in the new mode.
Completed ==
    /\ op # "none" /\ todo = <<>>
    /\ IF op \in Reads THEN UNCHANGED <<mode, phase>>
       ELSE LET verified == IF op \in ToP300 THEN "P300_VERIFIED" ELSE "VS1_VERIFIED" IN
            /\ mode' = verified
            /\ phase' = verified
    /\ attempted' = (attempted /\ op \notin ToP300)
    /\ recoveries' = IF op \in ToP300 THEN 0 ELSE recoveries
    /\ op' = "none"
    /\ UNCHANGED <<protocol, todo, dirty, misfit, borrowed, report>>

\* Mutant: a failed read leaves mode and phase as they are (no _fail_closed).
FailedOpen ==
    /\ op # "none" /\ todo # <<>>
    /\ dirty' = TRUE
    /\ IF op \in Reads
       THEN UNCHANGED <<mode, phase>>
       ELSE mode' = "FAILED_CLOSED" /\ phase' = "FAILED_CLOSED"
    /\ op' = "none"
    /\ todo' = <<>>
    /\ UNCHANGED <<protocol, misfit, attempted, borrowed, report, recoveries>>

\* A frame is not sent, or its answer is missing or wrong: fail closed.
Failed ==
    /\ op # "none" /\ todo # <<>>
    /\ LET f == Head(todo) IN
        \/ UNCHANGED <<protocol, misfit>>
        \/ /\ protocol' = After(f)
           /\ misfit' = (misfit \/ (f \in {"read", "ident", "ram"} /\ (dirty \/ protocol # Speaks(f))))
    /\ dirty' = TRUE
    /\ mode' = "FAILED_CLOSED"
    /\ phase' = "FAILED_CLOSED"
    /\ op' = "none"
    /\ todo' = <<>>
    /\ UNCHANGED <<attempted, borrowed, report, recoveries>>

-----------------------------------------------------------------------------
\* The session

\* _close_resources: the port is closed unless borrowed, the lease is released.
Close(result) ==
    /\ stage' = "closed"
    /\ report' = result

\* __enter__ of a new object.  A borrowed port comes from the owning main loop
\* after a complete VS1 exchange (borrow_existing_vs1).
Enter(borrow) ==
    /\ stage = "closed"
    /\ borrow => protocol = "VS1" /\ ~dirty
    /\ borrowed' = borrow
    /\ attempted' = FALSE
    /\ Start(IF borrow THEN "vs1_attached" ELSE "vs1_two_enq")
    /\ stage' = "enter"
    /\ recoveries' = 0
    /\ UNCHANGED report

\* Mutant: the mode is not asked.
CallAnyMode(o) ==
    /\ stage \in {"user", "win_body"}
    /\ op = "none"
    /\ o \in ToP300 \cup {"gfa", "vs1_fast", "vs1_early", "ram", "identity"}
    /\ Start(o)
    /\ UNCHANGED <<attempted, borrowed, stage, report, recoveries>>

\* A call of the with body or of the window's callback, if its mode allows it.
Call(o) ==
    /\ stage \in {"user", "win_body"}
    /\ op = "none"
    /\ \/ o \in ToP300 \cup {"gfa"} /\ mode = "VS1_VERIFIED"
       \/ o \in {"vs1_fast", "vs1_early", "ram", "identity"} /\ mode = "P300_VERIFIED"
    /\ Start(o)
    /\ UNCHANGED <<attempted, borrowed, stage, report, recoveries>>

\* restore_vs1 called by the body or the callback.
CallRestore ==
    /\ stage \in {"user", "win_body"}
    /\ op = "none"
    /\ mode # "VS1_VERIFIED" /\ ~attempted
    /\ StartRecovery
    /\ UNCHANGED <<borrowed, stage, report>>

\* p300_window: the transition to P300 before the callback.
OpenWindow ==
    /\ stage = "user" /\ op = "none"
    /\ mode = "VS1_VERIFIED"
    /\ Start("p300")
    /\ stage' = "win_enter"
    /\ UNCHANGED <<attempted, borrowed, report, recoveries>>

\* Mutant: the window trusts its callback to have left P300.
FinallyTrusting ==
    /\ op = "none"
    /\ stage \in {"win_body", "win_restore"} \/ (stage = "win_enter" /\ mode # "P300_VERIFIED")
    /\ \/ /\ mode = "FAILED_CLOSED"
          /\ ~attempted
          /\ StartRecovery
          /\ stage' = "win_restore"
       \/ /\ mode # "FAILED_CLOSED" \/ attempted
          /\ stage' = "user"
          /\ UNCHANGED <<wire, mode, attempted, recoveries>>
    /\ UNCHANGED <<borrowed, report>>

\* The finally clause of p300_window: the callback has returned or raised, the
\* transition to P300 or the fast return has failed, or all is done.
Finally ==
    /\ op = "none"
    /\ stage \in WindowStages
    /\ stage = "win_enter" => mode # "P300_VERIFIED"
    /\ \/ /\ mode = "P300_VERIFIED"
          /\ stage = "win_body"
          /\ Start("vs1_fast")
          /\ stage' = "win_fast"
          /\ UNCHANGED <<attempted, recoveries>>
       \/ /\ mode = "FAILED_CLOSED"
          /\ ~attempted
          /\ StartRecovery
          /\ stage' = "win_restore"
       \/ /\ mode = "VS1_VERIFIED" \/ (mode = "FAILED_CLOSED" /\ attempted)
          /\ stage' = "user"
          /\ UNCHANGED <<wire, mode, attempted, recoveries>>
    /\ UNCHANGED <<borrowed, report>>

\* The callback of the window runs.
RunCallback ==
    /\ stage = "win_enter" /\ op = "none"
    /\ mode = "P300_VERIFIED"
    /\ stage' = "win_body"
    /\ UNCHANGED <<wire, object, report, recoveries>>

\* __exit__: a session that is not in verified VS1 gets its one recovery.
Exit ==
    /\ stage = "user" /\ op = "none"
    /\ \/ /\ mode = "VS1_VERIFIED"
          /\ mode' = "DETACHED"
          /\ Close("restored")
          /\ UNCHANGED <<wire, attempted, recoveries>>
       \/ /\ mode # "VS1_VERIFIED" /\ ~attempted
          /\ StartRecovery
          /\ stage' = "exit"
          /\ UNCHANGED report
       \/ /\ mode # "VS1_VERIFIED" /\ attempted
          /\ mode' = "FAILED_CLOSED"
          /\ Close("refused")
          /\ UNCHANGED <<wire, attempted, recoveries>>
    /\ UNCHANGED borrowed

\* __enter__ and __exit__ go on when their procedure has ended.
Entered ==
    /\ stage = "enter" /\ op = "none"
    /\ IF mode = "VS1_VERIFIED"
       THEN stage' = "user" /\ UNCHANGED report
       ELSE Close("enter_failed")
    /\ UNCHANGED <<wire, object, recoveries>>

\* Mutant: the result of the restore is not looked at.
ExitedBlindly ==
    /\ stage = "exit" /\ op = "none"
    /\ mode' = "DETACHED"
    /\ Close("restored")
    /\ UNCHANGED <<wire, attempted, borrowed, recoveries>>

Exited ==
    /\ stage = "exit" /\ op = "none"
    /\ IF mode = "VS1_VERIFIED"
       THEN mode' = "DETACHED" /\ Close("restored")
       ELSE mode' = "FAILED_CLOSED" /\ Close("restore_failed")
    /\ UNCHANGED <<wire, attempted, borrowed, recoveries>>

-----------------------------------------------------------------------------
Wire ==
    \/ Exchanged
    \/ (Completed \/ Failed) /\ UNCHANGED stage

Session ==
    \/ \E borrow \in BOOLEAN : Enter(borrow)
    \/ Entered \/ Exited \/ Exit
    \/ \E o \in ToVs1 \cup ToP300 \cup Reads : Call(o)
    \/ CallRestore \/ OpenWindow \/ RunCallback \/ Finally

CoordinatorNext == Wire \/ Session

CoordinatorSpec == CoordinatorInit /\ [][CoordinatorNext]_coordinatorVars

\* Every reception has a deadline, the with statement runs __exit__, and callbacks
\* return: whoever is inside the coordinator goes on.
CoordinatorFairness ==
    /\ WF_coordinatorVars(Wire)
    /\ WF_coordinatorVars(Entered) /\ WF_coordinatorVars(Exited)
    /\ WF_coordinatorVars(RunCallback)
    /\ SF_coordinatorVars(Finally)
    /\ SF_coordinatorVars(Exit)

CoordinatorFairSpec == CoordinatorSpec /\ CoordinatorFairness

-----------------------------------------------------------------------------
\* A verified mode is the truth about the controller, and the low-level phase
\* guard agrees with it, whatever failed before (to_p300, _verify_vs1, gfa_read).
VerifiedIsTrue ==
    op = "none" /\ mode \in {"VS1_VERIFIED", "P300_VERIFIED"} =>
        /\ protocol = IF mode = "VS1_VERIFIED" THEN "VS1" ELSE "P300"
        /\ phase = mode
        /\ ~dirty

\* No read of one protocol is sent to a controller that speaks the other one, nor
\* after a failed exchange without a new EOT in between.
FramesFit == ~misfit

\* A session that ends without RestoreError leaves the controller in VS1, on a
\* line without rests of a failed exchange, for the splitter that goes on.
CleanExitInVs1 ==
    stage = "closed" /\ report = "restored" => protocol = "VS1" /\ ~dirty

\* The conservative recovery runs at most once per P300 session and is never
\* repeated silently: not by the window, the callback and __exit__ together.
OneRecovery == recoveries <= 1

\* What holds inside a session as well: the frames fit the controller, and the recovery
\* is not repeated (_verify_vs1, gfa_read, restore_vs1).
CoordinatorInv == CoordinatorTypeOK /\ FramesFit /\ OneRecovery

\* A window never returns to its caller in P300: it ends in verified VS1 or failed
\* closed (p300_window, "restore VS1 in all outcomes").
WindowLeavesP300 ==
    [][(stage \in WindowStages /\ stage' = "user") =>
        (mode' = "VS1_VERIFIED" \/ (mode' = "FAILED_CLOSED" /\ attempted'))]_coordinatorVars

\* Every session comes to its end and gives the port lease back.
SessionEnds == stage # "closed" ~> stage = "closed"

\* Windows and sessions end, and end where they promise (p300_window, __exit__).
SessionsReturn == WindowLeavesP300 /\ SessionEnds
=============================================================================
