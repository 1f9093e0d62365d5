---------------------------- MODULE FenceContract ----------------------------
(***************************************************************************)
(* What the producer lease promises to its users, without marker, flock or  *)
(* processes: one user at a time, a writer only while the controller speaks *)
(* VS1, a P300 window only while every write has been verified.  Amnesia is *)
(* the one way out: a fault inside the rewriting of the persistent marker.  *)
(***************************************************************************)
VARIABLES
    user,       \* "nobody", "writer" or "window"
    wire,       \* the protocol the controller speaks
    unsettled,  \* some write was left without verification
    amnesia     \* the lease has forgotten an unsettled write or a P300 window

contractVars == <<user, wire, unsettled, amnesia>>

Init ==
    /\ user = "nobody"
    /\ wire = "VS1"
    /\ unsettled = FALSE
    /\ amnesia = FALSE

AdmitWriter ==
    /\ user = "nobody"
    /\ wire = "VS1" \/ amnesia
    /\ user' = "writer"
    /\ UNCHANGED <<wire, unsettled, amnesia>>

AdmitWindow ==
    /\ user = "nobody"
    /\ (wire = "VS1" /\ ~unsettled) \/ amnesia
    /\ user' = "window"
    /\ UNCHANGED <<wire, unsettled, amnesia>>

\* A writer fails to verify what it wrote; it may be gone in the same step.
WriterFails ==
    /\ user = "writer"
    /\ user' \in {"writer", "nobody"}
    /\ unsettled' = TRUE
    /\ UNCHANGED <<wire, amnesia>>

\* Only the window's user changes the protocol.
SwitchProtocol ==
    /\ user = "window"
    /\ wire' \in {"VS1", "P300"}
    /\ UNCHANGED <<user, unsettled, amnesia>>

\* The user ends, in whatever way.
Leave ==
    /\ user # "nobody"
    /\ user' = "nobody"
    /\ UNCHANGED <<wire, unsettled, amnesia>>

\* A fault during a change of the marker, with something worth remembering.
Forget ==
    /\ user # "nobody"
    /\ user' \in {user, "nobody"}
    /\ unsettled \/ wire # "VS1"
    /\ amnesia' = TRUE
    /\ UNCHANGED <<wire, unsettled>>

\* Nobody uses the line and the original splitter has proved VS1.
Recover ==
    /\ user = "nobody"
    /\ wire' = "VS1"
    /\ UNCHANGED <<user, unsettled, amnesia>>

Next ==
    \/ AdmitWriter \/ AdmitWindow \/ WriterFails \/ SwitchProtocol
    \/ Leave \/ Forget \/ Recover

Spec == Init /\ [][Next]_contractVars
=============================================================================
