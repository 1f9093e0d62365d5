------------------------------- MODULE MCReads -------------------------------
(* What is read when: the splitter's poll list, the queue of the hybrid        *)
(* runtime, and its batches of both protocols.  They share no state, so a      *)
(* behaviour is one of them and leaves the other two alone.                    *)
EXTENDS PollScheduler, ReadQueue, ReadPhases

VARIABLE part

\* A profile with a startup item, a fast item and a slow group that holds two bits of
\* one byte, and a shorter one to reload.
MCPeriod == [fast |-> 1, slow |-> 3, mid |-> 2]
MCLong ==
    <<Item("ONCE", "a", FALSE), Item("fast", "b", FALSE), Item("slow", "c", TRUE), Item("slow", "c", TRUE),
      Item("mid", "d", FALSE), Item("slow", "e", FALSE), Item("mid", "f", TRUE), Item("slow", "f", TRUE)>>
MCShort ==
    <<Item("slow", "c", FALSE), Item("mid", "g", TRUE), Item("ONCE", "a", FALSE), Item("mid", "g", TRUE),
      Item("mid", "g", TRUE), Item("slow", "h", FALSE), Item("slow", "e", FALSE)>>
MCProfiles == {MCLong, MCShort}

\* Barriers and independent reads of both protocols, one that has waited and one that
\* lasts longer than P06 may age besides a window.
Job(kind, independent, duration, queued, deadline) ==
    [kind |-> kind, independent |-> independent, duration |-> duration, queued |-> queued, deadline |-> deadline]
MCJobs == {Job(k, FALSE, 1, 0, 20) : k \in {"P06", "RAM"}}
          \cup {Job(k, TRUE, 1, 0, 20) : k \in {"P09", "RAM"}}
          \cup {Job("RAM", TRUE, 2, -2, 4), Job("P06", TRUE, 3, 0, 7)}
MCJobLists == UNION {[1 .. n -> MCJobs] : n \in 1 .. 4}
MCAges == {0, 3, 8}

others(mine) ==
    /\ mine # "polls"  => UNCHANGED pollVars
    /\ mine # "queue"  => UNCHANGED queueVars
    /\ mine # "phases" => UNCHANGED phasesVars

Init ==
    /\ part \in {"polls", "queue", "phases"} /\ PollInit /\ QueueInit /\ PhasesInit
    /\ part # "polls" => items = MCShort
Next ==
    /\ \/ part = "polls" /\ PollNext
       \/ part = "queue" /\ QueueNext
       \/ part = "phases" /\ PhasesNext
    /\ others(part) /\ UNCHANGED part

vars == <<pollVars, queueVars, phasesVars, part>>
FairSpec ==
    /\ Init /\ [][Next]_vars
    /\ WF_vars(part = "polls" /\ MainLoop /\ others(part) /\ UNCHANGED part)
    /\ WF_vars(part = "queue" /\ ReadsOn /\ others(part) /\ UNCHANGED part)
    /\ WF_vars(part = "phases" /\ (BatchSteps \/ Unanswered) /\ others(part) /\ UNCHANGED part)

-----------------------------------------------------------------------------
\* Whatever waits to be read is read or given up: a refresh, a ticket, a batch
\* (main loop, take and finish, execute_read_phases).
ReadsEnd == RefreshEnds /\ TicketsEnd /\ BatchEnds
=============================================================================
