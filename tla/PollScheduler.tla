---------------------------- MODULE PollScheduler ----------------------------
(***************************************************************************)
(* The phased poll scheduler that optolink-apply-phased-poll-scheduler-       *)
(* patch.py puts into the splitter: c_polllist.make_list gives every item of  *)
(* a recurring group a phase, do_poll_item reads what is due, and the main    *)
(* loop serves full refreshes and reloads and ends the cycles.               *)
(*                                                                          *)
(* The datapoints are read without failure here, a malformed value being      *)
(* skipped like a read one; names, formats and scaling are left out.  What    *)
(* surrounds the patched lines in the splitter is not part of the repository. *)
(***************************************************************************)
EXTENDS Naturals, Sequences, FiniteSets, FiniteSetsExt

CONSTANTS
    Profiles,    \* poll_items: sequences of items, the first one at the start
    Groups,      \* the recurring groups
    Period,      \* cycle_groups of the recurring groups
    Wrap,        \* a common multiple of the periods: poll_cycle is kept modulo Wrap
    MaxCommands  \* bound: refreshes and reloads

Once == "ONCE"

ASSUME PollAssumption ==
    /\ \A profile \in Profiles :
         /\ Len(profile) \in Nat /\ DOMAIN profile = 1 .. Len(profile)
         /\ \A i \in DOMAIN profile : profile[i].group \in Groups \cup {Once}
    /\ Once \notin Groups /\ Period \in [Groups -> Nat \ {0}]
    /\ Wrap \in Nat \ {0, 1} /\ \A g \in Groups : Wrap % Period[g] = 0
    /\ MaxCommands \in Nat

\* An item: its group, its address with the length, and whether it is one of the bits
\* of a byte.
Item(g, a, b) == [group |-> g, addr |-> a, bits |-> b]

VARIABLES
    items,  \* poll_list.items
    once,   \* poll_list.cycle_groups["ONCE"]: 0, or -1 as "over"
    pointer, cycle, \* poll_pointer (of the next item), poll_cycle
    forceFlag, reloadFlag, \* set by the MQTT callback
    forceAll,     \* force_poll_all_regular
    onceComplete, \* startup_once_complete
    commands, \* counter of the bound
    \* Observations the code does not make:
    pass,   \* the indexes read since the pointer was 0
    cycles     \* cycles[i]: cycles completed since item i was read, or came with a new list

list    == <<items, once>>
flags   == <<forceFlag, reloadFlag, forceAll>>
pollVars    == <<list, pointer, cycle, flags, onceComplete, commands, pass, cycles>>

Indexes == DOMAIN items
Regular == {i \in Indexes : items[i].group # Once}
PeriodOf(i) == Period[items[i].group]

PollTypeOK ==
    /\ items \in Profiles /\ once \in {"startup", "over"}
    /\ pointer \in 1 .. Len(items) + 1 /\ cycle \in 0 .. Wrap - 1
    /\ forceFlag \in BOOLEAN /\ reloadFlag \in BOOLEAN /\ forceAll \in BOOLEAN
    /\ onceComplete \in BOOLEAN /\ (onceComplete <=> once = "over")
    /\ commands \in 0 .. MaxCommands
    /\ pass \subseteq Indexes /\ \A i \in pass : i < pointer
    /\ DOMAIN cycles = Indexes

-----------------------------------------------------------------------------
\* make_list.  A bit of the byte before it is read from the same response and shares
\* its phase.
Continues(i) ==
    /\ i > 1 /\ items[i].bits /\ items[i - 1].bits
    /\ items[i].group = items[i - 1].group /\ items[i].addr = items[i - 1].addr

\* group_tx_ordinal
Ordinal(i) == Cardinality({k \in 1 .. i : items[k].group = items[i].group /\ ~Continues(k)}) - 1

\* Mutant: the phases of a group are counted from 1.
PhaseFromOne(i) == (Ordinal(i) % PeriodOf(i)) + 1

Phase(i) == Ordinal(i) % PeriodOf(i)

-----------------------------------------------------------------------------
\* do_poll_item
StartupSeed == ~onceComplete /\ cycle = 0

Due(i) ==
    IF items[i].group = Once THEN once = "startup" /\ StartupSeed
    ELSE forceAll \/ StartupSeed \/ cycle % PeriodOf(i) = Phase(i)

PollInit ==
    /\ items \in Profiles /\ once = "startup"
    /\ pointer = 1 /\ cycle = 0
    /\ forceFlag = FALSE /\ reloadFlag = FALSE /\ forceAll = FALSE
    /\ onceComplete = FALSE /\ commands = 0
    /\ pass = {} /\ cycles = [i \in Indexes |-> 0]

\* The next item that is due is read, those before it are passed over.
PollItem ==
    /\ ~forceFlag /\ ~reloadFlag
    /\ \E i \in pointer .. Len(items) :
        /\ Due(i) /\ \A k \in pointer .. i - 1 : ~Due(k)
        /\ pointer' = i + 1
        /\ pass' = pass \cup {i}
        /\ cycles' = [cycles EXCEPT ![i] = 0]
    /\ UNCHANGED <<list, cycle, flags, onceComplete, commands>>

\* The end of a cycle: the startup group is over with the first one, and a full refresh
\* with its own.
EndOfCycle ==
    /\ ~forceFlag /\ ~reloadFlag
    /\ \A k \in pointer .. Len(items) : ~Due(k)
    /\ onceComplete' = TRUE /\ once' = "over"
    /\ forceAll' = FALSE
    /\ cycle' = (cycle + 1) % Wrap
    /\ pointer' = 1 /\ pass' = {}
    /\ cycles' = [i \in Indexes |-> IF i \in Regular THEN cycles[i] + 1 ELSE 0]
    /\ UNCHANGED <<items, forceFlag, reloadFlag, commands>>

\* Mutant: a refresh goes on from where the cycle is.
TakeForceInPlace ==
    /\ forceFlag /\ forceFlag' = FALSE
    /\ forceAll' = TRUE
    /\ UNCHANGED <<list, pointer, cycle, reloadFlag, onceComplete, commands, pass, cycles>>

\* The main loop between two items: a full refresh starts over with everything that
\* recurs.
TakeForce ==
    /\ forceFlag /\ forceFlag' = FALSE
    /\ forceAll' = TRUE
    /\ pointer' = 1 /\ pass' = {}
    /\ UNCHANGED <<list, cycle, reloadFlag, onceComplete, commands, cycles>>

\* A reload starts over with the new list, in the cycle it is in; ONCE does not come
\* back with it.
TakeReload(profile) ==
    /\ reloadFlag /\ ~forceFlag /\ reloadFlag' = FALSE
    /\ items' = profile
    /\ once' = IF onceComplete THEN "over" ELSE "startup"
    /\ pointer' = 1 /\ pass' = {}
    /\ cycles' = IF profile = items THEN cycles ELSE [i \in DOMAIN profile |-> 0]
    /\ UNCHANGED <<cycle, forceFlag, forceAll, onceComplete, commands>>

\* forcepoll and reloadpoll only set their flags.
Command ==
    /\ commands < MaxCommands /\ commands' = commands + 1
    /\ \/ forceFlag' = TRUE /\ UNCHANGED reloadFlag
       \/ reloadFlag' = TRUE /\ UNCHANGED forceFlag
    /\ UNCHANGED <<list, pointer, cycle, forceAll, onceComplete, pass, cycles>>

MainLoop == PollItem \/ EndOfCycle \/ TakeForce \/ \E p \in Profiles : TakeReload(p)

PollNext == MainLoop \/ Command

PollSpec == PollInit /\ [][PollNext]_pollVars

\* The main loop runs.
PollFairSpec == PollSpec /\ WF_pollVars(MainLoop)

-----------------------------------------------------------------------------
\* The end of a cycle, seen from outside.
CycleEnds == cycle' # cycle

\* The group ONCE is read in the first cycle of the process and never again, whatever is
\* refreshed or reloaded (due condition, reload).
OnceOnlyAtStart ==
    [][onceComplete => \A i \in pass' : i \in pass \/ items'[i].group # Once]_pollVars

\* The first cycle is a complete snapshot, ONCE included, and the cycle of a full
\* refresh one of everything that recurs, also when another refresh or a reload came
\* in between (forcepoll, reload, due condition).
SnapshotsAreComplete ==
    [][CycleEnds => (StartupSeed => pass = Indexes) /\ (forceAll => Regular \subseteq pass)]_pollVars

\* No item waits longer than its period for its next read: refreshes and reloads delay
\* nothing (item_phases, poll_cycle).
NobodyIsForgotten == \A i \in Regular : cycles[i] <= PeriodOf(i)

\* The poll list between two reads (poll_cycle, item_phases).
PollInv == PollTypeOK /\ NobodyIsForgotten

\* An ordinary cycle reads no more of a group than its share of transactions (phase per
\* physical transaction).
Transactions(S) == {i \in S : ~Continues(i)}
LoadIsSpread ==
    [][(CycleEnds /\ ~forceAll /\ onceComplete) =>
        (\A g \in Groups :
            LET own == {i \in Regular : items[i].group = g}
            IN  Cardinality(Transactions(own \cap pass)) * Period[g]
                    <= Cardinality(Transactions(own)) + Period[g] - 1)]_pollVars

\* The bits of a byte are read in the same cycle: the second one always has the response
\* of the first (continuation).
BitsStayTogether ==
    [][CycleEnds => (\A i \in Indexes : Continues(i) => (i \in pass <=> i - 1 \in pass))]_pollVars

\* What a cycle reads: everything it has to, nothing twice at the start, little of each
\* group, and whole bytes (due condition, item_phases, reload).
CyclesAreWhole == OnceOnlyAtStart /\ SnapshotsAreComplete /\ LoadIsSpread /\ BitsStayTogether

\* A full refresh takes place, and ends.
RefreshEnds == forceFlag ~> (~forceFlag /\ ~forceAll)
=============================================================================
