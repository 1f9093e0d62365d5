--------------------------- MODULE ScheduleBlocks ---------------------------
(***************************************************************************)
(* The pure part of tools/optolink-schedule-manager.py: a day of switching   *)
(* times as the editor's slots, as a schedule and as the block of bytes the  *)
(* controller keeps.  Times are minutes of the day; a time that Home         *)
(* Assistant sends may lie between the controller's steps of ten minutes.    *)
(*                                                                          *)
(* Reading and printing HH:MM is left out: 1440 stands for 24:00.            *)
(***************************************************************************)
EXTENDS Integers, FiniteSets, SequencesExt, Queues

CONSTANT Grid \* bound: the times of the schedules and drafts that are checked

ASSUME GridAssumption == Grid \subseteq {10 * n : n \in 0 .. 144}

NumSlots == 4
Day      == 1440
Hour     == 60
Free     == 255  \* the byte of an unused slot
None     == -1   \* a time of the editor that is not set
Off      == <<None, None>>

Steps == {10 * n : n \in 0 .. 143}
IsInterval(i) == i[1] \in Steps /\ i[2] \in Steps \cup {Day} /\ i[1] < i[2]

\* parse_schedule: at most four intervals, each with a start before its end, sorted
\* and without overlap.
IsSchedule(s) ==
    /\ Len(s) <= NumSlots
    /\ \A i \in DOMAIN s : IsInterval(s[i])
    /\ \A i \in DOMAIN s \ {1} : s[i - 1][2] <= s[i][1]

-----------------------------------------------------------------------------
\* encode_time: five bits of hours, three bits of tens of minutes.
EncodeTime(t) == (t \div Hour) * 8 + (t % Hour) \div 10

DecodeTime(b) == (b \div 8) * Hour + (b % 8) * 10

Encode(s) ==
    [i \in 1 .. 2 * NumSlots |->
        LET slot == (i + 1) \div 2 IN
        IF slot > Len(s) THEN Free ELSE EncodeTime(s[slot][IF i % 2 = 1 THEN 1 ELSE 2])]

\* decode_block: the intervals of the used slots, in the order of the slots.
\* It raises for every block that is not Readable.
UsedSlots(raw) == Without([n \in 1 .. NumSlots |-> n], {n \in 1 .. NumSlots : raw[2 * n - 1] = Free})
Decode(raw) ==
    [k \in DOMAIN UsedSlots(raw) |->
        LET n == UsedSlots(raw)[k] IN <<DecodeTime(raw[2 * n - 1]), DecodeTime(raw[2 * n])>>]
Readable(raw) ==
    \A n \in 1 .. NumSlots :
        \/ raw[2 * n - 1] = Free /\ raw[2 * n] = Free
        \/ /\ Free \notin {raw[2 * n - 1], raw[2 * n]}
           /\ raw[2 * n - 1] % 8 <= 5 /\ raw[2 * n] % 8 <= 5
           /\ IsInterval(<<DecodeTime(raw[2 * n - 1]), DecodeTime(raw[2 * n])>>)

-----------------------------------------------------------------------------
\* The editor.
SlotsOf(s) == [n \in 1 .. NumSlots |-> IF n <= Len(s) THEN s[n] ELSE Off]

\* editor_schedule_from_slots raises for a slot with one time only, and for what
\* parse_schedule refuses.
ScheduleOf(slots) == Without(slots, {Off})
Writable(slots) ==
    /\ \A n \in 1 .. NumSlots : slots[n] = Off \/ None \notin {slots[n][1], slots[n][2]}
    /\ IsSchedule(ScheduleOf(slots))

\* time_plus_minutes
Plus(t, minutes, allow24) ==
    LET sum == IF t + minutes < 0 THEN 0 ELSE IF t + minutes > Day THEN Day ELSE t + minutes
    IN  IF sum = Day /\ ~allow24 THEN Day - 10 ELSE sum

Rounded(t) == ((t + 5) \div 10) * 10

\* normalize_editor_time: midnight as an end is 24:00, and an end never rounds down
\* to the start of the day.
NormalStart(t) == IF Rounded(t) > Day - 10 THEN Day - 10 ELSE Rounded(t)
NormalEnd(t)   == IF t = 0 \/ Rounded(t) >= Day THEN Day ELSE IF Rounded(t) = 0 THEN 10 ELSE Rounded(t)

\* set_editor_slot: the other side follows when the slot would not be an interval.
SetStart(slot, t) ==
    LET start == NormalStart(t) IN
    IF slot[2] = None \/ slot[2] <= start THEN <<start, Plus(start, Hour, TRUE)>> ELSE <<start, slot[2]>>

SetEnd(slot, t) ==
    LET end == NormalEnd(t) IN
    IF slot[1] = None \/ slot[1] >= end THEN <<Plus(end, -Hour, FALSE), end>> ELSE <<slot[1], end>>

\* The other slots that are on, by their start.
Occupied(slots, n) ==
    LET on == {slots[m] : m \in {m \in 1 .. NumSlots \ {n} : slots[m] # Off}}
    IN  CHOOSE line \in [1 .. Cardinality(on) -> on] :
            /\ ToSet(line) = on
            /\ \A i, j \in DOMAIN line : i < j => line[i][1] <= line[j][1]

\* What is between them: from the latest end so far to the next start, if there is
\* something between.
Gaps(occupied) ==
    [k \in 1 .. Len(occupied) + 1 |->
        <<Max({0} \cup {occupied[i][2] : i \in 1 .. k - 1}), IF k <= Len(occupied) THEN occupied[k][1] ELSE Day>>]

\* default_editor_interval: an hour, or what the gap has, after the slot before it if
\* there is room, anywhere else if there is none.  Off stands for its ValueError.
DefaultInterval(slots, n) ==
    LET preferred == IF n > 1 /\ slots[n - 1] # Off THEN slots[n - 1][2] ELSE 6 * Hour
        gaps  == Gaps(Occupied(slots, n))
        room  == {k \in DOMAIN gaps : gaps[k][1] < gaps[k][2]}
        later == {k \in room : preferred < gaps[k][2]}
        from  == [k \in room |-> IF later # {} /\ preferred > gaps[k][1] THEN preferred ELSE gaps[k][1]]
        fits  == {k \in IF later # {} THEN later ELSE room : gaps[k][2] - from[k] >= 10}
        first == Min(fits)
    IN  IF fits = {} THEN Off
        ELSE <<from[first], IF from[first] + Hour < gaps[first][2] THEN from[first] + Hour ELSE gaps[first][2]>>

-----------------------------------------------------------------------------
GridIntervals == {i \in (Grid \cap Steps) \X Grid : i[1] < i[2]}
GridSchedules == {s \in UNION {[1 .. n -> GridIntervals] : n \in 0 .. NumSlots} : IsSchedule(s)}
\* Drafts as they are loaded and edited: sorted or not, with gaps, overlapping.
GridDrafts    == [1 .. NumSlots -> GridIntervals \cup {Off}]
Overlap(i, j) == i[1] < j[2] /\ j[1] < i[2]

\* What a day's block says after it was written is the schedule it was made from
\* (encode_schedule, decode_block): no time of the day and no number of slots is
\* changed on the way, and every byte is one.
BlockSaysItsSchedule ==
    /\ \A s \in GridSchedules :
        /\ Readable(Encode(s)) /\ Decode(Encode(s)) = s
        /\ Writable(SlotsOf(s)) /\ ScheduleOf(SlotsOf(s)) = s
    /\ \A t \in Steps \cup {Day} : EncodeTime(t) \in 0 .. Free - 1 /\ DecodeTime(EncodeTime(t)) = t

\* Whatever time the user picks for one side of a slot, the slot is an interval that
\* the controller can keep (set_editor_slot, normalize_editor_time).
EditedSlotIsAnInterval ==
    \A slot \in GridIntervals \cup {Off} :
        /\ \A t \in 0 .. Day - 1 : IsInterval(SetStart(slot, t))
        /\ \A t \in 0 .. Day     : IsInterval(SetEnd(slot, t))

\* Switching a slot on never puts it over another one, and fails only when the other
\* slots fill the day (default_editor_interval).
DefaultIntervalIsFree ==
    \A slots \in GridDrafts, n \in 1 .. NumSlots :
        LET i      == DefaultInterval(slots, n)
            others == {slots[m] : m \in {m \in 1 .. NumSlots \ {n} : slots[m] # Off}}
        IN  IF i = Off
            THEN \A t \in Grid \cap Steps : \E o \in others : o[1] <= t /\ t < o[2]
            ELSE IsInterval(i) /\ \A o \in others : ~Overlap(i, o)

\* The editor's arithmetic: what goes into a block can be kept by the controller and
\* comes out again.
EditorArithmetic == BlockSaysItsSchedule /\ EditedSlotIsAnInterval /\ DefaultIntervalIsFree
=============================================================================
