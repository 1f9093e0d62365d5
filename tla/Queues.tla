------------------------------- MODULE Queues -------------------------------
(***************************************************************************)
(* The waiting lines of scheduler.py: a deque from which entries leave not    *)
(* only in front, but wherever they expired, were cancelled or selected.  The *)
(* schedule manager's slots lose the ones that are off in the same way.       *)
(***************************************************************************)
EXTENDS Naturals, Sequences

\* The queue without the members of a set; the others keep their order.
Without(queue, gone) ==
    LET kept[n \in 0 .. Len(queue)] ==
            IF n = 0 THEN <<>>
            ELSE IF queue[n] \in gone THEN kept[n - 1] ELSE Append(kept[n - 1], queue[n])
    IN  kept[Len(queue)]
=============================================================================
