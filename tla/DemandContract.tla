--------------------------- MODULE DemandContract ---------------------------
(***************************************************************************)
(* What the control socket promises the clients of an on-demand read,        *)
(* without queue, time, freeze or lease: an identifier is good for one       *)
(* request, a request is read in one window or in none, what has ended stays *)
(* ended, and a client sees only the bytes of the window that read for it.   *)
(***************************************************************************)
EXTENDS Naturals

CONSTANT Ids

VARIABLES
    life,   \* none, queued, running, or how the request ended
    from,   \* the window whose bytes the client is shown, 0 without any
    count   \* windows so far

contractVars == <<life, from, count>>

Over    == {"completed", "failed", "cancelled", "expired"}
Being(s) == {id \in Ids : life[id] = s}

\* The requests of a set end, or start to be read.
Become(ids, s) == [id \in Ids |-> IF id \in ids THEN s ELSE life[id]]

Init ==
    /\ life = [id \in Ids |-> "none"]
    /\ from = [id \in Ids |-> 0]
    /\ count = 0

\* Only an identifier that was never used becomes a request.
Ask ==
    /\ \E id \in Being("none") : life' = Become({id}, "queued")
    /\ UNCHANGED <<from, count>>

Withdraw ==
    /\ \E id \in Being("queued") : life' = Become({id}, "cancelled")
    /\ UNCHANGED <<from, count>>

\* Requests that wait run out of time; bytes of requests that are over are forgotten.
Tidy ==
    /\ \E late \in SUBSET Being("queued") : life' = Become(late, "expired")
    /\ \E old \in SUBSET {id \in Ids : life'[id] \in Over} :
          from' = [id \in Ids |-> IF id \in old THEN 0 ELSE from[id]]
    /\ UNCHANGED count

\* One window at a time.
Open ==
    /\ Being("running") = {}
    /\ \E ids \in SUBSET Being("queued") : ids # {} /\ life' = Become(ids, "running")
    /\ count' = count + 1
    /\ UNCHANGED from

\* Everything in the window ends with it: read in time, or too late.  The bytes of all
\* that was read are shown, or of nothing when the lease was rejected at the end.
Close ==
    /\ \E done \in SUBSET Being("running") :
          /\ life' = [id \in Ids |-> IF id \in done THEN "completed"
                                     ELSE IF id \in Being("running") THEN "expired" ELSE life[id]]
          /\ \E shown \in {done, {}} : from' = [id \in Ids |-> IF id \in shown THEN count ELSE from[id]]
    /\ UNCHANGED count

Fail ==
    /\ life' = Become(Being("running"), "failed")
    /\ UNCHANGED <<from, count>>

Next == Ask \/ Withdraw \/ Tidy \/ Open \/ Close \/ Fail

Spec == Init /\ [][Next]_contractVars
=============================================================================
