---------------------------- MODULE SplitterLink ----------------------------
(***************************************************************************)
(* The splitter and the controller behind it, as a helper service sees them *)
(* over MQTT: requests are published to mqtt_listen, the splitter works      *)
(* them off in order, and answers on mqtt_respond.  An answer names the      *)
(* datapoint and a value but not the request it belongs to, so a helper that *)
(* has given up on a request can take its late answer for that of the next   *)
(* request to the same datapoint.                                           *)
(*                                                                          *)
(* A fault is a write without effect, an answer of failure, a request or     *)
(* answer that is lost, or a timeout while the answer can still come.        *)
(***************************************************************************)
EXTENDS Naturals, Sequences

CONSTANTS
    Datapoints, \* the addresses a helper uses
    Values,     \* what a datapoint can hold
    MaxFaults   \* bound: faults of a behaviour

ASSUME LinkAssumption == 0 \in Values /\ MaxFaults \in Nat

VARIABLES
    link,   \* requests published and not yet answered, oldest first
    ctl,    \* the controller's datapoints
    faults  \* faults so far

linkVars == <<link, ctl, faults>>

ReadOf(a)     == [op |-> "r", addr |-> a, val |-> 0]
WriteOf(a, v) == [op |-> "w", addr |-> a, val |-> v]
Reply(a, b, v) == [addr |-> a, ok |-> b, val |-> v]

LinkRequests == [op : {"r", "w"}, addr : Datapoints, val : Values]

LinkTypeOK ==
    /\ link \in Seq(LinkRequests)
    /\ ctl \in [Datapoints -> Values]
    /\ faults \in 0 .. MaxFaults

LinkInit ==
    /\ link = <<>>
    /\ ctl \in [Datapoints -> Values]
    /\ faults = 0

Fault == faults < MaxFaults /\ faults' = faults + 1

Applied(r) == [ctl EXCEPT ![r.addr] = IF r.op = "w" THEN r.val ELSE @]

\* What r can be answered with: a read with the value, a write with the response
\* byte of the controller, 00, or with what was written.
Successes(r) ==
    {Reply(r.addr, TRUE, v) : v \in IF r.op = "r" THEN {ctl[r.addr]} ELSE {0, r.val}}
Failure(r) == Reply(r.addr, FALSE, 0)

\* The splitter works off its oldest request and answers it with reply.
Serve(reply) ==
    /\ link # <<>>
    /\ link' = Tail(link)
    /\ LET r == Head(link) IN
        \/ reply \in Successes(r) /\ ctl' = Applied(r) /\ UNCHANGED faults
        \/ reply \in Successes(r) /\ r.op = "w" /\ UNCHANGED ctl /\ Fault
        \/ reply = Failure(r) /\ ctl' \in {ctl, Applied(r)} /\ Fault

\* A write of several bytes leaves something else behind, one of results.
Garble(reply, results) ==
    /\ link # <<>> /\ Head(link).op = "w"
    /\ link' = Tail(link)
    /\ reply \in Successes(Head(link))
    /\ ctl' \in {[ctl EXCEPT ![Head(link).addr] = v] : v \in results}
    /\ Fault

\* A request is lost on its way, or its answer is.
Lose ==
    /\ link # <<>>
    /\ link' = Tail(link)
    /\ ctl' \in {ctl, Applied(Head(link))}
    /\ Fault

\* The helper stops waiting: free when nothing can come any more.
GiveUp == IF link = <<>> THEN UNCHANGED faults ELSE Fault
=============================================================================
