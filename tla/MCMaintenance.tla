---------------------------- MODULE MCMaintenance ----------------------------
(* Three operations: a snapshot, a confirmed change, and the confirmed reset. *)
EXTENDS Maintenance

MCJobs ==
    {[kind |-> "status", val |-> 0, mode |-> "plain"],
     [kind |-> "set", val |-> 2, mode |-> "confirmed"],
     [kind |-> "reset", val |-> 0, mode |-> "confirmed"]}
=============================================================================
