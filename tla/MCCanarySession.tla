--------------------------- MODULE MCCanarySession ---------------------------
(* The splitter, the clock's timer and two writer services. *)
EXTENDS CanarySession

MCWriters == <<"party", "schedule">>
=============================================================================
