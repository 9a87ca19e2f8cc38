---------------------------- MODULE MCHeartbeat -----------------------------
(* Heartbeat on small numbers: Port + d < Low \div 2 for every d * d <= High. *)
EXTENDS Heartbeat

MCSkews == -1 .. 1
=============================================================================
