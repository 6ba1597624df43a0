------------------------------ MODULE MCRateRace ------------------------------
(* Small instances of RateRace: a process of two threads and one of a      *)
(* single thread.                                                          *)
EXTENDS RateRace

CONSTANTS t1, t2, t3, p1, p2

MCProcOf == [th \in Threads |-> IF th = t3 THEN p2 ELSE p1]
=============================================================================
