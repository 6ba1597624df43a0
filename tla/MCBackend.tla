------------------------------ MODULE MCBackend -------------------------------
(* Small instance of Backend.  The program "syscall" is left out, for its  *)
(* stream is one of which every event counts, like that of "anomaly", and  *)
(* "cpu", which has no ring and does what a program does whose ring did    *)
(* not open.                                                               *)
EXTENDS Backend, TLC

TwoPrograms == <<"network", "anomaly">>
Threads == Permutations(Requests)
=============================================================================
