---------------------------- MODULE MCCpuProfiler ----------------------------
(* Small instances of CpuProfiler: two or three tasks on one or two        *)
(* processors, tasks and processors each alike.                            *)
EXTENDS CpuProfiler, TLC

Alike == Permutations(Tasks) \union Permutations(Cpus)
=============================================================================
