--------------------------- MODULE MCNetworkMonitor ---------------------------
(* Small instances of NetworkMonitor: two processes of a thread each, two  *)
(* sockets alike, a byte or two at a time.                                 *)
EXTENDS NetworkMonitor, TLC

CONSTANTS t1, p1, p2

MCProcOf == [th \in Threads |-> IF th = t1 THEN p1 ELSE p2]

(* Two accepts at a time are more than the kretprobe can follow.           *)
MCMaxActive == [f \in {"connect", "accept", "recv"} |->
                  IF f = "accept" THEN 1 ELSE 2]

AlikeSocks == Permutations(Socks)
=============================================================================
