--------------------------- MODULE MCSyscallTracer ---------------------------
(* Small instances of SyscallTracer: a process of two threads and one of a *)
(* single thread.                                                          *)
EXTENDS SyscallTracer

CONSTANTS proc1, proc2, lead1, other1, lead2

MCPidOf == [id \in Ids |-> IF id = lead2 THEN proc2 ELSE proc1]
MCLeader == [x \in Pids |-> IF x = proc2 THEN lead2 ELSE lead1]
=============================================================================
