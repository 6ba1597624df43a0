---------------------------- MODULE SyscallTracer ----------------------------
(***************************************************************************)
(* src/src/syscall_tracer.c: tracepoints on openat and execve, whose entry *)
(* probes leave the call in the hash infotbl for the exit probe of the     *)
(* same pid_tgid, and on the exits of read and write, which add up bytes   *)
(* per process.  A probe run is one step: the entry it touches is that of  *)
(* its own thread, and bytes are added with lock_xadd.                     *)
(*                                                                         *)
(* The kernel around the probes is external: threads come and go, and an   *)
(* execve that succeeds ends the other threads of the process and gives    *)
(* the calling thread the id of the leader.  The events are those given to *)
(* perf_submit; PerfBuffer says what becomes of them.                      *)
(***************************************************************************)
EXTENDS Integers, Sequences, FiniteSets, FiniteSetsExt, Functions

CONSTANTS
  Pids,       \* the processes (tgid)
  Ids,        \* the thread ids (pid_tgid)
  PidOf,      \* the process of an id, its upper half
  Leader,     \* per process: the id of the thread with its own number
  InfoSize,   \* max_entries of infotbl
  BytesSize,  \* max_entries of read_bytes and of write_bytes
  MaxBytes,   \* bound: bytes of a read or write
  MaxOps      \* bound: calls made by all threads

ASSUME SyscallTracerAssumption ==
  /\ IsFiniteSet(Ids) /\ IsFiniteSet(Pids)
  /\ PidOf \in [Ids -> Pids]
  /\ Leader \in [Pids -> Ids]
  /\ \A p \in Pids : PidOf[Leader[p]] = p
  /\ {InfoSize, BytesSize, MaxBytes, MaxOps} \subseteq Nat

VARIABLES
  attached,    \* how many of the Probes are attached
  alive,       \* kernel: the ids of running threads
  ops,         \* history: the calls made, each with how many probes were
               \*   attached when it began and how it ended
  op,          \* per id: the number of its current call, 0 outside
  infotbl,     \* per id the number of the call stored; no entry, no value
  read_bytes,  \* per process; no entry, no value
  write_bytes, \* per process; no entry, no value
  events       \* the events submitted

sums == <<read_bytes, write_bytes>>
vars == <<attached, alive, ops, op, infotbl, sums, events>>

ProbesExitFirst == \* mutant: the exit of openat is traced before its entry
  <<"exit_openat", "enter_openat", "enter_execve", "exit_execve",
    "exit_read", "exit_write">>

(* BCC attaches tracepoints in the order of the source.                    *)
Probes == <<"enter_openat", "exit_openat", "enter_execve", "exit_execve",
            "exit_read", "exit_write">>

Index(probe) == CHOOSE i \in 1 .. Len(Probes) : Probes[i] = probe

On(probe) == Index(probe) <= attached

EnterProbe(call) == IF call = "openat" THEN "enter_openat" ELSE "enter_execve"
ExitProbe(call) == IF call = "openat" THEN "exit_openat" ELSE "exit_execve"

Call == [call : {"openat", "execve", "read", "write"}, id : Ids,
         probes : 0 .. Len(Probes), end : {"", "done", "failed"}]

(* op is the call whose exit probe ran, from the call the event describes. *)
Event == [op : 1 .. MaxOps, from : 1 .. MaxOps, pid : Pids, bytes : 0 .. MaxBytes]

Has(map, x, size) == x \in DOMAIN map \/ Cardinality(DOMAIN map) < size

PutUnbounded(map, x, value, size) == \* mutant: the hash has no limit
  [y \in DOMAIN map \union {x} |-> IF y = x THEN value ELSE map[y]]

(* The update of a hash: a new entry is refused when the hash is full.     *)
Put(map, x, value, size) ==
  IF Has(map, x, size)
  THEN [y \in DOMAIN map \union {x} |-> IF y = x THEN value ELSE map[y]]
  ELSE map

Delete(map, x) == Restrict(map, DOMAIN map \ {x})

-----------------------------------------------------------------------------
Init ==
  /\ attached = 0
  /\ alive \in SUBSET Ids
  /\ ops = <<>>
  /\ op = [id \in Ids |-> 0]
  /\ infotbl = <<>> /\ read_bytes = <<>> /\ write_bytes = <<>>
  /\ events = {}

Attach ==
  /\ attached < Len(Probes)
  /\ attached' = attached + 1
  /\ UNCHANGED <<alive, ops, op, infotbl, sums, events>>

Begun(id, call, end) ==
  Append(ops, [call |-> call, id |-> id, probes |-> attached, end |-> end])

(* sys_enter_openat, sys_enter_execve                                      *)
Enter(id, call) ==
  /\ id \in alive /\ op[id] = 0 /\ Len(ops) < MaxOps
  /\ ops' = Begun(id, call, "")
  /\ op' = [op EXCEPT ![id] = Len(ops) + 1]
  /\ infotbl' = IF On(EnterProbe(call))
                THEN Put(infotbl, id, Len(ops) + 1, InfoSize) ELSE infotbl
  /\ UNCHANGED <<attached, alive, sums, events>>

(* sys_exit_openat, sys_exit_execve for call n under the id it ends with:  *)
(* the entry of that id, if any, is completed, submitted and deleted.      *)
ExitKeeps(n, id) == \* mutant: infotbl.delete is forgotten
  IF On(ExitProbe(ops[n].call)) /\ id \in DOMAIN infotbl
  THEN /\ events' = events \union {[op |-> n, from |-> infotbl[id],
                                    pid |-> PidOf[id], bytes |-> 0]}
       /\ UNCHANGED infotbl
  ELSE UNCHANGED <<events, infotbl>>

Exit(n, id) ==
  IF On(ExitProbe(ops[n].call)) /\ id \in DOMAIN infotbl
  THEN /\ events' = events \union {[op |-> n, from |-> infotbl[id],
                                    pid |-> PidOf[id], bytes |-> 0]}
       /\ infotbl' = Delete(infotbl, id)
  ELSE UNCHANGED <<events, infotbl>>

(* An openat returns, or an execve fails.                                  *)
Return(id) ==
  LET n == op[id]
      end == IF ops[n].call = "openat" THEN "done" ELSE "failed"
  IN /\ n # 0
     /\ op' = [op EXCEPT ![id] = 0]
     /\ ops' = [ops EXCEPT ![n].end = end]
     /\ Exit(n, id)
     /\ UNCHANGED <<attached, alive, sums>>

(* An execve succeeds once the other threads of the process have left      *)
(* their calls and ended: it exits under the id of the leader.             *)
Exec(id) ==
  LET n == op[id]
      p == PidOf[id]
  IN /\ n # 0 /\ ops[n].call = "execve"
     /\ \A o \in alive \ {id} : PidOf[o] = p => op[o] = 0
     /\ alive' = {o \in alive : PidOf[o] # p} \union {Leader[p]}
     /\ op' = [op EXCEPT ![id] = 0]
     /\ ops' = [ops EXCEPT ![n].end = "done"]
     /\ Exit(n, Leader[p])
     /\ UNCHANGED <<attached, sums>>

CountedIfNew(bytes, p, size) == \* mutant: an entry is made but not added to
  IF p \in DOMAIN bytes THEN bytes ELSE Put(bytes, p, size, BytesSize)

(* sys_exit_read and sys_exit_write, when something was transferred.       *)
Counted(bytes, p, size) ==
  Put(bytes, p, size + (IF p \in DOMAIN bytes THEN bytes[p] ELSE 0), BytesSize)

Transfer(id, call, size) ==
  LET p == PidOf[id]
  IN /\ id \in alive /\ op[id] = 0 /\ Len(ops) < MaxOps
     /\ ops' = Begun(id, call, "done")
     /\ IF On(IF call = "read" THEN "exit_read" ELSE "exit_write")
        THEN /\ read_bytes' = IF call = "read"
                              THEN Counted(read_bytes, p, size) ELSE read_bytes
             /\ write_bytes' = IF call = "write"
                               THEN Counted(write_bytes, p, size) ELSE write_bytes
             /\ events' = events \union {[op |-> Len(ops) + 1, from |-> Len(ops) + 1,
                                          pid |-> p, bytes |-> size]}
        ELSE UNCHANGED <<sums, events>>
     /\ UNCHANGED <<attached, alive, op, infotbl>>

Leads(id) == id = Leader[PidOf[id]]

Threads(p) == {id \in alive : PidOf[id] = p}

(* A process starts when its number is free; one that runs gets threads.   *)
Spawn(id) ==
  /\ id \notin alive
  /\ Leads(id) <=> Threads(PidOf[id]) = {}
  /\ alive' = alive \union {id}
  /\ UNCHANGED <<attached, ops, op, infotbl, sums, events>>

ThreadEnds(id) ==
  /\ id \in alive /\ op[id] = 0
  /\ alive' = alive \ {id}
  /\ UNCHANGED <<attached, ops, op, infotbl, sums, events>>

Next ==
  \/ Attach
  \/ \E id \in Ids :
       \/ \E call \in {"openat", "execve"} : Enter(id, call)
       \/ Return(id) \/ Exec(id) \/ Spawn(id) \/ ThreadEnds(id)
       \/ \E call \in {"read", "write"}, size \in 1 .. MaxBytes :
            Transfer(id, call, size)

Spec == Init /\ [][Next]_vars

-----------------------------------------------------------------------------
Hash(map, Keys, Values) ==
  DOMAIN map \subseteq Keys /\ \A x \in DOMAIN map : map[x] \in Values

TypeOK ==
  /\ attached \in 0 .. Len(Probes)
  /\ alive \subseteq Ids
  /\ ops \in Seq(Call) /\ Len(ops) <= MaxOps
  /\ op \in [Ids -> 0 .. MaxOps]
  /\ \A id \in Ids : op[id] # 0 => id \in alive
  /\ Hash(infotbl, Ids, 1 .. MaxOps) /\ Cardinality(DOMAIN infotbl) <= InfoSize
  /\ Hash(read_bytes, Pids, Nat) /\ Cardinality(DOMAIN read_bytes) <= BytesSize
  /\ Hash(write_bytes, Pids, Nat) /\ Cardinality(DOMAIN write_bytes) <= BytesSize
  /\ events \subseteq Event

(* A call that began when its exit probe was attached, the last of its two.*)
Traced(n) == ops[n].probes >= Index(ExitProbe(ops[n].call))

(* An event describes the call that returned, although an exit probe takes *)
(* what it finds under its id: only what a call left there that began while*)
(* the probes were being attached can be taken for another call.           *)
EventNamesItsCall == \A e \in events : e.from # e.op => ~Traced(e.from)

TracedCalls(calls) ==
  {n \in DOMAIN ops : ops[n].call \in calls /\ Traced(n)}

Reported(n) == \E e \in events : e.op = n /\ e.from = n

(* "Real-time open() calls - every file the OS touches": as long as infotbl*)
(* has room for every thread, a traced openat that returned was reported,  *)
(* and so was an execve that failed or was made by the leading thread.     *)
ReturnedIsReported ==
  InfoSize >= Cardinality(Ids) =>
    \A n \in TracedCalls({"openat", "execve"}) :
      \/ ops[n].end = ""
      \/ ops[n].call = "execve" /\ ops[n].end = "done" /\ ~Leads(ops[n].id)
      \/ Reported(n)

(* infotbl holds the calls that have not returned.  An entry that is left  *)
(* over comes from the time the probes were attached, or from an execve    *)
(* that changed the id of its thread.                                      *)
LeftoversExplained ==
  \A id \in DOMAIN infotbl :
    LET n == infotbl[id]
    IN op[id] = n \/ ~Traced(n)
       \/ (ops[n].call = "execve" /\ ops[n].end = "done" /\ ~Leads(id))

(* The totals of a process agree with the events submitted for it.         *)
EventBytes(p, call) ==
  MapThenSumSet(LAMBDA e : e.bytes,
                {e \in events : e.pid = p /\ ops[e.op].call = call})

TotalsMatchEvents ==
  /\ \A p \in DOMAIN read_bytes : read_bytes[p] = EventBytes(p, "read")
  /\ \A p \in DOMAIN write_bytes : write_bytes[p] = EventBytes(p, "write")
=============================================================================
