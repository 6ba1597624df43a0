---------------------------- MODULE NetworkMonitor ----------------------------
(***************************************************************************)
(* src/src/network_monitor.c: probes on tcp_v4_connect, inet_csk_accept,   *)
(* tcp_sendmsg and tcp_recvmsg.  connect and recv share the hash           *)
(* sock_store, where the entry probe leaves the socket for the return      *)
(* probe of the same thread; tx_bytes and rx_bytes add up bytes per        *)
(* process; conn_start keeps the time a connection was made.               *)
(*                                                                         *)
(* A probe run is one step: it touches the entry of its own thread, adds   *)
(* with lock_xadd, and submits.  The calls themselves are not: other       *)
(* threads run between the entry and the return of a call.                 *)
(***************************************************************************)
EXTENDS Integers, Sequences, FiniteSets, FiniteSetsExt, PerfBuffer

CONSTANTS
  Threads,    \* the threads that use TCP (pid_tgid)
  Pids,       \* their processes
  ProcOf,     \* the process of each thread
  Socks,      \* the sockets (kernel addresses, reused after a close)
  NoSock,     \* the socket of an accept that has not returned
  StoreSize,  \* max_entries of sock_store
  StartSize,  \* max_entries of conn_start
  BytesSize,  \* max_entries of tx_bytes and of rx_bytes
  MaxActive,  \* per function: calls its kretprobe can follow at a time
  MaxBytes,   \* bound: bytes of one send or receive
  MaxOps      \* bound: calls made by all threads

ASSUME NetworkMonitorAssumption ==
  /\ IsFiniteSet(Threads) /\ IsFiniteSet(Socks) /\ IsFiniteSet(Pids)
  /\ ProcOf \in [Threads -> Pids]
  /\ NoSock \notin Socks
  /\ {StoreSize, StartSize, BytesSize, MaxBytes, MaxOps} \subseteq Nat
  /\ MaxActive \in [{"connect", "accept", "recv"} -> Nat]

VARIABLES
  attached,   \* how many of the Probes are attached
  ops,        \* history: the calls made, with the process and whether a
              \*   kretprobe follows them
  op,         \* per thread: the number of its current call, 0 outside
  hooked,     \* the threads whose current call returns through a kretprobe
  store,      \* sock_store: per thread the number of the call that stored
              \*   its socket, 0 when there is no entry
  conn_start, \* the sockets that have a start time
  tx_bytes,   \* a function on the processes that have an entry
  rx_bytes,   \* a function on the processes that have an entry
  open,       \* kernel: the sockets of open connections
  sent,       \* kernel: per process, the bytes the stack took under the probe
  made        \* history: the connects and accepts that made a connection

netVars == <<attached, ops, op, hooked, store, conn_start, tx_bytes, rx_bytes,
             open, sent, made>>
vars == <<netVars, perfVars>>

ProbesRecvSwapped == \* mutant: recv's return probe before its entry probe
  << <<"connect", "entry">>, <<"connect", "return">>,
     <<"accept", "return">>, <<"send", "entry">>,
     <<"recv", "return">>, <<"recv", "entry">> >>

ProbesConnectSwapped == \* mutant: connect's return probe before its entry
  << <<"connect", "return">>, <<"connect", "entry">>,
     <<"accept", "return">>, <<"send", "entry">>,
     <<"recv", "entry">>, <<"recv", "return">> >>

(* bpf_worker and tools/network_monitor.py attach them in this order.      *)
Probes == << <<"connect", "entry">>, <<"connect", "return">>,
             <<"accept", "return">>, <<"send", "entry">>,
             <<"recv", "entry">>, <<"recv", "return">> >>

On(function, probe) == \E i \in 1 .. attached : Probes[i] = <<function, probe>>

Event == [op : 1 .. MaxOps, type : {"CONNECT", "ACCEPT", "SEND", "RECV"},
          from : 1 .. MaxOps, pid : Pids, bytes : 0 .. MaxBytes]

Call == [function : {"connect", "accept", "send", "recv"}, pid : Pids,
         sock : Socks \union {NoSock}, followed : BOOLEAN]

Inside(th, function) == op[th] # 0 /\ ops[op[th]].function = function

Busy(s) == \E th \in Threads : op[th] # 0 /\ ops[op[th]].sock = s

Idle(s) == s \notin open /\ ~Busy(s)

StoreHasRoom == Cardinality({th \in Threads : store[th] # 0}) < StoreSize

-----------------------------------------------------------------------------
Init ==
  /\ attached = 0
  /\ ops = <<>>
  /\ op = [th \in Threads |-> 0]
  /\ hooked = {}
  /\ store = [th \in Threads |-> 0]
  /\ conn_start = {}
  /\ tx_bytes = <<>>
  /\ rx_bytes = <<>>
  /\ open = {}
  /\ sent = [p \in Pids |-> 0]
  /\ made = {}
  /\ PerfInit

Attach ==
  /\ attached < Len(Probes)
  /\ attached' = attached + 1
  /\ UNCHANGED <<ops, op, hooked, store, conn_start, tx_bytes, rx_bytes, open,
                 sent, made, perfVars>>

OpenBuffer ==
  /\ attached = Len(Probes)
  /\ \E cpu \in Cpus : OpenRing(cpu)
  /\ UNCHANGED netVars

Poll(cpu) == Deliver(cpu) /\ UNCHANGED netVars

-----------------------------------------------------------------------------
Emit(e) == \E cpu \in Cpus : PerfSubmit(cpu, e)

StartedUnbounded(s) == conn_start \union {s} \* mutant: no limit

(* conn_start.update: a new key is refused when the hash is full.          *)
Started(s) ==
  IF s \in conn_start \/ Cardinality(conn_start) < StartSize
  THEN conn_start \union {s} ELSE conn_start

BytesHaveRoom(bytes, p) ==
  p \in DOMAIN bytes \/ Cardinality(DOMAIN bytes) < BytesSize

Value(bytes, p) == IF p \in DOMAIN bytes THEN bytes[p] ELSE 0

Assigned(bytes, p, size) == \* mutant: the sum is overwritten
  IF BytesHaveRoom(bytes, p)
  THEN [q \in DOMAIN bytes \union {p} |-> IF q = p THEN size ELSE bytes[q]]
  ELSE bytes

(* lookup_or_try_init and lock_xadd on tx_bytes or rx_bytes.               *)
Added(bytes, p, size) ==
  IF BytesHaveRoom(bytes, p)
  THEN [q \in DOMAIN bytes \union {p} |->
          IF q = p THEN Value(bytes, p) + size ELSE bytes[q]]
  ELSE bytes

NewCall(th, function, s, followed) ==
  /\ op[th] = 0
  /\ Len(ops) < MaxOps
  /\ ops' = Append(ops, [function |-> function, pid |-> ProcOf[th], sock |-> s,
                         followed |-> followed])

(* The kretprobe of a function follows a call that begins when it is       *)
(* attached and has an instance left.                                      *)
Follows(function) ==
  /\ On(function, "return")
  /\ Cardinality({o \in hooked : Inside(o, function)}) < MaxActive[function]

Begin(th, function, s) ==
  /\ NewCall(th, function, s, Follows(function))
  /\ op' = [op EXCEPT ![th] = Len(ops) + 1]
  /\ hooked' = IF Follows(function) THEN hooked \union {th} ELSE hooked
  /\ UNCHANGED <<attached, conn_start, tx_bytes, rx_bytes, open, sent, made,
                 perfVars>>

(* trace_connect_entry and trace_tcp_recvmsg: sock_store.update.           *)
StoreSock(th, function) ==
  store' = IF On(function, "entry") /\ (store[th] # 0 \/ StoreHasRoom)
           THEN [store EXCEPT ![th] = Len(ops) + 1] ELSE store

End(th, function) ==
  /\ Inside(th, function)
  /\ op' = [op EXCEPT ![th] = 0]
  /\ hooked' = hooked \ {th}
  /\ UNCHANGED <<attached, ops>>

Connect(th, s) ==
  /\ Idle(s)
  /\ StoreSock(th, "connect")
  /\ Begin(th, "connect", s)

ConnectReturn(th) ==
  /\ End(th, "connect")
  /\ open' = open \union {ops[op[th]].sock}
  /\ made' = made \union {op[th]}
  /\ IF th \in hooked /\ store[th] # 0
     THEN /\ conn_start' = Started(ops[store[th]].sock)
          /\ Emit([op |-> op[th], type |-> "CONNECT", from |-> store[th],
                   pid |-> ProcOf[th], bytes |-> 0])
          /\ store' = [store EXCEPT ![th] = 0]
     ELSE UNCHANGED <<conn_start, store, perfVars>>
  /\ UNCHANGED <<tx_bytes, rx_bytes, sent>>

Accept(th) ==
  /\ Begin(th, "accept", NoSock)
  /\ UNCHANGED store

AcceptReturn(th, s) ==
  /\ Idle(s)
  /\ End(th, "accept")
  /\ open' = open \union {s}
  /\ made' = made \union {op[th]}
  /\ IF th \in hooked
     THEN /\ conn_start' = Started(s)
          /\ Emit([op |-> op[th], type |-> "ACCEPT", from |-> op[th],
                   pid |-> ProcOf[th], bytes |-> 0])
     ELSE UNCHANGED <<conn_start, perfVars>>
  /\ UNCHANGED <<store, tx_bytes, rx_bytes, sent>>

(* if (ret != 0) return 0 and if (!newsk) return 0: the entry of a failed  *)
(* connect stays in sock_store.                                            *)
Fail(th) ==
  /\ End(th, "connect") \/ End(th, "accept")
  /\ UNCHANGED <<store, conn_start, tx_bytes, rx_bytes, open, sent, made,
                 perfVars>>

(* trace_tcp_sendmsg runs at the entry of tcp_sendmsg, with the size asked *)
(* for, which may be nothing; the stack then takes some of it, nothing     *)
(* when the call fails.                                                    *)
Send(th, s, size) ==
  LET p == ProcOf[th]
      n == Len(ops) + 1
  IN /\ s \in open
     /\ NewCall(th, "send", s, FALSE)
     /\ IF On("send", "entry")
        THEN /\ tx_bytes' = Added(tx_bytes, p, size)
             /\ \E taken \in 0 .. size : sent' = [sent EXCEPT ![p] = @ + taken]
             /\ Emit([op |-> n, type |-> "SEND", from |-> n, pid |-> p,
                      bytes |-> size])
        ELSE UNCHANGED <<tx_bytes, sent, perfVars>>
     /\ UNCHANGED <<attached, op, hooked, store, conn_start, rx_bytes, open,
                    made>>

Recv(th, s) ==
  /\ s \in open
  /\ StoreSock(th, "recv")
  /\ Begin(th, "recv", s)

(* trace_tcp_recvmsg_return: when nothing was received (size 0, an error   *)
(* included) the entry stays.                                              *)
RecvReturn(th, size) ==
  /\ End(th, "recv")
  /\ IF th \in hooked /\ size > 0
     THEN /\ rx_bytes' = Added(rx_bytes, ProcOf[th], size)
          /\ IF store[th] # 0
             THEN /\ Emit([op |-> op[th], type |-> "RECV", from |-> store[th],
                           pid |-> ProcOf[th], bytes |-> size])
                  /\ store' = [store EXCEPT ![th] = 0]
             ELSE UNCHANGED <<store, perfVars>>
     ELSE UNCHANGED <<rx_bytes, store, perfVars>>
  /\ UNCHANGED <<conn_start, tx_bytes, open, sent, made>>

(* No probe sees a connection close.                                       *)
Close(s) ==
  /\ s \in open /\ ~Busy(s)
  /\ open' = open \ {s}
  /\ UNCHANGED <<attached, ops, op, hooked, store, conn_start, tx_bytes,
                 rx_bytes, sent, made, perfVars>>

Next ==
  \/ Attach \/ OpenBuffer
  \/ \E th \in Threads :
       \/ \E s \in Socks : Connect(th, s) \/ AcceptReturn(th, s) \/ Recv(th, s)
       \/ \E s \in Socks, size \in 0 .. MaxBytes : Send(th, s, size)
       \/ \E size \in 0 .. MaxBytes : RecvReturn(th, size)
       \/ ConnectReturn(th) \/ Accept(th) \/ Fail(th)
  \/ \E s \in Socks : Close(s)
  \/ \E cpu \in Cpus : Poll(cpu)

Spec == Init /\ [][Next]_vars

-----------------------------------------------------------------------------
ByteTotals(bytes) ==
  DOMAIN bytes \subseteq Pids /\ \A p \in DOMAIN bytes : bytes[p] \in Nat

TypeOK ==
  /\ attached \in 0 .. Len(Probes)
  /\ ops \in Seq(Call) /\ Len(ops) <= MaxOps
  /\ op \in [Threads -> 0 .. MaxOps]
  /\ hooked \subseteq Threads
  /\ store \in [Threads -> 0 .. MaxOps]
  /\ conn_start \subseteq Socks /\ Cardinality(conn_start) <= StartSize
  /\ ByteTotals(tx_bytes) /\ ByteTotals(rx_bytes)
  /\ open \subseteq Socks
  /\ sent \in [Pids -> Nat]
  /\ made \subseteq 1 .. MaxOps
  /\ PerfTypeOK(Event)

(* An event reports the socket of the call that raised it, although connect*)
(* and recv leave entries behind in the hash they share.                   *)
EventNamesItsCall == \A e \in Submitted : e.from = e.op

(* README: "Full visibility into TCP connect() and accept() events": every *)
(* connection has its event whose call began under the probes and found an *)
(* instance of the kretprobe.  It is so while sock_store has room for each *)
(* thread; failed connects and empty receives leave entries there, and     *)
(* when it is full the connections of other threads have none.             *)
AllAreReported ==
  \A n \in made : ops[n].followed => \E e \in Submitted : e.op = n

(* The same as long as sock_store has room for every thread: no order of   *)
(* calls and attachment loses a connection.                                *)
FollowedIsReported == StoreSize >= Cardinality(Threads) => AllAreReported

EventBytes(p, type) ==
  MapThenSumSet(LAMBDA e : e.bytes,
                {e \in Submitted : e.pid = p /\ e.type = type})

(* A process that has an entry in tx_bytes has had every send counted, and *)
(* one in rx_bytes every receive an event was raised for: the totals agree *)
(* with the events, whatever was lost on the way to user space, and cover  *)
(* what was really sent although a send is counted before it is made.      *)
TotalsCoverEvents ==
  \A p \in Pids :
    /\ p \in DOMAIN tx_bytes => /\ tx_bytes[p] = EventBytes(p, "SEND")
                                /\ tx_bytes[p] >= sent[p]
    /\ p \in DOMAIN rx_bytes => rx_bytes[p] >= EventBytes(p, "RECV")
=============================================================================
