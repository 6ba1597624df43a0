------------------------------- MODULE NewDest -------------------------------
(***************************************************************************)
(* The rule "new destination IP" of src/src/anomaly_detector.c: a kprobe   *)
(* and a kretprobe on tcp_v4_connect, which meet in the hash sock_store_ad *)
(* under the thread's pid_tgid, and the hash seen_ips of the destinations  *)
(* already reported.  Threads of any process connect at the same time, the *)
(* probes are attached one after the other, the ring is opened last        *)
(* (bpf_worker of src/app.py), and either hash can be full.                *)
(*                                                                         *)
(* The return probe runs as the steps Lookup, Update, Submit, Delete: runs *)
(* on other CPUs come between them.  An address reads as what the socket   *)
(* of that connection connects to.                                         *)
(***************************************************************************)
EXTENDS Integers, Sequences, FiniteSets, PerfBuffer

CONSTANTS
  Threads,    \* the threads that connect (pid_tgid)
  Ips,        \* the destination addresses
  StoreSize,  \* max_entries of sock_store_ad
  SeenSize,   \* max_entries of seen_ips
  MaxConns    \* bound: connections made by a thread

ASSUME NewDestAssumption ==
  /\ IsFiniteSet(Threads) /\ IsFiniteSet(Ips)
  /\ StoreSize \in Nat /\ SeenSize \in Nat /\ MaxConns \in Nat

VARIABLES
  attached,   \* the probes attached: "entry", "return"
  pc,         \* per thread: where it is in its connect call
  dest,       \* per thread: history, the destinations it connected to
  hooked,     \* per thread: this call returns through the kretprobe
  store,      \* sock_store_ad: per thread the number of the connection whose
              \*   socket is stored, 0 when there is no entry
  seen,       \* seen_ips
  contacted   \* history: the destinations connected to under both probes

connVars == <<attached, pc, dest, hooked, store, seen, contacted>>
vars == <<attached, pc, dest, hooked, store, seen, contacted, perfVars>>

Alert == [thread : Threads, conn : 1 .. MaxConns, ip : Ips]

StoreHasRoom == Cardinality({th \in Threads : store[th] # 0}) < StoreSize
SeenHasRoomForOneMore == Cardinality(seen) <= SeenSize \* mutant: off by one
SeenHasRoom == Cardinality(seen) < SeenSize

(* The address the return probe of a thread finds in the stored socket.    *)
Daddr(th) == dest[th][store[th]]

-----------------------------------------------------------------------------
Init ==
  /\ attached = {}
  /\ pc = [th \in Threads |-> "idle"]
  /\ dest = [th \in Threads |-> <<>>]
  /\ hooked = [th \in Threads |-> FALSE]
  /\ store = [th \in Threads |-> 0]
  /\ seen = {}
  /\ contacted = {}
  /\ PerfInit

(* load_bpf attaches the two probes in this order; bpf_worker opens the    *)
(* ring when the other programs are loaded too.                            *)
AttachEntry ==
  /\ attached = {}
  /\ attached' = {"entry"}
  /\ UNCHANGED <<pc, dest, hooked, store, seen, contacted, perfVars>>

AttachReturn ==
  /\ attached = {"entry"}
  /\ attached' = {"entry", "return"}
  /\ UNCHANGED <<pc, dest, hooked, store, seen, contacted, perfVars>>

OpenBuffer ==
  /\ "return" \in attached
  /\ \E cpu \in Cpus : OpenRing(cpu)
  /\ UNCHANGED connVars

(* tcp_v4_connect is entered.  trace_connect_entry stores the socket; the  *)
(* update fails when the entry is new and the hash full.  The kretprobe    *)
(* catches the return of a call it saw the entry of.                       *)
StoreSockOnce(th, n) == \* mutant: an entry left behind is not overwritten
  IF "entry" \in attached /\ store[th] = 0 /\ StoreHasRoom
  THEN store' = [store EXCEPT ![th] = n]
  ELSE UNCHANGED store

StoreSock(th, n) ==
  IF "entry" \in attached /\ (store[th] # 0 \/ StoreHasRoom)
  THEN store' = [store EXCEPT ![th] = n]
  ELSE UNCHANGED store

Connect(th, ip) ==
  /\ pc[th] = "idle"
  /\ Len(dest[th]) < MaxConns
  /\ dest' = [dest EXCEPT ![th] = Append(@, ip)]
  /\ StoreSock(th, Len(dest[th]) + 1)
  /\ hooked' = [hooked EXCEPT ![th] = "return" \in attached]
  /\ pc' = [pc EXCEPT ![th] = "connecting"]
  /\ UNCHANGED <<attached, seen, contacted, perfVars>>

(* if (ret != 0) return 0: the entry of a failed connect stays.            *)
ConnectFails(th) ==
  /\ pc[th] = "connecting"
  /\ pc' = [pc EXCEPT ![th] = "idle"]
  /\ UNCHANGED <<attached, dest, hooked, store, seen, contacted, perfVars>>

(* if (!skp) return 0                                                      *)
ConnectReturns(th) ==
  /\ pc[th] = "connecting"
  /\ pc' = [pc EXCEPT ![th] =
              IF hooked[th] /\ store[th] # 0 THEN "lookup" ELSE "idle"]
  /\ contacted' = IF hooked[th]
                  THEN contacted \union {dest[th][Len(dest[th])]}
                  ELSE contacted
  /\ UNCHANGED <<attached, dest, hooked, store, seen, perfVars>>

Lookup(th) ==
  /\ pc[th] = "lookup"
  /\ pc' = [pc EXCEPT ![th] = IF Daddr(th) \in seen THEN "delete" ELSE "update"]
  /\ UNCHANGED <<attached, dest, hooked, store, seen, contacted, perfVars>>

UpdateOrGiveUp(th) == \* mutant: a failed update ends the run
  /\ pc[th] = "update"
  /\ seen' = IF SeenHasRoom THEN seen \union {Daddr(th)} ELSE seen
  /\ pc' = [pc EXCEPT ![th] = IF SeenHasRoom THEN "submit" ELSE "delete"]
  /\ UNCHANGED <<attached, dest, hooked, store, contacted, perfVars>>

UpdateForgotten(th) == \* mutant: the address is not remembered
  /\ pc[th] = "update"
  /\ pc' = [pc EXCEPT ![th] = "submit"]
  /\ UNCHANGED <<attached, dest, hooked, store, seen, contacted, perfVars>>

(* The update of a new address fails when the hash is full.                *)
Update(th) ==
  /\ pc[th] = "update"
  /\ seen' = IF SeenHasRoom THEN seen \union {Daddr(th)} ELSE seen
  /\ pc' = [pc EXCEPT ![th] = "submit"]
  /\ UNCHANGED <<attached, dest, hooked, store, contacted, perfVars>>

Submit(th) ==
  /\ pc[th] = "submit"
  /\ \E cpu \in Cpus :
       PerfSubmit(cpu, [thread |-> th, conn |-> Len(dest[th]), ip |-> Daddr(th)])
  /\ pc' = [pc EXCEPT ![th] = "delete"]
  /\ UNCHANGED <<attached, dest, hooked, store, seen, contacted>>

Delete(th) ==
  /\ pc[th] = "delete"
  /\ store' = [store EXCEPT ![th] = 0]
  /\ pc' = [pc EXCEPT ![th] = "idle"]
  /\ UNCHANGED <<attached, dest, hooked, seen, contacted, perfVars>>

(* The worker's poll loop.                                                 *)
Poll(cpu) == Deliver(cpu) /\ UNCHANGED connVars

Probe(th) == Lookup(th) \/ Update(th) \/ Submit(th) \/ Delete(th)

Next ==
  \/ AttachEntry \/ AttachReturn \/ OpenBuffer
  \/ \E th \in Threads :
       \/ \E ip \in Ips : Connect(th, ip)
       \/ ConnectFails(th) \/ ConnectReturns(th) \/ Probe(th)
  \/ \E cpu \in Cpus : Poll(cpu)

Spec == Init /\ [][Next]_vars

(* A probe runs to its end, and the worker polls every ring forever.       *)
Fairness ==
  /\ \A th \in Threads : WF_vars(Probe(th))
  /\ \A cpu \in Cpus : WF_vars(Poll(cpu))

FairSpec == Spec /\ Fairness

-----------------------------------------------------------------------------
TypeOK ==
  /\ attached \in {{}, {"entry"}, {"entry", "return"}}
  /\ pc \in [Threads -> {"idle", "connecting", "lookup", "update", "submit",
                         "delete"}]
  /\ dest \in [Threads -> Seq(Ips)]
  /\ hooked \in [Threads -> BOOLEAN]
  /\ store \in [Threads -> 0 .. MaxConns]
  /\ seen \subseteq Ips /\ Cardinality(seen) <= SeenSize
  /\ contacted \subseteq Ips
  /\ PerfTypeOK(Alert)

(* An alert names the destination of the connection that returned: the     *)
(* entries that failed connects leave behind are never read for a later    *)
(* one.                                                                    *)
AlertNamesTheConnection == \A a \in Submitted : a.ip = dest[a.thread][a.conn]

(* The rule itself: once both probes are attached, a destination that is   *)
(* connected to is alerted, or a probe run for it is still on its way.     *)
(* This holds because sock_store_ad has room for every thread.  It need    *)
(* not: a failed connect leaves its entry there, and once 10240 threads    *)
(* have left one, no connection of any other thread is seen.               *)
EveryContactAlerted ==
  \A ip \in contacted :
    \/ \E a \in Submitted : a.ip = ip
    \/ \E th \in Threads : /\ pc[th] \in {"lookup", "update", "submit"}
                           /\ Daddr(th) = ip

(* Two connections of one thread alert for the same destination only when  *)
(* seen_ips is full and the destination can no longer be remembered.       *)
RepeatNeedsFullMap ==
  \A a, b \in Submitted :
    a.thread = b.thread /\ a.ip = b.ip /\ a.conn # b.conn =>
      a.ip \notin seen /\ ~SeenHasRoom

(* What is contacted is settled: the callback gets an alert for it or the  *)
(* channel has lost one.                                                   *)
ContactSettles ==
  \A ip \in Ips :
    ip \in contacted ~> \E a \in delivered \union lost : a.ip = ip

(* README: a connection to an IP never seen by this host triggers the      *)
(* alert "New Destination".  A destination that is in seen_ips, and so     *)
(* will not be alerted again, has an alert the user sees or will see.      *)
SeenMeansReported ==
  \A ip \in seen :
    \/ \E a \in delivered \union InRings : a.ip = ip
    \/ \E th \in Threads : pc[th] = "submit" /\ Daddr(th) = ip
=============================================================================
