----------------------------- MODULE NewDestProofs -----------------------------
(***************************************************************************)
(* The invariants of NewDest for any threads, destinations, processors and *)
(* sizes of hashes and rings.                                              *)
(***************************************************************************)
EXTENDS NewDest, FiniteSetTheorems, TLAPS

-----------------------------------------------------------------------------
(* What the channel of PerfBuffer does to the events it is given: a        *)
(* submission is kept or lost, and a delivery loses nothing.               *)

(* What a sequence holds after an event came in at its end.                *)
LEMMA ToSetAppend ==
  ASSUME NEW E, NEW s \in Seq(E), NEW e \in E
  PROVE  ToSet(Append(s, e)) = ToSet(s) \union {e}
<1>1. /\ DOMAIN Append(s, e) = DOMAIN s \union {Len(s) + 1}
      /\ Append(s, e)[Len(s) + 1] = e
      /\ \A i \in DOMAIN s : Append(s, e)[i] = s[i]
  OBVIOUS
<1> QED  BY <1>1 DEF ToSet

(* What it held before an event left it at its head.                       *)
LEMMA ToSetTail ==
  ASSUME NEW E, NEW s \in Seq(E), s # <<>>
  PROVE  ToSet(s) = ToSet(Tail(s)) \union {Head(s)}
<1>1. DOMAIN s = 1 .. Len(s) /\ DOMAIN Tail(s) = 1 .. Len(s) - 1 /\ Len(s) > 0
  OBVIOUS
<1>2. \A i \in 1 .. Len(s) - 1 : Tail(s)[i] = s[i + 1]
  OBVIOUS
<1>3. ToSet(Tail(s)) \union {Head(s)} \subseteq ToSet(s)
  <2>1. Head(s) = s[1] /\ 1 \in DOMAIN s
    BY <1>1
  <2>2. \A i \in DOMAIN Tail(s) : i + 1 \in DOMAIN s
    BY <1>1
  <2> QED  BY <1>1, <1>2, <2>1, <2>2 DEF ToSet
<1>4. ToSet(s) \subseteq ToSet(Tail(s)) \union {Head(s)}
  <2> SUFFICES ASSUME NEW i \in DOMAIN s
               PROVE  s[i] \in ToSet(Tail(s)) \union {Head(s)}
      BY DEF ToSet
  <2>1. CASE i = 1
    BY <2>1
  <2>2. CASE i # 1
    <3>1. i - 1 \in DOMAIN Tail(s) /\ Tail(s)[i - 1] = s[i]
      BY <1>1, <1>2, <2>2
    <3> QED  BY <3>1 DEF ToSet
  <2> QED  BY <2>1, <2>2
<1> QED  BY <1>3, <1>4

(* perf_submit adds its event to what was submitted, kept or not.          *)
LEMMA SubmitAdds ==
  ASSUME NEW E, PerfTypeOK(E), NEW cpu \in Cpus, NEW e \in E,
         PerfSubmit(cpu, e)
  PROVE  PerfTypeOK(E)' /\ Submitted' = Submitted \union {e}
<1>1. CASE cpu \in opened /\ Len(ring[cpu]) < RingSize
  <2>1. /\ ring' = [ring EXCEPT ![cpu] = Append(ring[cpu], e)]
        /\ UNCHANGED <<opened, delivered, lost>>
    BY <1>1 DEF PerfSubmit
  <2>2. ring[cpu] \in Seq(E)
    BY DEF PerfTypeOK
  <2>3. Append(ring[cpu], e) \in Seq(E) /\ Len(Append(ring[cpu], e)) <= RingSize
    BY <1>1, <2>2, PerfBufferAssumption
  <2>4. PerfTypeOK(E)'
    BY <2>1, <2>3 DEF PerfTypeOK
  <2>5. ToSet(Append(ring[cpu], e)) = ToSet(ring[cpu]) \union {e}
    BY <2>2, ToSetAppend
  <2>6. \A c \in Cpus : ToSet(ring'[c]) =
                          IF c = cpu THEN ToSet(ring[c]) \union {e} ELSE ToSet(ring[c])
    BY <2>1, <2>5 DEF PerfTypeOK
  <2>7. InRings' = InRings \union {e}
    BY <2>6 DEF InRings
  <2> QED  BY <2>1, <2>4, <2>7 DEF Submitted
<1>2. CASE ~(cpu \in opened /\ Len(ring[cpu]) < RingSize)
  <2>1. lost' = lost \union {e} /\ UNCHANGED <<opened, delivered, ring>>
    BY <1>2 DEF PerfSubmit
  <2> QED  BY <2>1 DEF PerfTypeOK, Submitted, InRings
<1> QED  BY <1>1, <1>2

(* A delivery changes where an event is, not whether it was submitted.     *)
LEMMA DeliverMoves ==
  ASSUME NEW E, PerfTypeOK(E), NEW cpu \in Cpus, Deliver(cpu)
  PROVE  PerfTypeOK(E)' /\ Submitted' = Submitted
<1>1. /\ ring' = [ring EXCEPT ![cpu] = Tail(ring[cpu])]
      /\ delivered' = delivered \union {Head(ring[cpu])}
      /\ UNCHANGED <<opened, lost>> /\ ring[cpu] # <<>>
  BY DEF Deliver
<1>2. ring[cpu] \in Seq(E) /\ Len(ring[cpu]) <= RingSize
  BY DEF PerfTypeOK
<1>3. /\ Tail(ring[cpu]) \in Seq(E) /\ Head(ring[cpu]) \in E
      /\ Len(Tail(ring[cpu])) <= RingSize
  BY <1>1, <1>2, PerfBufferAssumption
<1>4. PerfTypeOK(E)'
  BY <1>1, <1>3 DEF PerfTypeOK
<1>5. ToSet(ring[cpu]) = ToSet(Tail(ring[cpu])) \union {Head(ring[cpu])}
  BY <1>1, <1>2, ToSetTail
<1>6. \A c \in Cpus : ToSet(ring'[c]) =
                        IF c = cpu THEN ToSet(Tail(ring[cpu])) ELSE ToSet(ring[c])
  BY <1>1 DEF PerfTypeOK
<1>7. InRings = InRings' \union {Head(ring[cpu])} \/ InRings = InRings'
  BY <1>5, <1>6 DEF InRings
<1>8. Head(ring[cpu]) \in InRings
  BY <1>5 DEF InRings
<1>9. InRings' \subseteq InRings
  BY <1>7
<1> QED  BY <1>1, <1>4, <1>7, <1>8, <1>9 DEF Submitted

(* Nor does opening a ring.                                                *)
LEMMA OpenKeeps ==
  ASSUME NEW E, PerfTypeOK(E), NEW cpu \in Cpus, OpenRing(cpu)
  PROVE  PerfTypeOK(E)' /\ Submitted' = Submitted
BY DEF OpenRing, PerfTypeOK, Submitted, InRings

(* Nor does a step of somebody else.                                       *)
LEMMA OthersKeep ==
  ASSUME NEW E, PerfTypeOK(E), UNCHANGED perfVars
  PROVE  PerfTypeOK(E)' /\ Submitted' = Submitted
BY DEF perfVars, PerfTypeOK, Submitted, InRings

-----------------------------------------------------------------------------
Running == {"lookup", "update", "submit", "delete"}

(* What sock_store_ad holds for a thread is never newer than its last      *)
(* connection, and it is that connection when the return probe reads it:   *)
(* where the kretprobe follows a call, its kprobe has run.                 *)
ThreadsOK ==
  /\ attached \in {{}, {"entry"}, {"entry", "return"}}
  /\ pc \in [Threads -> {"idle", "connecting"} \union Running]
  /\ dest \in [Threads -> Seq(Ips)]
  /\ hooked \in [Threads -> BOOLEAN]
  /\ store \in [Threads -> Nat]
  /\ \A th \in Threads :
       /\ store[th] <= Len(dest[th]) /\ Len(dest[th]) <= MaxConns
       /\ hooked[th] /\ pc[th] = "connecting" /\ store[th] # 0 =>
            store[th] = Len(dest[th])
       /\ pc[th] \in Running => store[th] = Len(dest[th]) /\ store[th] # 0
       /\ pc[th] = "connecting" => Len(dest[th]) # 0

SeenOK == seen \subseteq Ips /\ Cardinality(seen) <= SeenSize /\ contacted \subseteq Ips

Base == ThreadsOK /\ SeenOK /\ PerfTypeOK(Alert)

(* The address a return probe reads is one, of its own last connection.    *)
LEMMA DaddrIsLast ==
  ASSUME ThreadsOK, NEW th \in Threads, pc[th] \in Running
  PROVE  /\ Len(dest[th]) \in 1 .. MaxConns /\ Len(dest[th]) \in DOMAIN dest[th]
         /\ Daddr(th) = dest[th][Len(dest[th])] /\ Daddr(th) \in Ips
<1>1. dest[th] \in Seq(Ips) /\ store[th] = Len(dest[th]) /\ store[th] # 0
  BY DEF ThreadsOK
<1>2. Len(dest[th]) <= MaxConns
  BY DEF ThreadsOK
<1> QED  BY <1>1, <1>2, NewDestAssumption DEF Daddr

(* What the return probe submits is an alert.                              *)
LEMMA SubmitsAlert ==
  ASSUME ThreadsOK, NEW th \in Threads, pc[th] = "submit"
  PROVE  [thread |-> th, conn |-> Len(dest[th]), ip |-> Daddr(th)] \in Alert
BY DaddrIsLast DEF Running, Alert

(* Connect: the kprobe runs when the kretprobe follows the call.           *)
LEMMA ConnectKeepsThreads ==
  ASSUME ThreadsOK, NEW th \in Threads, NEW ip \in Ips, Connect(th, ip)
  PROVE  ThreadsOK'
<1>1. dest[th] \in Seq(Ips) /\ Len(dest[th]) < MaxConns /\ pc[th] = "idle"
  BY DEF ThreadsOK, Connect
<1>2. /\ dest' = [dest EXCEPT ![th] = Append(dest[th], ip)]
      /\ Append(dest[th], ip) \in Seq(Ips)
      /\ Len(Append(dest[th], ip)) = Len(dest[th]) + 1
  BY <1>1 DEF Connect
<1>3. /\ pc' = [pc EXCEPT ![th] = "connecting"] /\ UNCHANGED attached
      /\ hooked' = [hooked EXCEPT ![th] = "return" \in attached]
  BY DEF Connect
<1>4. \/ store' = [store EXCEPT ![th] = Len(dest[th]) + 1]
      \/ store' = store /\ ("entry" \in attached => store[th] = 0)
  BY DEF Connect, StoreSock
<1>5. "return" \in attached => "entry" \in attached
  BY DEF ThreadsOK
<1>6. /\ pc' \in [Threads -> {"idle", "connecting"} \union Running]
      /\ dest' \in [Threads -> Seq(Ips)] /\ hooked' \in [Threads -> BOOLEAN]
      /\ store' \in [Threads -> Nat]
  BY <1>1, <1>2, <1>3, <1>4 DEF ThreadsOK
<1>7. ASSUME NEW o \in Threads
      PROVE  /\ store'[o] <= Len(dest'[o]) /\ Len(dest'[o]) <= MaxConns
             /\ hooked'[o] /\ pc'[o] = "connecting" /\ store'[o] # 0 =>
                  store'[o] = Len(dest'[o])
             /\ pc'[o] \in Running => store'[o] = Len(dest'[o]) /\ store'[o] # 0
             /\ pc'[o] = "connecting" => Len(dest'[o]) # 0
  <2>1. CASE o # th
    BY <1>2, <1>3, <1>4, <2>1 DEF ThreadsOK
  <2>2. CASE o = th
    <3>1. dest'[o] = Append(dest[th], ip) /\ pc'[o] = "connecting"
      BY <1>2, <1>3, <2>2 DEF ThreadsOK
    <3>2. Len(dest'[o]) = Len(dest[th]) + 1 /\ pc'[o] \notin Running
      BY <1>2, <3>1 DEF Running
    <3>3. hooked'[o] => "entry" \in attached
      BY <1>3, <1>5, <2>2 DEF ThreadsOK
    <3>4. store'[o] = Len(dest[th]) + 1 \/ (store'[o] = store[th] /\ ("entry" \in attached => store[th] = 0))
      BY <1>4, <2>2 DEF ThreadsOK
    <3>5. store[th] <= Len(dest[th]) /\ store[th] \in Nat /\ Len(dest[th]) \in Nat
      BY <1>1 DEF ThreadsOK
    <3> QED  BY <1>1, <3>1, <3>2, <3>3, <3>4, <3>5, NewDestAssumption
  <2> QED  BY <2>1, <2>2
<1> QED  BY <1>3, <1>6, <1>7 DEF ThreadsOK

(* A step of a call or of its return probe, but for the entry.             *)
LEMMA ReturnKeepsThreads ==
  ASSUME ThreadsOK, NEW th \in Threads,
         ConnectFails(th) \/ ConnectReturns(th) \/ Probe(th)
  PROVE  ThreadsOK'
<1>1. CASE ConnectFails(th)
  BY <1>1 DEF ConnectFails, ThreadsOK, Running
<1>2. CASE ConnectReturns(th)
  BY <1>2 DEF ConnectReturns, ThreadsOK, Running
<1>3. CASE Lookup(th)
  BY <1>3 DEF Lookup, ThreadsOK, Running
<1>4. CASE Update(th)
  BY <1>4 DEF Update, ThreadsOK, Running
<1>5. CASE Submit(th)
  BY <1>5 DEF Submit, ThreadsOK, Running
<1>6. CASE Delete(th)
  BY <1>6 DEF Delete, ThreadsOK, Running
<1> QED  BY <1>1, <1>2, <1>3, <1>4, <1>5, <1>6 DEF Probe

(* seen_ips grows by one address at a time and only while it has room.     *)
LEMMA UpdateKeepsSeen ==
  ASSUME ThreadsOK, SeenOK, NEW th \in Threads, Update(th)
  PROVE  SeenOK' /\ seen \subseteq seen'
<1>1. Daddr(th) \in Ips /\ UNCHANGED contacted
  BY DaddrIsLast DEF Update, Running
<1>2. CASE SeenHasRoom
  <2>1. seen' = seen \union {Daddr(th)}
    BY <1>2 DEF Update
  <2>2. IsFiniteSet(seen)
    BY FS_Subset, NewDestAssumption DEF SeenOK
  <2>3. Cardinality(seen') <= Cardinality(seen) + 1 /\ Cardinality(seen') \in Nat
    <3>1. /\ IsFiniteSet(seen')
          /\ \/ Cardinality(seen') = Cardinality(seen)
             \/ Cardinality(seen') = Cardinality(seen) + 1
      BY <2>1, <2>2, FS_AddElement, Zenon
    <3> QED  BY <2>2, <3>1, FS_CardinalityType
  <2>4. Cardinality(seen) < SeenSize /\ Cardinality(seen) \in Nat
    BY <1>2, <2>2, FS_CardinalityType DEF SeenHasRoom
  <2>5. Cardinality(seen') <= SeenSize
    BY <2>3, <2>4, NewDestAssumption
  <2>6. seen' \subseteq Ips /\ contacted' \subseteq Ips /\ seen \subseteq seen'
    BY <1>1, <2>1 DEF SeenOK
  <2> QED  BY <2>5, <2>6, Zenon DEF SeenOK
<1>3. CASE ~SeenHasRoom
  BY <1>1, <1>3 DEF Update, SeenOK
<1> QED  BY <1>2, <1>3

(* The type invariant and what it rests on, as one inductive invariant.    *)
THEOREM BaseHolds == Spec => []Base
<1>1. Init => Base
  <2> SUFFICES ASSUME Init PROVE Base
      OBVIOUS
  <2>1. ThreadsOK
    <3>0. attached = {} /\ store = [th \in Threads |-> 0]
      BY DEF Init
    <3>1. /\ pc = [th \in Threads |-> "idle"] /\ dest = [th \in Threads |-> <<>>]
      BY DEF Init
    <3>2. dest \in [Threads -> Seq(Ips)]
      BY <3>1
    <3>3. hooked \in [Threads -> BOOLEAN]
      BY Zenon DEF Init
    <3>4. store \in [Threads -> Nat] /\ pc \in [Threads -> {"idle", "connecting"} \union Running]
      BY <3>0, <3>1
    <3>5. \A th \in Threads : Len(dest[th]) = 0 /\ store[th] = 0 /\ pc[th] = "idle"
      BY <3>0, <3>1
    <3> QED  BY <3>0, <3>2, <3>3, <3>4, <3>5, NewDestAssumption DEF ThreadsOK, Running
  <2>2. SeenOK
    BY FS_EmptySet, NewDestAssumption DEF Init, SeenOK
  <2>3. PerfTypeOK(Alert)
    BY PerfBufferAssumption DEF Init, PerfInit, PerfTypeOK
  <2> QED  BY <2>1, <2>2, <2>3 DEF Base
<1>2. Base /\ [Next]_vars => Base'
  <2> SUFFICES ASSUME Base, [Next]_vars PROVE Base'
      OBVIOUS
  <2>0. ThreadsOK /\ SeenOK /\ PerfTypeOK(Alert)
    BY DEF Base
  <2>1. CASE AttachEntry \/ AttachReturn
    <3>1. ThreadsOK'
      BY <2>0, <2>1 DEF AttachEntry, AttachReturn, ThreadsOK
    <3>2. SeenOK' /\ UNCHANGED perfVars
      BY <2>0, <2>1 DEF AttachEntry, AttachReturn, SeenOK
    <3> QED  BY <2>0, <3>1, <3>2, OthersKeep DEF Base
  <2>2. ASSUME NEW cpu \in Cpus, OpenRing(cpu) \/ Deliver(cpu),
               UNCHANGED connVars
        PROVE  Base'
    <3>1. ThreadsOK' /\ SeenOK'
      BY <2>0, <2>2 DEF connVars, ThreadsOK, SeenOK
    <3>2. PerfTypeOK(Alert)'
      BY <2>0, <2>2, OpenKeeps, DeliverMoves
    <3> QED  BY <3>1, <3>2 DEF Base
  <2>3. ASSUME NEW th \in Threads, NEW ip \in Ips, Connect(th, ip)
        PROVE  Base'
    <3>1. SeenOK' /\ UNCHANGED perfVars
      BY <2>0, <2>3 DEF Connect, SeenOK
    <3> QED  BY <2>0, <2>3, <3>1, ConnectKeepsThreads, OthersKeep DEF Base
  <2>4. ASSUME NEW th \in Threads, ConnectFails(th) \/ Lookup(th) \/ Delete(th)
        PROVE  Base'
    <3>1. SeenOK' /\ UNCHANGED perfVars
      BY <2>0, <2>4 DEF ConnectFails, Lookup, Delete, SeenOK
    <3> QED  BY <2>0, <2>4, <3>1, ReturnKeepsThreads, OthersKeep DEF Base, Probe
  <2>5. ASSUME NEW th \in Threads, ConnectReturns(th)
        PROVE  Base'
    <3>1. contacted' \subseteq Ips /\ UNCHANGED <<seen, perfVars>>
      <4>1. dest[th] \in Seq(Ips) /\ Len(dest[th]) # 0
        BY <2>0, <2>5 DEF ThreadsOK, ConnectReturns
      <4>2. dest[th][Len(dest[th])] \in Ips
        BY <4>1
      <4> QED  BY <2>0, <2>5, <4>2 DEF ConnectReturns, SeenOK
    <3>2. SeenOK'
      BY <2>0, <3>1 DEF SeenOK
    <3> QED  BY <2>0, <2>5, <3>1, <3>2, ReturnKeepsThreads, OthersKeep DEF Base
  <2>6. ASSUME NEW th \in Threads, Update(th)
        PROVE  Base'
    <3>1. UNCHANGED perfVars
      BY <2>6 DEF Update
    <3> QED  BY <2>0, <2>6, <3>1, UpdateKeepsSeen, ReturnKeepsThreads, OthersKeep
             DEF Base, Probe
  <2>7. ASSUME NEW th \in Threads, Submit(th)
        PROVE  Base'
    <3>1. SeenOK' /\ pc[th] = "submit"
      BY <2>0, <2>7 DEF Submit, SeenOK
    <3>2. PICK cpu \in Cpus :
            PerfSubmit(cpu, [thread |-> th, conn |-> Len(dest[th]), ip |-> Daddr(th)])
      BY <2>7 DEF Submit
    <3>3. PerfTypeOK(Alert)'
      BY <2>0, <3>1, <3>2, SubmitsAlert, SubmitAdds
    <3> QED  BY <2>0, <2>7, <3>1, <3>3, ReturnKeepsThreads DEF Base, Probe
  <2>8. CASE UNCHANGED vars
    <3>1. ThreadsOK' /\ SeenOK' /\ UNCHANGED perfVars
      BY <2>0, <2>8 DEF vars, ThreadsOK, SeenOK
    <3> QED  BY <2>0, <3>1, OthersKeep DEF Base
  <2> QED  BY <2>1, <2>2, <2>3, <2>4, <2>5, <2>6, <2>7, <2>8
           DEF Next, OpenBuffer, Poll, Probe
<1> QED  BY <1>1, <1>2, PTL DEF Spec

(* Type correctness of the rule.                                           *)
THEOREM TypeCorrect == Spec => []TypeOK
<1>1. Base => TypeOK
  <2> SUFFICES ASSUME Base PROVE TypeOK
      OBVIOUS
  <2>1. store \in [Threads -> 0 .. MaxConns]
    <3>1. \A th \in Threads : store[th] \in Nat /\ dest[th] \in Seq(Ips)
      BY DEF Base, ThreadsOK
    <3>2. \A th \in Threads : store[th] <= Len(dest[th]) /\ Len(dest[th]) <= MaxConns
      BY DEF Base, ThreadsOK
    <3>3. \A th \in Threads : store[th] \in 0 .. MaxConns
      BY <3>1, <3>2, NewDestAssumption
    <3> QED  BY <3>3 DEF Base, ThreadsOK
  <2> QED  BY <2>1 DEF Base, ThreadsOK, SeenOK, TypeOK, Running
<1> QED  BY <1>1, BaseHolds, PTL

-----------------------------------------------------------------------------
(* Steps by what they change: attachment, rings and polls touch neither    *)
(* the hashes nor the calls, and of the others only Submit adds an alert.  *)
Rest == AttachEntry \/ AttachReturn \/ OpenBuffer \/ \E cpu \in Cpus : Poll(cpu)

(* Every step is one of these.                                             *)
LEMMA StepKinds ==
  ASSUME [Next]_vars
  PROVE  \/ Rest \/ UNCHANGED vars
         \/ \E th \in Threads : \/ \E ip \in Ips : Connect(th, ip)
                               \/ ConnectFails(th) \/ ConnectReturns(th)
                               \/ Lookup(th) \/ Update(th) \/ Submit(th)
                               \/ Delete(th)
BY DEF Next, Rest, Probe

(* What the steps of Rest leave alone.                                     *)
LEMMA RestChangesNothing ==
  ASSUME Base, Rest \/ UNCHANGED vars
  PROVE  /\ Submitted' = Submitted
         /\ UNCHANGED <<pc, dest, hooked, store, seen, contacted>>
<1>1. PerfTypeOK(Alert)
  BY DEF Base
<1>2. CASE AttachEntry \/ AttachReturn \/ UNCHANGED vars
  BY <1>1, <1>2, OthersKeep DEF AttachEntry, AttachReturn, vars
<1>3. CASE OpenBuffer
  BY <1>1, <1>3, OpenKeeps DEF OpenBuffer, connVars
<1>4. ASSUME NEW cpu \in Cpus, Poll(cpu)
      PROVE  /\ Submitted' = Submitted
             /\ UNCHANGED <<pc, dest, hooked, store, seen, contacted>>
  BY <1>1, <1>4, DeliverMoves DEF Poll, connVars
<1> QED  BY <1>2, <1>3, <1>4 DEF Rest

(* A probe run raises its alert in Submit and nowhere else.                *)
LEMMA QuietSteps ==
  ASSUME Base, NEW th \in Threads,
         \/ \E ip \in Ips : Connect(th, ip)
         \/ ConnectFails(th) \/ ConnectReturns(th) \/ Lookup(th)
         \/ Update(th) \/ Delete(th)
  PROVE  Submitted' = Submitted
<1>1. UNCHANGED perfVars
  BY DEF Connect, ConnectFails, ConnectReturns, Lookup, Update, Delete
<1> QED  BY <1>1, OthersKeep DEF Base

(* There it raises one, for the address of its last connection.            *)
LEMMA SubmitAlerts ==
  ASSUME Base, NEW th \in Threads, Submit(th)
  PROVE  /\ Submitted' = Submitted \union
              {[thread |-> th, conn |-> Len(dest[th]), ip |-> Daddr(th)]}
         /\ pc[th] = "submit" /\ pc' = [pc EXCEPT ![th] = "delete"]
         /\ UNCHANGED <<dest, hooked, store, seen, contacted>>
<1>1. pc[th] = "submit" /\ ThreadsOK /\ PerfTypeOK(Alert)
  BY DEF Submit, Base
<1>2. PICK cpu \in Cpus :
        PerfSubmit(cpu, [thread |-> th, conn |-> Len(dest[th]), ip |-> Daddr(th)])
  BY DEF Submit
<1> QED  BY <1>1, <1>2, SubmitsAlert, SubmitAdds DEF Submit

-----------------------------------------------------------------------------
(* Every alert is of a connection of its thread, with its destination.     *)
Named ==
  \A a \in Submitted : /\ a.thread \in Threads /\ a.conn \in DOMAIN dest[a.thread]
                       /\ a.ip = dest[a.thread][a.conn]

(* An alert names the destination of the connection it is raised for,      *)
(* whatever failed connects have left in sock_store_ad.                    *)
THEOREM AlertsNameTheConnection == Spec => []AlertNamesTheConnection
<1>1. Init => Named
  BY DEF Init, PerfInit, Named, Submitted, InRings, ToSet
<1>2. Base /\ Named /\ [Next]_vars => Named'
  <2> SUFFICES ASSUME Base, Named, [Next]_vars PROVE Named'
      OBVIOUS
  <2>1. CASE Rest \/ UNCHANGED vars
    BY <2>1, RestChangesNothing DEF Named
  <2>2. ASSUME NEW th \in Threads, NEW ip \in Ips, Connect(th, ip)
        PROVE  Named'
    <3>1. Submitted' = Submitted
      BY <2>2, QuietSteps
    <3>2. dest' = [dest EXCEPT ![th] = Append(dest[th], ip)] /\ dest[th] \in Seq(Ips)
          /\ dest \in [Threads -> Seq(Ips)]
      BY <2>2 DEF Connect, Base, ThreadsOK
    <3>3. ASSUME NEW a \in Submitted
          PROVE  a.conn \in DOMAIN dest'[a.thread] /\ a.ip = dest'[a.thread][a.conn]
      <4>1. a.thread \in Threads /\ a.conn \in DOMAIN dest[a.thread]
            /\ a.ip = dest[a.thread][a.conn]
        BY DEF Named
      <4>2. CASE a.thread = th
        <5>1. dest'[th] = Append(dest[th], ip)
          BY <3>2
        <5> QED  BY <3>2, <4>1, <4>2, <5>1
      <4>3. CASE a.thread # th
        BY <3>2, <4>1, <4>3
      <4> QED  BY <4>2, <4>3
    <3> QED  BY <3>1, <3>3 DEF Named
  <2>3. ASSUME NEW th \in Threads,
               ConnectFails(th) \/ ConnectReturns(th) \/ Lookup(th)
                 \/ Update(th) \/ Delete(th)
        PROVE  Named'
    <3>1. Submitted' = Submitted /\ UNCHANGED dest
      BY <2>3, QuietSteps
         DEF ConnectFails, ConnectReturns, Lookup, Update, Delete
    <3> QED  BY <3>1 DEF Named
  <2>4. ASSUME NEW th \in Threads, Submit(th)
        PROVE  Named'
    <3>1. /\ Len(dest[th]) \in DOMAIN dest[th]
          /\ Daddr(th) = dest[th][Len(dest[th])]
      BY <2>4, DaddrIsLast DEF Submit, Base, Running
    <3> QED  BY <2>4, <3>1, SubmitAlerts DEF Named
  <2> QED  BY <2>1, <2>2, <2>3, <2>4, StepKinds
<1>3. Named => AlertNamesTheConnection
  BY DEF Named, AlertNamesTheConnection
<1> QED  BY <1>1, <1>2, <1>3, BaseHolds, PTL DEF Spec

-----------------------------------------------------------------------------
Alerted(ip) == \E a \in Submitted : a.ip = ip

(* What a probe run that is on its way is for.                             *)
Coming(ip, places) == \E th \in Threads : pc[th] \in places /\ Daddr(th) = ip

(* seen_ips holds what is alerted or about to be; a contact is alerted or  *)
(* on its way; and a call the kretprobe follows has its entry.             *)
Promised ==
  /\ \A th \in Threads : hooked[th] /\ pc[th] = "connecting" => store[th] # 0
  /\ \A ip \in seen : Alerted(ip) \/ Coming(ip, {"submit"})
  /\ \A ip \in contacted : Alerted(ip) \/ Coming(ip, {"lookup", "update", "submit"})

(* With an entry for every thread there is always one for a call.          *)
LEMMA RoomForAll ==
  ASSUME Cardinality(Threads) <= StoreSize, NEW th \in Threads, store[th] = 0
  PROVE  StoreHasRoom
<1> DEFINE Used == {o \in Threads : store[o] # 0}
<1>1. IsFiniteSet(Threads \ {th}) /\ Cardinality(Threads \ {th}) = Cardinality(Threads) - 1
  BY NewDestAssumption, FS_RemoveElement, Zenon
<1>2. Used \subseteq Threads \ {th}
  OBVIOUS
<1>3. Cardinality(Used) <= Cardinality(Threads \ {th}) /\ IsFiniteSet(Used)
  BY <1>1, <1>2, FS_Subset, Zenon
<1>4. Cardinality(Threads) \in Nat /\ Cardinality(Used) \in Nat
  BY <1>3, NewDestAssumption, FS_CardinalityType
<1>5. Cardinality(Used) < StoreSize
  BY <1>1, <1>3, <1>4, NewDestAssumption
<1> QED  BY <1>5 DEF StoreHasRoom

(* A step of a thread leaves what the others are about to do as it is.     *)
LEMMA OthersStillComing ==
  ASSUME NEW th \in Threads, NEW ip, NEW places, Coming(ip, places),
         ~(pc[th] \in places /\ Daddr(th) = ip),
         \A o \in Threads \ {th} : /\ pc'[o] = pc[o] /\ dest'[o] = dest[o]
                                  /\ store'[o] = store[o]
  PROVE  Coming(ip, places)'
BY DEF Coming, Daddr

(* Once the two probes are attached, a destination that is connected to is *)
(* alerted or about to be, if sock_store_ad has room for every thread: its *)
(* failed connects keep their entry, but one per thread.                   *)
THEOREM ContactsAreAlerted ==
  ASSUME Cardinality(Threads) <= StoreSize
  PROVE  Spec => []EveryContactAlerted
<1>1. Init => Promised
  BY DEF Init, Promised
<1>2. Base /\ Promised /\ [Next]_vars => Promised'
  <2> SUFFICES ASSUME Base, Promised, [Next]_vars PROVE Promised'
      OBVIOUS
  <2> DEFINE Three == {"lookup", "update", "submit"}
  <2>0. ThreadsOK
    BY DEF Base
  <2>1. CASE Rest \/ UNCHANGED vars
    <3>1. /\ Submitted' = Submitted
          /\ UNCHANGED <<pc, dest, hooked, store, seen, contacted>>
      BY <2>1, RestChangesNothing
    <3>2. \A ip : /\ Alerted(ip)' = Alerted(ip)
                  /\ Coming(ip, {"submit"})' = Coming(ip, {"submit"})
                  /\ Coming(ip, Three)' = Coming(ip, Three)
      BY <3>1 DEF Alerted, Coming, Daddr
    <3> QED  BY <3>1, <3>2 DEF Promised
  <2>2. ASSUME NEW th \in Threads, NEW jp \in Ips, Connect(th, jp)
        PROVE  Promised'
    <3>1. Submitted' = Submitted /\ UNCHANGED <<seen, contacted>>
      BY <2>2, QuietSteps DEF Connect
    <3>2. \A o \in Threads \ {th} : /\ pc'[o] = pc[o] /\ dest'[o] = dest[o]
                                    /\ store'[o] = store[o] /\ hooked'[o] = hooked[o]
      BY <2>0, <2>2 DEF Connect, StoreSock, ThreadsOK
    <3>3. pc[th] = "idle"
      BY <2>2 DEF Connect
    <3>4. hooked'[th] => store'[th] # 0
      <4>1. hooked'[th] => "entry" \in attached
        BY <2>0, <2>2 DEF Connect, ThreadsOK
      <4>2. Len(dest[th]) + 1 # 0
        BY <2>0 DEF ThreadsOK
      <4>3. CASE "entry" \in attached
        <5>1. store[th] # 0 \/ StoreHasRoom
          BY RoomForAll
        <5>2. store' = [store EXCEPT ![th] = Len(dest[th]) + 1]
          BY <2>2, <4>3, <5>1 DEF Connect, StoreSock
        <5> QED  BY <2>0, <4>2, <5>2 DEF ThreadsOK
      <4> QED  BY <4>1, <4>3
    <3>5. \A o \in Threads : hooked'[o] /\ pc'[o] = "connecting" => store'[o] # 0
      BY <3>2, <3>4 DEF Promised
    <3>6. \A ip : /\ Alerted(ip) => Alerted(ip)'
                  /\ Coming(ip, {"submit"}) => Coming(ip, {"submit"})'
                  /\ Coming(ip, Three) => Coming(ip, Three)'
      BY <3>1, <3>2, <3>3, OthersStillComing DEF Alerted
    <3> QED  BY <3>1, <3>5, <3>6 DEF Promised
  <2>3. ASSUME NEW th \in Threads,
               ConnectFails(th) \/ ConnectReturns(th) \/ Lookup(th)
                 \/ Update(th) \/ Delete(th)
        PROVE  Promised'
    <3>1. Submitted' = Submitted /\ UNCHANGED <<dest, hooked>>
      BY <2>3, QuietSteps
         DEF ConnectFails, ConnectReturns, Lookup, Update, Delete
    <3>2. \A o \in Threads \ {th} : /\ pc'[o] = pc[o] /\ dest'[o] = dest[o]
                                    /\ store'[o] = store[o]
      BY <2>0, <2>3
         DEF ConnectFails, ConnectReturns, Lookup, Update, Delete, ThreadsOK
    <3>3. pc'[th] # "connecting"
      BY <2>0, <2>3
         DEF ConnectFails, ConnectReturns, Lookup, Update, Delete, ThreadsOK
    <3>4. \A o \in Threads : hooked'[o] /\ pc'[o] = "connecting" => store'[o] # 0
      BY <3>1, <3>2, <3>3 DEF Promised
    <3>5. \A ip : Alerted(ip) => Alerted(ip)'
      BY <3>1 DEF Alerted
    <3>6. CASE ConnectFails(th) \/ Delete(th)
      <4>1. pc[th] \notin Three /\ UNCHANGED <<seen, contacted>>
        BY <3>6 DEF ConnectFails, Delete
      <4>2. \A ip : /\ Coming(ip, {"submit"}) => Coming(ip, {"submit"})'
                    /\ Coming(ip, Three) => Coming(ip, Three)'
        BY <3>2, <4>1, OthersStillComing
      <4> QED  BY <3>4, <3>5, <4>1, <4>2 DEF Promised
    <3>7. CASE ConnectReturns(th)
      <4>1. pc[th] = "connecting" /\ UNCHANGED <<seen, store>>
        BY <3>7 DEF ConnectReturns
      <4>2. \A ip : /\ Coming(ip, {"submit"}) => Coming(ip, {"submit"})'
                    /\ Coming(ip, Three) => Coming(ip, Three)'
        BY <3>2, <4>1, OthersStillComing
      <4>3. CASE ~hooked[th]
        <5>1. contacted' = contacted
          BY <3>7, <4>3 DEF ConnectReturns
        <5> QED  BY <3>4, <3>5, <4>1, <4>2, <5>1 DEF Promised
      <4>4. CASE hooked[th]
        <5>1. store[th] # 0 /\ store[th] = Len(dest[th])
          BY <2>0, <4>1, <4>4 DEF Promised, ThreadsOK
        <5>2. pc'[th] = "lookup"
          BY <2>0, <3>7, <4>4, <5>1 DEF ConnectReturns, ThreadsOK
        <5>3. contacted' = contacted \union {dest[th][Len(dest[th])]}
          BY <3>7, <4>4 DEF ConnectReturns
        <5>4. \A ip : ip = dest[th][Len(dest[th])] => Coming(ip, Three)'
          BY <3>1, <4>1, <5>1, <5>2 DEF Coming, Daddr
        <5> QED  BY <3>4, <3>5, <4>1, <4>2, <5>3, <5>4 DEF Promised
      <4> QED  BY <4>3, <4>4
    <3>8. CASE Lookup(th)
      <4>1. pc[th] = "lookup" /\ UNCHANGED <<seen, contacted, store>>
        BY <3>8 DEF Lookup
      <4>2. \A ip : Coming(ip, {"submit"}) => Coming(ip, {"submit"})'
        BY <3>2, <4>1, OthersStillComing
      <4>3. \A ip : Coming(ip, {"submit"})' => Coming(ip, Three)'
        BY DEF Coming
      <4>4. \A ip : ip # Daddr(th) /\ Coming(ip, Three) => Coming(ip, Three)'
        BY <3>2, OthersStillComing
      <4>5. CASE Daddr(th) \in seen
        BY <3>4, <3>5, <4>1, <4>2, <4>3, <4>4, <4>5 DEF Promised
      <4>6. CASE Daddr(th) \notin seen
        <5>1. pc'[th] = "update"
          BY <2>0, <3>8, <4>6 DEF Lookup, ThreadsOK
        <5>2. \A ip : ip = Daddr(th) => Coming(ip, Three)'
          BY <3>1, <4>1, <5>1 DEF Coming, Daddr
        <5> QED  BY <3>4, <3>5, <4>1, <4>2, <4>4, <5>2 DEF Promised
      <4> QED  BY <4>5, <4>6
    <3>9. CASE Update(th)
      <4>1. /\ pc[th] = "update" /\ pc'[th] = "submit" /\ UNCHANGED <<contacted, store>>
            /\ seen' \subseteq seen \union {Daddr(th)}
        BY <2>0, <3>9 DEF Update, ThreadsOK
      <4>2. \A ip : ip = Daddr(th) => Coming(ip, {"submit"})' /\ Coming(ip, Three)'
        BY <3>1, <4>1 DEF Coming, Daddr
      <4>3. \A ip : /\ Coming(ip, {"submit"}) => Coming(ip, {"submit"})'
                    /\ ip # Daddr(th) /\ Coming(ip, Three) => Coming(ip, Three)'
        BY <3>2, <4>1, OthersStillComing
      <4> QED  BY <3>4, <3>5, <4>1, <4>2, <4>3 DEF Promised
    <3> QED  BY <2>3, <3>6, <3>7, <3>8, <3>9
  <2>4. ASSUME NEW th \in Threads, Submit(th)
        PROVE  Promised'
    <3>1. /\ Submitted' = Submitted \union
                {[thread |-> th, conn |-> Len(dest[th]), ip |-> Daddr(th)]}
          /\ pc' = [pc EXCEPT ![th] = "delete"]
          /\ UNCHANGED <<dest, hooked, store, seen, contacted>>
      BY <2>4, SubmitAlerts
    <3>2. \A o \in Threads \ {th} : pc'[o] = pc[o]
      BY <2>0, <3>1 DEF ThreadsOK
    <3>3. /\ \A ip : ip = Daddr(th) => Alerted(ip)'
          /\ \A ip : Alerted(ip) => Alerted(ip)'
      <4> DEFINE new == [thread |-> th, conn |-> Len(dest[th]), ip |-> Daddr(th)]
      <4>0. new \in Submitted' /\ new.ip = Daddr(th)
        BY <3>1
      <4> HIDE DEF new
      <4>1. \E a \in Submitted' : a.ip = Daddr(th)
        BY <4>0
      <4>2. Submitted \subseteq Submitted'
        BY <3>1
      <4> QED  BY <4>1, <4>2 DEF Alerted
    <3>4. \A ip : ip # Daddr(th) =>
            /\ Coming(ip, {"submit"}) => Coming(ip, {"submit"})'
            /\ Coming(ip, Three) => Coming(ip, Three)'
      BY <3>1, <3>2, OthersStillComing
    <3>5. \A o \in Threads : hooked'[o] /\ pc'[o] = "connecting" => store'[o] # 0
      BY <2>0, <3>1, <3>2 DEF Promised, ThreadsOK
    <3> QED  BY <3>1, <3>3, <3>4, <3>5 DEF Promised
  <2> QED  BY <2>1, <2>2, <2>3, <2>4, StepKinds
<1>3. Promised => EveryContactAlerted
  BY DEF Promised, EveryContactAlerted, Alerted, Coming
<1> QED  BY <1>1, <1>2, <1>3, BaseHolds, PTL DEF Spec

-----------------------------------------------------------------------------
(* What seen_ips does for an address that was alerted: it holds the address*)
(* unless it is full, and full it holds neither more nor less for ever.    *)
Kept(ip) == ip \in seen \/ ~SeenHasRoom
Missed(ip) == ip \notin seen /\ ~SeenHasRoom

(* An alerted address is kept if it can be, one about to be alerted too; a *)
(* run that alerts for what its thread has alerted before found seen_ips   *)
(* full; and so did the second of two alerts.                              *)
Remembered ==
  /\ \A a \in Submitted : Kept(a.ip)
  /\ \A th \in Threads : pc[th] = "submit" => Kept(Daddr(th))
  /\ \A th \in Threads, a \in Submitted :
       pc[th] \in {"update", "submit"} /\ a.thread = th /\ a.ip = Daddr(th) =>
         Missed(a.ip)
  /\ \A a, b \in Submitted :
       a.thread = b.thread /\ a.ip = b.ip /\ a.conn # b.conn => Missed(a.ip)

(* Nothing is taken out of seen_ips, and nothing is put in when it is full.*)
LEMMA SeenOnlyGrows ==
  ASSUME Base, [Next]_vars
  PROVE  \A ip : (Kept(ip) => Kept(ip)') /\ (Missed(ip) => Missed(ip)')
<1>1. seen \subseteq seen' /\ (~SeenHasRoom => seen' = seen)
  BY DEF Next, vars, AttachEntry, AttachReturn, OpenBuffer, Poll, connVars, Connect,
         ConnectFails, ConnectReturns, Probe, Lookup, Update, Submit, Delete
<1>2. CASE SeenHasRoom
  BY <1>1, <1>2 DEF Kept, Missed
<1>3. CASE ~SeenHasRoom
  <2>1. seen' = seen /\ ~SeenHasRoom'
    BY <1>1, <1>3 DEF SeenHasRoom
  <2> QED  BY <1>3, <2>1 DEF Kept, Missed
<1> QED  BY <1>2, <1>3

(* A thread that connects to the same destination again is alerted again   *)
(* only when seen_ips is full and lacks the destination.                   *)
THEOREM RepeatsNeedFullMap == Spec => []RepeatNeedsFullMap
<1>1. Init => Remembered
  <2> SUFFICES ASSUME Init PROVE Remembered
      OBVIOUS
  <2>1. Submitted = {}
    BY DEF Init, PerfInit, Submitted, InRings, ToSet
  <2>2. \A th \in Threads : pc[th] = "idle"
    BY DEF Init
  <2> QED  BY <2>1, <2>2 DEF Remembered
<1>2. Base /\ Remembered /\ [Next]_vars => Remembered'
  <2> SUFFICES ASSUME Base, Remembered, [Next]_vars PROVE Remembered'
      OBVIOUS
  <2>0. ThreadsOK
    BY DEF Base
  <2>1. \A ip : (Kept(ip) => Kept(ip)') /\ (Missed(ip) => Missed(ip)')
    BY SeenOnlyGrows
  (* A step that submits nothing keeps what is said of alerts, so what the *)
  (* runs in front of the submission are bound by is left.                 *)
  <2>2. ASSUME Submitted' = Submitted,
               \A th \in Threads : pc'[th] = "submit" =>
                 \A ip : ip = Daddr(th)' => Kept(ip)',
               \A th \in Threads, a \in Submitted :
                 pc'[th] \in {"update", "submit"} /\ a.thread = th
                   /\ a.ip = Daddr(th)' => Missed(a.ip)
        PROVE  Remembered'
    <3>1. \A a \in Submitted' : Kept(a.ip)'
      BY <2>1, <2>2 DEF Remembered
    <3>2. \A th \in Threads : pc'[th] = "submit" => Kept(Daddr(th))'
      BY <2>2 DEF Kept
    <3>3. \A th \in Threads, a \in Submitted' :
            pc'[th] \in {"update", "submit"} /\ a.thread = th /\ a.ip = Daddr(th)' =>
              Missed(a.ip)'
      BY <2>1, <2>2
    <3>4. \A a, b \in Submitted' :
            a.thread = b.thread /\ a.ip = b.ip /\ a.conn # b.conn => Missed(a.ip)'
      BY <2>1, <2>2 DEF Remembered
    <3> QED  BY <3>1, <3>2, <3>3, <3>4 DEF Remembered
  <2>3. CASE Rest \/ UNCHANGED vars
    <3>1. Submitted' = Submitted /\ UNCHANGED <<pc, dest, store>>
      BY <2>3, RestChangesNothing
    <3>2. \A th \in Threads : Daddr(th)' = Daddr(th)
      BY <3>1 DEF Daddr
    <3> QED  BY <2>1, <2>2, <3>1, <3>2 DEF Remembered
  <2>4. ASSUME NEW th \in Threads,
               \/ \E ip \in Ips : Connect(th, ip)
               \/ ConnectFails(th) \/ ConnectReturns(th) \/ Lookup(th)
               \/ Update(th) \/ Delete(th)
        PROVE  Remembered'
    <3>1. Submitted' = Submitted
      BY <2>4, QuietSteps
    <3>2. \A o \in Threads \ {th} : pc'[o] = pc[o] /\ Daddr(o)' = Daddr(o)
      BY <2>0, <2>4
         DEF Connect, StoreSock, ConnectFails, ConnectReturns, Lookup, Update, Delete,
             ThreadsOK, Daddr
    <3>3. CASE ~(Lookup(th) \/ Update(th))
      <4>1. pc'[th] \notin {"update", "submit"}
        BY <2>0, <2>4, <3>3
           DEF Connect, ConnectFails, ConnectReturns, Delete, ThreadsOK
      <4> QED  BY <2>1, <2>2, <3>1, <3>2, <4>1 DEF Remembered
    <3>4. CASE Lookup(th)
      <4>1. /\ pc'[th] # "submit" /\ Daddr(th)' = Daddr(th)
            /\ pc'[th] = "update" => Daddr(th) \notin seen
        BY <2>0, <3>4 DEF Lookup, ThreadsOK, Daddr
      <4>2. \A a \in Submitted : pc'[th] = "update" /\ a.ip = Daddr(th) => Missed(a.ip)
        BY <4>1 DEF Remembered, Kept, Missed
      <4> QED  BY <2>1, <2>2, <3>1, <3>2, <4>1, <4>2 DEF Remembered
    <3>5. CASE Update(th)
      <4>1. pc[th] = "update" /\ Daddr(th)' = Daddr(th)
        BY <3>5 DEF Update, Daddr
      <4>2. \A ip : ip = Daddr(th) => Kept(ip)'
        <5>1. CASE SeenHasRoom
          BY <3>5, <5>1 DEF Update, Kept
        <5>2. CASE ~SeenHasRoom
          BY <2>1, <5>2 DEF Kept
        <5> QED  BY <5>1, <5>2
      <4> QED  BY <2>1, <2>2, <3>1, <3>2, <4>1, <4>2 DEF Remembered
    <3> QED  BY <3>3, <3>4, <3>5
  <2>5. ASSUME NEW th \in Threads, Submit(th)
        PROVE  Remembered'
    <3> DEFINE new == [thread |-> th, conn |-> Len(dest[th]), ip |-> Daddr(th)]
    <3>1. /\ Submitted' = Submitted \union {new}
          /\ pc[th] = "submit" /\ pc' = [pc EXCEPT ![th] = "delete"]
          /\ UNCHANGED <<dest, store>>
      BY <2>5, SubmitAlerts
    <3>2. new.thread = th /\ new.ip = Daddr(th)
      OBVIOUS
    <3> HIDE DEF new
    <3>3. /\ \A o \in Threads : Daddr(o)' = Daddr(o)
          /\ \A o \in Threads : pc'[o] \in {"update", "submit"} =>
               o # th /\ pc'[o] = pc[o]
      BY <2>0, <3>1 DEF Daddr, ThreadsOK
    <3>4. \A a \in Submitted' : Kept(a.ip)'
      BY <2>1, <3>1, <3>2 DEF Remembered
    <3>5. \A o \in Threads : pc'[o] = "submit" => Kept(Daddr(o))'
      <4>1. \A o \in Threads : pc'[o] = "submit" => \A ip : ip = Daddr(o)' => Kept(ip)'
        BY <2>1, <3>3 DEF Remembered
      <4> QED  BY <4>1 DEF Kept
    <3>6. \A o \in Threads, a \in Submitted' :
            pc'[o] \in {"update", "submit"} /\ a.thread = o /\ a.ip = Daddr(o)' =>
              Missed(a.ip)'
      BY <2>1, <3>1, <3>2, <3>3 DEF Remembered
    <3>7. \A a \in Submitted :
            a.thread = new.thread /\ a.ip = new.ip => Missed(a.ip)
      BY <3>1, <3>2 DEF Remembered
    <3>8. \A a, b \in Submitted' :
            a.thread = b.thread /\ a.ip = b.ip /\ a.conn # b.conn => Missed(a.ip)'
      BY <2>1, <3>1, <3>7 DEF Remembered
    <3> QED  BY <3>4, <3>5, <3>6, <3>8 DEF Remembered
  <2> QED  BY <2>3, <2>4, <2>5, StepKinds
<1>3. Remembered => RepeatNeedsFullMap
  BY DEF Remembered, Missed, RepeatNeedsFullMap
<1> QED  BY <1>1, <1>2, <1>3, BaseHolds, PTL DEF Spec
====
