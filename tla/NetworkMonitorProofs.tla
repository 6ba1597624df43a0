-------------------------- MODULE NetworkMonitorProofs --------------------------
(***************************************************************************)
(* The invariants of NetworkMonitor for any threads, processes, sockets,   *)
(* processors and sizes of the hashes and rings.                           *)
(***************************************************************************)
EXTENDS NetworkMonitor, FiniteSetTheorems, WellFoundedInduction, TLAPS

-----------------------------------------------------------------------------
(* What the channel of PerfBuffer does to the events it is given: a        *)
(* submission is kept or lost, and a delivery loses nothing.               *)

(* What a sequence holds after an event came in at its end.                *)
LEMMA ToSetAppend ==
  ASSUME NEW E, NEW s \in Seq(E), NEW e \in E
  PROVE  ToSet(Append(s, e)) = ToSet(s) \union {e}
<1>1. /\ DOMAIN Append(s, e) = DOMAIN s \union {Len(s) + 1}
      /\ Append(s, e)[Len(s) + 1] = e
      /\ \A i \in DOMAIN s : Append(s, e)[i] = s[i]
  OBVIOUS
<1> QED  BY <1>1 DEF ToSet

(* What it held before an event left it at its head.                       *)
LEMMA ToSetTail ==
  ASSUME NEW E, NEW s \in Seq(E), s # <<>>
  PROVE  ToSet(s) = ToSet(Tail(s)) \union {Head(s)}
<1>1. DOMAIN s = 1 .. Len(s) /\ DOMAIN Tail(s) = 1 .. Len(s) - 1 /\ Len(s) > 0
  OBVIOUS
<1>2. \A i \in 1 .. Len(s) - 1 : Tail(s)[i] = s[i + 1]
  OBVIOUS
<1>3. ToSet(Tail(s)) \union {Head(s)} \subseteq ToSet(s)
  <2>1. Head(s) = s[1] /\ 1 \in DOMAIN s
    BY <1>1
  <2>2. \A i \in DOMAIN Tail(s) : i + 1 \in DOMAIN s
    BY <1>1
  <2> QED  BY <1>1, <1>2, <2>1, <2>2 DEF ToSet
<1>4. ToSet(s) \subseteq ToSet(Tail(s)) \union {Head(s)}
  <2> SUFFICES ASSUME NEW i \in DOMAIN s
               PROVE  s[i] \in ToSet(Tail(s)) \union {Head(s)}
      BY DEF ToSet
  <2>1. CASE i = 1
    BY <2>1
  <2>2. CASE i # 1
    <3>1. i - 1 \in DOMAIN Tail(s) /\ Tail(s)[i - 1] = s[i]
      BY <1>1, <1>2, <2>2
    <3> QED  BY <3>1 DEF ToSet
  <2> QED  BY <2>1, <2>2
<1> QED  BY <1>3, <1>4

(* perf_submit adds its event to what was submitted, kept or not.          *)
LEMMA SubmitAdds ==
  ASSUME NEW E, PerfTypeOK(E), NEW cpu \in Cpus, NEW e \in E,
         PerfSubmit(cpu, e)
  PROVE  PerfTypeOK(E)' /\ Submitted' = Submitted \union {e}
<1>1. CASE cpu \in opened /\ Len(ring[cpu]) < RingSize
  <2>1. /\ ring' = [ring EXCEPT ![cpu] = Append(ring[cpu], e)]
        /\ UNCHANGED <<opened, delivered, lost>>
    BY <1>1 DEF PerfSubmit
  <2>2. ring[cpu] \in Seq(E)
    BY DEF PerfTypeOK
  <2>3. Append(ring[cpu], e) \in Seq(E) /\ Len(Append(ring[cpu], e)) <= RingSize
    BY <1>1, <2>2, PerfBufferAssumption
  <2>4. PerfTypeOK(E)'
    BY <2>1, <2>3 DEF PerfTypeOK
  <2>5. ToSet(Append(ring[cpu], e)) = ToSet(ring[cpu]) \union {e}
    BY <2>2, ToSetAppend
  <2>6. \A c \in Cpus : ToSet(ring'[c]) =
                          IF c = cpu THEN ToSet(ring[c]) \union {e} ELSE ToSet(ring[c])
    BY <2>1, <2>5 DEF PerfTypeOK
  <2>7. InRings' = InRings \union {e}
    BY <2>6 DEF InRings
  <2> QED  BY <2>1, <2>4, <2>7 DEF Submitted
<1>2. CASE ~(cpu \in opened /\ Len(ring[cpu]) < RingSize)
  <2>1. lost' = lost \union {e} /\ UNCHANGED <<opened, delivered, ring>>
    BY <1>2 DEF PerfSubmit
  <2> QED  BY <2>1 DEF PerfTypeOK, Submitted, InRings
<1> QED  BY <1>1, <1>2

(* A delivery changes where an event is, not whether it was submitted.     *)
LEMMA DeliverMoves ==
  ASSUME NEW E, PerfTypeOK(E), NEW cpu \in Cpus, Deliver(cpu)
  PROVE  PerfTypeOK(E)' /\ Submitted' = Submitted
<1>1. /\ ring' = [ring EXCEPT ![cpu] = Tail(ring[cpu])]
      /\ delivered' = delivered \union {Head(ring[cpu])}
      /\ UNCHANGED <<opened, lost>> /\ ring[cpu] # <<>>
  BY DEF Deliver
<1>2. ring[cpu] \in Seq(E) /\ Len(ring[cpu]) <= RingSize
  BY DEF PerfTypeOK
<1>3. /\ Tail(ring[cpu]) \in Seq(E) /\ Head(ring[cpu]) \in E
      /\ Len(Tail(ring[cpu])) <= RingSize
  BY <1>1, <1>2, PerfBufferAssumption
<1>4. PerfTypeOK(E)'
  BY <1>1, <1>3 DEF PerfTypeOK
<1>5. ToSet(ring[cpu]) = ToSet(Tail(ring[cpu])) \union {Head(ring[cpu])}
  BY <1>1, <1>2, ToSetTail
<1>6. \A c \in Cpus : ToSet(ring'[c]) =
                        IF c = cpu THEN ToSet(Tail(ring[cpu])) ELSE ToSet(ring[c])
  BY <1>1 DEF PerfTypeOK
<1>7. InRings = InRings' \union {Head(ring[cpu])} \/ InRings = InRings'
  BY <1>5, <1>6 DEF InRings
<1>8. Head(ring[cpu]) \in InRings
  BY <1>5 DEF InRings
<1>9. InRings' \subseteq InRings
  BY <1>7
<1> QED  BY <1>1, <1>4, <1>7, <1>8, <1>9 DEF Submitted

(* Nor does opening a ring.                                                *)
LEMMA OpenKeeps ==
  ASSUME NEW E, PerfTypeOK(E), NEW cpu \in Cpus, OpenRing(cpu)
  PROVE  PerfTypeOK(E)' /\ Submitted' = Submitted
BY DEF OpenRing, PerfTypeOK, Submitted, InRings

(* Nor does a step of somebody else.                                       *)
LEMMA OthersKeep ==
  ASSUME NEW E, PerfTypeOK(E), UNCHANGED perfVars
  PROVE  PerfTypeOK(E)' /\ Submitted' = Submitted
BY DEF perfVars, PerfTypeOK, Submitted, InRings

-----------------------------------------------------------------------------
(* The bytes of a set of events: MapThenSumSet goes through a recursive    *)
(* function on the subsets, which takes the events in an order nobody      *)
(* knows.                                                                  *)
Bytes(S) == MapThenSumSet(LAMBDA e : e.bytes, S)

Pick(s) == CHOOSE e \in s : TRUE

Sums(S, f) ==
  f = [s \in SUBSET S |-> IF s = {} THEN 0 ELSE Pick(s).bytes + f[s \ {Pick(s)}]]

AnyOrder(S, f) == \A s \in SUBSET S : \A e \in s : f[s] = e.bytes + f[s \ {e}]

Counts(S) == IsFiniteSet(S) /\ \A e \in S : e.bytes \in Nat

(* The order of the natural numbers is well-founded.                       *)
LEMMA Descending == IsWellFoundedOn({p \in Nat \X Nat : p[1] < p[2]}, Nat)
BY NatLessThanWellFounded DEF OpToRel

(* Induction, with a set in the place of the property.                     *)
LEMMA Induction ==
  ASSUME NEW T \in SUBSET Nat, 0 \in T, \A n \in T : n + 1 \in T
  PROVE  T = Nat
<1> SUFFICES ASSUME Nat \ T # {} PROVE FALSE
    OBVIOUS
<1> DEFINE R == {p \in Nat \X Nat : p[1] < p[2]}
<1>1. IsWellFoundedOn(R, Nat)
  BY Descending
<1> HIDE DEF R
<1>2. PICK x \in Nat \ T : \A y \in Nat \ T : ~(<<y, x>> \in R)
  BY <1>1, WFMin
<1>3. x # 0 /\ x - 1 \in Nat
  BY <1>2
<1>4. <<x - 1, x>> \in R
  BY <1>3 DEF R
<1>5. x - 1 \in T
  BY <1>2, <1>3, <1>4
<1> QED  BY <1>2, <1>3, <1>5

(* Taking an event out of a finite set makes it one smaller.               *)
LEMMA OneLess ==
  ASSUME NEW S, IsFiniteSet(S), NEW e \in S
  PROVE  /\ IsFiniteSet(S \ {e}) /\ Cardinality(S \ {e}) \in Nat
         /\ Cardinality(S) = Cardinality(S \ {e}) + 1
<1>1. /\ IsFiniteSet(S \ {e}) /\ Cardinality(S \ {e}) \in Nat /\ Cardinality(S) \in Nat
      /\ Cardinality(S \ {e}) = Cardinality(S) - 1
  BY FS_RemoveElement, FS_CardinalityType
<1> QED  BY <1>1

(* What is picked is there.                                                *)
LEMMA PickIs == ASSUME NEW s, s # {} PROVE Pick(s) \in s
BY DEF Pick

(* The recursive function exists: it is built on the subsets of at most n  *)
(* events, for one n after the other.                                      *)
LEMMA SumsExist ==
  ASSUME NEW S, Counts(S)
  PROVE  \E f : Sums(S, f) /\ f \in [SUBSET S -> Nat]
<1> DEFINE D(n) == {s \in SUBSET S : Cardinality(s) <= n}
           Step(s, f) == IF s = {} THEN 0 ELSE Pick(s).bytes + f[s \ {Pick(s)}]
           T == {n \in Nat : \E f \in [D(n) -> Nat] : \A s \in D(n) : f[s] = Step(s, f)}
<1>1. \A s \in SUBSET S : IsFiniteSet(s) /\ Cardinality(s) \in Nat
  BY FS_Subset, FS_CardinalityType DEF Counts
<1>2. \A s \in SUBSET S : Cardinality(s) = 0 => s = {}
  BY <1>1, FS_EmptySet
<1>3. ASSUME NEW n \in Nat, NEW s \in D(n + 1), s # {}
      PROVE  s \ {Pick(s)} \in D(n) /\ Pick(s).bytes \in Nat
  <2>1. Pick(s) \in s /\ s \in SUBSET S
    BY <1>3, PickIs
  <2>2. /\ Cardinality(s) = Cardinality(s \ {Pick(s)}) + 1
        /\ Cardinality(s \ {Pick(s)}) \in Nat /\ Cardinality(s) <= n + 1
    BY <1>1, <2>1, OneLess
  <2>3. Cardinality(s \ {Pick(s)}) <= n
    BY <2>2
  <2> QED  BY <2>1, <2>3 DEF Counts
<1>4. 0 \in T
  <2>1. D(0) \subseteq {{}}
    BY <1>1, <1>2
  <2> DEFINE f == [s \in D(0) |-> 0]
  <2>2. f \in [D(0) -> Nat] /\ \A s \in D(0) : f[s] = Step(s, f)
    BY <2>1
  <2> QED  BY <2>2
<1>5. ASSUME NEW n \in T PROVE n + 1 \in T
  <2>1. PICK f \in [D(n) -> Nat] : \A s \in D(n) : f[s] = Step(s, f)
    BY <1>5
  <2> DEFINE g == [s \in D(n + 1) |-> Step(s, f)]
  <2>2. D(n) \subseteq D(n + 1)
    <3>1. \A s \in SUBSET S : Cardinality(s) <= n => Cardinality(s) <= n + 1
      BY <1>1
    <3> QED  BY <3>1
  <2>3. ASSUME NEW s \in D(n + 1) PROVE Step(s, f) \in Nat
    BY <1>3, <2>1, <2>3
  <2>4. \A s \in D(n) : g[s] = f[s]
    BY <2>1, <2>2
  <2>5. ASSUME NEW s \in D(n + 1) PROVE g[s] = Step(s, g)
    BY <1>3, <2>4, <2>5
  <2>6. g \in [D(n + 1) -> Nat]
    BY <2>3
  <2> HIDE DEF g
  <2>7. n + 1 \in Nat /\ \A s \in D(n + 1) : g[s] = Step(s, g)
    BY <2>5
  <2> QED  BY <2>6, <2>7
<1>6. T = Nat
  <2> HIDE DEF T
  <2>1. \A n \in T : n + 1 \in T
    BY <1>5
  <2>2. T \subseteq Nat
    BY DEF T
  <2> QED  BY <1>4, <2>1, <2>2, Induction
<1>7. Cardinality(S) \in Nat /\ D(Cardinality(S)) = SUBSET S
  BY <1>1, FS_Subset DEF Counts
<1>8. Cardinality(S) \in T
  BY <1>6, <1>7
<1>9. PICK f \in [SUBSET S -> Nat] : \A s \in SUBSET S : f[s] = Step(s, f)
  BY <1>7, <1>8
<1>10. f = [s \in SUBSET S |-> Step(s, f)]
  BY <1>9
<1> QED  BY <1>9, <1>10 DEF Sums

(* The sum of a set is what any such function, on it or on a larger set,   *)
(* gives.                                                                  *)
LEMMA SumsAgree ==
  ASSUME NEW S, Counts(S), NEW U \in SUBSET S, NEW f, Sums(S, f), NEW g, Sums(U, g)
  PROVE  \A s \in SUBSET U : f[s] = g[s]
<1> DEFINE T == {n \in Nat : \A s \in SUBSET U : Cardinality(s) = n => f[s] = g[s]}
<1>1. \A s \in SUBSET U : s \in SUBSET S /\ IsFiniteSet(s) /\ Cardinality(s) \in Nat
  BY FS_Subset, FS_CardinalityType DEF Counts
<1>2. \A s \in SUBSET U :
        /\ f[s] = IF s = {} THEN 0 ELSE Pick(s).bytes + f[s \ {Pick(s)}]
        /\ g[s] = IF s = {} THEN 0 ELSE Pick(s).bytes + g[s \ {Pick(s)}]
  BY <1>1 DEF Sums
<1>3. 0 \in T
  BY <1>1, <1>2, FS_EmptySet
<1>4. ASSUME NEW n \in T PROVE n + 1 \in T
  <2> SUFFICES ASSUME NEW s \in SUBSET U, Cardinality(s) = n + 1 PROVE f[s] = g[s]
      OBVIOUS
  <2>1. s # {}
    <3>1. n \in Nat
      OBVIOUS
    <3>2. Cardinality(s) # 0
      BY <3>1
    <3> QED  BY <3>2, FS_EmptySet
  <2>2. Pick(s) \in s /\ s \ {Pick(s)} \in SUBSET U
    BY <2>1, PickIs
  <2>3. Cardinality(s \ {Pick(s)}) = n
    BY <1>1, <2>2, OneLess
  <2> QED  BY <1>2, <1>4, <2>1, <2>2, <2>3
<1>5. T = Nat
  <2> HIDE DEF T
  <2>1. (\A n \in T : n + 1 \in T) /\ T \subseteq Nat
    BY <1>4 DEF T
  <2> QED  BY <1>3, <2>1, Induction
<1> QED  BY <1>1, <1>5

(* It does not matter which event is taken first.                          *)
LEMMA AnyFirst ==
  ASSUME NEW S, Counts(S), NEW f \in [SUBSET S -> Nat], Sums(S, f)
  PROVE  AnyOrder(S, f)
<1> DEFINE Free(s) == \A e \in s : f[s] = e.bytes + f[s \ {e}]
           T == {n \in Nat : \A s \in SUBSET S : Cardinality(s) = n => Free(s)}
<1>1. \A s \in SUBSET S : IsFiniteSet(s) /\ Cardinality(s) \in Nat
  BY FS_Subset, FS_CardinalityType DEF Counts
<1>2. \A s \in SUBSET S : s # {} => f[s] = Pick(s).bytes + f[s \ {Pick(s)}]
  BY DEF Sums
<1>3. 0 \in T
  BY <1>1, FS_EmptySet
<1>4. ASSUME NEW n \in T PROVE n + 1 \in T
  <2> SUFFICES ASSUME NEW s \in SUBSET S, Cardinality(s) = n + 1, NEW e \in s
               PROVE  f[s] = e.bytes + f[s \ {e}]
      OBVIOUS
  <2> DEFINE d == Pick(s)
  <2>1. d \in s /\ f[s] = d.bytes + f[s \ {d}]
    BY <1>2, PickIs
  <2>2. CASE d = e
    BY <2>1, <2>2
  <2>3. CASE d # e
    <3> HIDE DEF d
    <3>1. Cardinality(s \ {d}) = n /\ Cardinality(s \ {e}) = n
      BY <1>1, <2>1, OneLess
    <3>2. /\ s \ {d} \in SUBSET S /\ s \ {e} \in SUBSET S
          /\ e \in s \ {d} /\ d \in s \ {e}
          /\ (s \ {d}) \ {e} = (s \ {e}) \ {d} /\ (s \ {e}) \ {d} \in SUBSET S
      BY <2>1, <2>3
    <3>3. f[s \ {d}] = e.bytes + f[(s \ {d}) \ {e}]
      BY <1>4, <3>1, <3>2
    <3>4. f[s \ {e}] = d.bytes + f[(s \ {e}) \ {d}]
      BY <1>4, <3>1, <3>2
    <3>5. /\ e.bytes \in Nat /\ d.bytes \in Nat
          /\ f[(s \ {e}) \ {d}] \in Nat
      BY <2>1, <3>2 DEF Counts
    <3> DEFINE a == e.bytes
               b == d.bytes
               r == f[(s \ {e}) \ {d}]
               u == f[s \ {d}]
               v == f[s \ {e}]
    <3>6. a \in Nat /\ b \in Nat /\ r \in Nat /\ u = a + r /\ v = b + r
      BY <3>2, <3>3, <3>4, <3>5
    <3> HIDE DEF a, b, r, u, v
    <3>7. b + u = a + v
      BY <3>6
    <3> QED  BY <2>1, <3>7 DEF a, b, u, v
  <2> QED  BY <2>2, <2>3
<1>5. T = Nat
  <2> HIDE DEF T
  <2>1. (\A n \in T : n + 1 \in T) /\ T \subseteq Nat
    BY <1>4 DEF T
  <2> QED  BY <1>3, <2>1, Induction
<1> QED  BY <1>1, <1>5 DEF AnyOrder

(* So the bytes of a set are what such a function gives for it.            *)
LEMMA BytesAre ==
  ASSUME NEW S, Counts(S)
  PROVE  \E f \in [SUBSET S -> Nat] : Sums(S, f) /\ Bytes(S) = f[S]
<1> DEFINE f == CHOOSE g : Sums(S, g)
<1>1. Bytes(S) = f[S]
  BY DEF Bytes, MapThenSumSet, MapThenFoldSet, Sums, Pick
<1>2. PICK g : Sums(S, g) /\ g \in [SUBSET S -> Nat]
  BY SumsExist
<1>3. Sums(S, f)
  BY <1>2
<1> HIDE DEF f
<1>4. \A s \in SUBSET S : f[s] = g[s]
  BY <1>2, <1>3, SumsAgree
<1>5. f = [s \in SUBSET S |-> f[s]]
  BY <1>3, Zenon DEF Sums
<1>6. f \in [SUBSET S -> Nat]
  BY <1>2, <1>4, <1>5
<1> QED  BY <1>1, <1>3, <1>6

(* The bytes of no event are 0.                                            *)
LEMMA NoBytes == Bytes({}) = 0
<1>1. Counts({})
  BY FS_EmptySet DEF Counts
<1>2. PICK f \in [SUBSET {} -> Nat] : Sums({}, f) /\ Bytes({}) = f[{}]
  BY <1>1, BytesAre
<1> QED  BY <1>2 DEF Sums

(* One more event adds its bytes.                                          *)
LEMMA BytesAdd ==
  ASSUME NEW S, Counts(S), NEW e, e \notin S, e.bytes \in Nat
  PROVE  /\ Counts(S \union {e}) /\ Bytes(S) \in Nat
         /\ Bytes(S \union {e}) = Bytes(S) + e.bytes
<1> DEFINE T == S \union {e}
<1>1. Counts(T) /\ S \in SUBSET T /\ T \ {e} = S /\ e \in T /\ T \in SUBSET T
  BY FS_AddElement DEF Counts
<1> HIDE DEF T
<1>2. PICK f \in [SUBSET T -> Nat] : Sums(T, f) /\ Bytes(T) = f[T]
  BY <1>1, BytesAre
<1>3. PICK g \in [SUBSET S -> Nat] : Sums(S, g) /\ Bytes(S) = g[S]
  BY BytesAre
<1>4. f[T] = e.bytes + f[S]
  <2>1. AnyOrder(T, f)
    BY <1>1, <1>2, AnyFirst
  <2> QED  BY <1>1, <2>1 DEF AnyOrder
<1>5. f[S] = g[S]
  BY <1>1, <1>2, <1>3, SumsAgree
<1>6. g[S] \in Nat
  BY <1>3
<1>7. Bytes(T) = Bytes(S) + e.bytes
  BY <1>2, <1>3, <1>4, <1>5, <1>6
<1> QED  BY <1>1, <1>3, <1>6, <1>7 DEF T

-----------------------------------------------------------------------------
(* The two functions whose probes meet in sock_store.                      *)
Sharing == {"connect", "recv"}

(* What sock_store holds for a thread whose call is followed by a          *)
(* kretprobe is of that call, if it holds anything: entries that failed    *)
(* calls have left are overwritten when the call is entered.               *)
CallsOK ==
  /\ attached \in 0 .. Len(Probes)
  /\ ops \in Seq(Call) /\ Len(ops) <= MaxOps
  /\ op \in [Threads -> Nat] /\ store \in [Threads -> Nat] /\ hooked \subseteq Threads
  /\ \A n \in DOMAIN ops : ops[n].function = "connect" => ops[n].sock \in Socks
  /\ made \subseteq DOMAIN ops
  /\ \A th \in Threads :
       /\ op[th] <= Len(ops) /\ store[th] <= Len(ops)
       /\ th \in hooked => op[th] # 0
       /\ op[th] # 0 => (th \in hooked <=> ops[op[th]].followed)
       /\ th \in hooked /\ ops[op[th]].function \in Sharing /\ store[th] # 0 =>
            store[th] = op[th]

CountsOK ==
  /\ conn_start \subseteq Socks /\ Cardinality(conn_start) <= StartSize
  /\ ByteTotals(tx_bytes) /\ ByteTotals(rx_bytes)
  /\ open \subseteq Socks /\ sent \in [Pids -> Nat]

Base == CallsOK /\ CountsOK /\ PerfTypeOK(Event)

-----------------------------------------------------------------------------
(* A call that is entered is the last of the history.                      *)
LEMMA NewCallIs ==
  ASSUME CallsOK, NEW th \in Threads, NEW function \in {"connect", "accept", "send", "recv"},
         NEW s \in Socks \union {NoSock}, NEW followed \in BOOLEAN,
         function = "connect" => s \in Socks, NewCall(th, function, s, followed)
  PROVE  /\ ops' \in Seq(Call) /\ Len(ops') = Len(ops) + 1 /\ Len(ops') <= MaxOps
         /\ DOMAIN ops' = DOMAIN ops \union {Len(ops) + 1}
         /\ \A n \in DOMAIN ops : ops'[n] = ops[n]
         /\ ops'[Len(ops) + 1].function = function
         /\ ops'[Len(ops) + 1].followed = followed
         /\ \A n \in DOMAIN ops' : ops'[n].function = "connect" => ops'[n].sock \in Socks
         /\ DOMAIN ops = 1 .. Len(ops) /\ Len(ops) \in Nat /\ op[th] = 0
<1> DEFINE call == [function |-> function, pid |-> ProcOf[th], sock |-> s,
                    followed |-> followed]
<1>1. /\ call \in Call /\ call.function = function /\ call.followed = followed
      /\ call.sock = s
  BY NetworkMonitorAssumption DEF Call
<1>2. ops' = Append(ops, call) /\ Len(ops) < MaxOps /\ op[th] = 0
  BY DEF NewCall
<1>3. ops \in Seq(Call) /\ MaxOps \in Nat
  BY NetworkMonitorAssumption DEF CallsOK
<1> HIDE DEF call
<1>4. /\ ops' \in Seq(Call) /\ Len(ops') = Len(ops) + 1 /\ Len(ops') <= MaxOps
      /\ DOMAIN ops' = DOMAIN ops \union {Len(ops) + 1}
      /\ \A n \in DOMAIN ops : ops'[n] = ops[n]
      /\ ops'[Len(ops) + 1] = call
      /\ DOMAIN ops = 1 .. Len(ops) /\ Len(ops) \in Nat
  BY <1>1, <1>2, <1>3
<1>5. \A n \in DOMAIN ops' : ops'[n].function = "connect" => ops'[n].sock \in Socks
  BY <1>1, <1>4 DEF CallsOK
<1> QED  BY <1>1, <1>2, <1>4, <1>5

(* Where the kretprobe of a sharing function is attached, so is its kprobe.*)
LEMMA EntryFirst ==
  ASSUME CallsOK, NEW function \in Sharing, On(function, "return")
  PROVE  On(function, "entry")
<1>1. attached \in 0 .. 6
  BY DEF CallsOK, Probes
<1>2. CASE function = "connect"
  <2>1. \A i \in 1 .. 6 : Probes[i] = <<"connect", "return">> => i = 2
    BY DEF Probes
  <2>2. attached >= 2 /\ Probes[1] = <<"connect", "entry">>
    BY <1>1, <1>2, <2>1 DEF On, Probes
  <2> QED  BY <1>1, <1>2, <2>2 DEF On
<1>3. CASE function = "recv"
  <2>1. \A i \in 1 .. 6 : Probes[i] = <<"recv", "return">> => i = 6
    BY DEF Probes
  <2>2. attached >= 6 /\ Probes[5] = <<"recv", "entry">>
    BY <1>1, <1>3, <2>1 DEF On, Probes
  <2> QED  BY <1>1, <1>3, <2>2 DEF On
<1> QED  BY <1>2, <1>3 DEF Sharing

(* A call begins; connect and recv store their socket.                     *)
LEMMA BeginKeepsCalls ==
  ASSUME CallsOK, NEW th \in Threads, NEW function \in {"connect", "accept", "recv"},
         NEW s \in Socks \union {NoSock}, function = "connect" => s \in Socks,
         Begin(th, function, s),
         IF function = "accept" THEN UNCHANGED store ELSE StoreSock(th, function)
  PROVE  CallsOK'
<1> DEFINE n == Len(ops) + 1
<1>0. Follows(function) \in BOOLEAN
  BY DEF Follows
<1>1. /\ ops' \in Seq(Call) /\ Len(ops') = n /\ Len(ops') <= MaxOps
      /\ DOMAIN ops' = DOMAIN ops \union {n}
      /\ \A m \in DOMAIN ops : ops'[m] = ops[m]
      /\ ops'[n].function = function
      /\ ops'[n].followed = Follows(function)
      /\ \A m \in DOMAIN ops' : ops'[m].function = "connect" => ops'[m].sock \in Socks
      /\ DOMAIN ops = 1 .. Len(ops) /\ Len(ops) \in Nat /\ op[th] = 0
  BY <1>0, NewCallIs DEF Begin
<1>2. /\ op' = [op EXCEPT ![th] = n] /\ UNCHANGED <<attached, made>>
      /\ hooked' = IF Follows(function) THEN hooked \union {th} ELSE hooked
  BY DEF Begin
<1>3. store' = store \/ store' = [store EXCEPT ![th] = n]
  BY DEF StoreSock
<1>4. Follows(function) /\ function \in Sharing => store'[th] \in {0, n}
  <2> SUFFICES ASSUME Follows(function), function \in Sharing
               PROVE  store'[th] \in {0, n}
      OBVIOUS
  <2>1. On(function, "entry")
    BY EntryFirst DEF Follows
  <2>2. function # "accept"
    BY DEF Sharing
  <2> QED  BY <2>1, <2>2 DEF StoreSock, CallsOK
<1> HIDE DEF n
<1>5. /\ op' \in [Threads -> Nat] /\ store' \in [Threads -> Nat]
      /\ hooked' \subseteq Threads /\ made' \subseteq DOMAIN ops'
  <2>1. n \in Nat
    BY <1>1 DEF n
  <2> QED  BY <1>1, <1>2, <1>3, <2>1 DEF CallsOK
<1>6. ASSUME NEW o \in Threads
      PROVE  /\ op'[o] <= Len(ops') /\ store'[o] <= Len(ops')
             /\ o \in hooked' => op'[o] # 0
             /\ op'[o] # 0 => (o \in hooked' <=> ops'[op'[o]].followed)
             /\ o \in hooked' /\ ops'[op'[o]].function \in Sharing /\ store'[o] # 0 =>
                  store'[o] = op'[o]
  <2>1. /\ op[o] \in Nat /\ store[o] \in Nat /\ op[o] <= Len(ops) /\ store[o] <= Len(ops)
        /\ o \in hooked => op[o] # 0
    BY DEF CallsOK
  <2>2. CASE o = th
    <3>1. op'[o] = n /\ store'[o] \in {store[o], n}
      BY <1>2, <1>3, <2>2 DEF CallsOK
    <3>2. o \in hooked' <=> Follows(function)
      BY <1>1, <1>2, <2>1, <2>2
    <3>3. n = Len(ops) + 1
      BY DEF n
    <3> QED  BY <1>1, <1>4, <2>1, <2>2, <3>1, <3>2, <3>3
  <2>3. CASE o # th
    <3>1. op'[o] = op[o] /\ store'[o] = store[o] /\ (o \in hooked' <=> o \in hooked)
      BY <1>2, <1>3, <2>3 DEF CallsOK
    <3>2. op[o] # 0 => ops'[op[o]] = ops[op[o]]
      BY <1>1, <2>1
    <3>3. n = Len(ops) + 1
      BY DEF n
    <3> QED  BY <1>1, <2>1, <3>1, <3>2, <3>3 DEF CallsOK
  <2> QED  BY <2>2, <2>3
<1> QED  BY <1>1, <1>2, <1>5, <1>6 DEF CallsOK

(* A call ends, and its entry may be deleted.                              *)
LEMMA EndKeepsCalls ==
  ASSUME CallsOK, NEW th \in Threads, NEW function, End(th, function),
         store' = store \/ store' = [store EXCEPT ![th] = 0],
         made' = made \/ made' = made \union {op[th]}
  PROVE  CallsOK'
<1>1. /\ op' = [op EXCEPT ![th] = 0] /\ hooked' = hooked \ {th}
      /\ UNCHANGED <<attached, ops>> /\ op[th] # 0
  BY DEF End, Inside
<1>2. op[th] \in DOMAIN ops
  BY <1>1 DEF CallsOK
<1>3. /\ op' \in [Threads -> Nat] /\ store' \in [Threads -> Nat]
      /\ hooked' \subseteq Threads /\ made' \subseteq DOMAIN ops'
  BY <1>1, <1>2 DEF CallsOK
<1>4. \A o \in Threads :
        /\ op'[o] \in {0, op[o]} /\ store'[o] \in {0, store[o]}
        /\ op'[o] # 0 => (o \in hooked' <=> o \in hooked)
        /\ o \in hooked' => o \in hooked /\ op'[o] = op[o]
  BY <1>1 DEF CallsOK
<1>5. ASSUME NEW o \in Threads
      PROVE  /\ op'[o] <= Len(ops') /\ store'[o] <= Len(ops')
             /\ o \in hooked' => op'[o] # 0
             /\ op'[o] # 0 => (o \in hooked' <=> ops'[op'[o]].followed)
             /\ o \in hooked' /\ ops'[op'[o]].function \in Sharing /\ store'[o] # 0 =>
                  store'[o] = op'[o]
  BY <1>1, <1>4 DEF CallsOK
<1> QED  BY <1>1, <1>3, <1>5 DEF CallsOK

(* A send is a call that begins and ends in one step.                      *)
LEMMA SendKeepsCalls ==
  ASSUME CallsOK, CountsOK, NEW th \in Threads, NEW s \in Socks, NEW size \in 0 .. MaxBytes,
         Send(th, s, size)
  PROVE  /\ CallsOK' /\ Len(ops) + 1 \in 1 .. MaxOps /\ Len(ops') = Len(ops) + 1
         /\ \A n \in DOMAIN ops : ops'[n] = ops[n]
<1>1. NewCall(th, "send", s, FALSE) /\ UNCHANGED <<attached, op, hooked, store, made>>
  BY DEF Send
<1>2. /\ ops' \in Seq(Call) /\ Len(ops') = Len(ops) + 1 /\ Len(ops') <= MaxOps
      /\ DOMAIN ops' = DOMAIN ops \union {Len(ops) + 1}
      /\ \A n \in DOMAIN ops : ops'[n] = ops[n]
      /\ \A n \in DOMAIN ops' : ops'[n].function = "connect" => ops'[n].sock \in Socks
      /\ DOMAIN ops = 1 .. Len(ops) /\ Len(ops) \in Nat
  BY <1>1, NewCallIs
<1>3. \A o \in Threads : op[o] # 0 => ops'[op[o]] = ops[op[o]]
  BY <1>2 DEF CallsOK
<1>4. \A o \in Threads : op[o] \in Nat /\ store[o] \in Nat
                         /\ op[o] <= Len(ops) /\ store[o] <= Len(ops)
  BY DEF CallsOK
<1>5. CallsOK'
  BY <1>1, <1>2, <1>3, <1>4 DEF CallsOK
<1> QED  BY <1>2, <1>5, NetworkMonitorAssumption

(* The totals stay totals of processes.                                    *)
LEMMA AddedIs ==
  ASSUME NEW bytes, ByteTotals(bytes), NEW p \in Pids, NEW size \in Nat
  PROVE  ByteTotals(Added(bytes, p, size))
BY DEF Added, ByteTotals, Value

(* conn_start stays within its size.                                       *)
LEMMA StartedIs ==
  ASSUME conn_start \subseteq Socks, Cardinality(conn_start) <= StartSize,
         NEW s \in Socks
  PROVE  Started(s) \subseteq Socks /\ Cardinality(Started(s)) <= StartSize
<1>1. IsFiniteSet(conn_start) /\ StartSize \in Nat
  BY FS_Subset, NetworkMonitorAssumption
<1>2. Cardinality(conn_start) \in Nat
  BY <1>1, FS_CardinalityType
<1>3. CASE s \notin conn_start /\ Cardinality(conn_start) < StartSize
  <2>1. Cardinality(conn_start \union {s}) = Cardinality(conn_start) + 1
    BY <1>1, <1>3, FS_AddElement
  <2>2. Started(s) = conn_start \union {s}
    BY <1>3 DEF Started
  <2>3. Cardinality(Started(s)) <= StartSize
    BY <1>1, <1>2, <1>3, <2>1, <2>2
  <2> QED  BY <2>2, <2>3
<1>4. CASE ~(s \notin conn_start /\ Cardinality(conn_start) < StartSize)
  <2>1. Started(s) = conn_start
    BY <1>4 DEF Started
  <2> QED  BY <2>1
<1> QED  BY <1>3, <1>4

(* What is emitted is submitted.                                           *)
LEMMA EmitAdds ==
  ASSUME PerfTypeOK(Event), NEW e \in Event, Emit(e)
  PROVE  PerfTypeOK(Event)' /\ Submitted' = Submitted \union {e}
BY SubmitAdds DEF Emit

-----------------------------------------------------------------------------
(* Steps that submit nothing.                                              *)
Quiet ==
  \/ Attach \/ OpenBuffer \/ UNCHANGED vars
  \/ \E th \in Threads :
       \/ \E s \in Socks : Connect(th, s) \/ Recv(th, s)
       \/ Accept(th) \/ Fail(th)
  \/ \E s \in Socks : Close(s)
  \/ \E cpu \in Cpus : Poll(cpu)

(* They keep the types, and nothing is submitted.                          *)
LEMMA QuietKeepsBase ==
  ASSUME Base, Quiet
  PROVE  Base' /\ Submitted' = Submitted
<1>0. CallsOK /\ CountsOK /\ PerfTypeOK(Event)
  BY DEF Base
<1>1. CASE Attach \/ UNCHANGED vars
  <2>1. CallsOK' /\ CountsOK' /\ UNCHANGED perfVars
    <3>1. attached' \in 0 .. Len(Probes)
      BY <1>0, <1>1 DEF Attach, vars, netVars, CallsOK, Probes
    <3> QED  BY <1>0, <1>1, <3>1 DEF Attach, vars, netVars, CallsOK, CountsOK, ByteTotals
  <2> QED  BY <1>0, <2>1, OthersKeep DEF Base
<1>2. CASE OpenBuffer \/ \E cpu \in Cpus : Poll(cpu)
  <2>1. CallsOK' /\ CountsOK'
    BY <1>0, <1>2 DEF OpenBuffer, Poll, netVars, CallsOK, CountsOK, ByteTotals
  <2>2. PerfTypeOK(Event)' /\ Submitted' = Submitted
    BY <1>0, <1>2, OpenKeeps, DeliverMoves DEF OpenBuffer, Poll
  <2> QED  BY <2>1, <2>2 DEF Base
<1>3. ASSUME NEW th \in Threads, NEW s \in Socks, Connect(th, s) \/ Recv(th, s)
      PROVE  Base' /\ Submitted' = Submitted
  <2>1. CallsOK'
    BY <1>0, <1>3, BeginKeepsCalls DEF Connect, Recv
  <2>2. CountsOK' /\ UNCHANGED perfVars
    BY <1>0, <1>3 DEF Connect, Recv, Begin, CountsOK, ByteTotals
  <2> QED  BY <1>0, <2>1, <2>2, OthersKeep DEF Base
<1>4. ASSUME NEW th \in Threads, Accept(th)
      PROVE  Base' /\ Submitted' = Submitted
  <2>1. CallsOK'
    BY <1>0, <1>4, BeginKeepsCalls DEF Accept
  <2>2. CountsOK' /\ UNCHANGED perfVars
    BY <1>0, <1>4 DEF Accept, Begin, CountsOK, ByteTotals
  <2> QED  BY <1>0, <2>1, <2>2, OthersKeep DEF Base
<1>5. ASSUME NEW th \in Threads, Fail(th)
      PROVE  Base' /\ Submitted' = Submitted
  <2>1. CallsOK'
    BY <1>0, <1>5, EndKeepsCalls DEF Fail
  <2>2. CountsOK' /\ UNCHANGED perfVars
    BY <1>0, <1>5 DEF Fail, CountsOK, ByteTotals
  <2> QED  BY <1>0, <2>1, <2>2, OthersKeep DEF Base
<1>6. ASSUME NEW s \in Socks, Close(s)
      PROVE  Base' /\ Submitted' = Submitted
  <2>1. CallsOK' /\ CountsOK' /\ UNCHANGED perfVars
    BY <1>0, <1>6 DEF Close, CallsOK, CountsOK, ByteTotals
  <2> QED  BY <1>0, <2>1, OthersKeep DEF Base
<1> QED  BY <1>1, <1>2, <1>3, <1>4, <1>5, <1>6 DEF Quiet

(* The return of a connect: its event names the entry of this call.        *)
LEMMA ConnectReturnIs ==
  ASSUME Base, NEW th \in Threads, ConnectReturn(th)
  PROVE  /\ Base' /\ op[th] \in DOMAIN ops /\ made' = made \union {op[th]}
         /\ UNCHANGED <<tx_bytes, rx_bytes, sent, ops>>
         /\ IF th \in hooked /\ store[th] # 0
            THEN \E e \in Event : e.op = op[th] /\ e.from = e.op /\ e.type = "CONNECT"
                                  /\ Submitted' = Submitted \union {e}
            ELSE Submitted' = Submitted
<1>0. CallsOK /\ CountsOK /\ PerfTypeOK(Event)
  BY DEF Base
<1>1. /\ op[th] \in DOMAIN ops /\ op[th] \in 1 .. MaxOps
      /\ ops[op[th]].function = "connect" /\ ops[op[th]].sock \in Socks
      /\ End(th, "connect") /\ made' = made \union {op[th]}
  BY <1>0, NetworkMonitorAssumption DEF ConnectReturn, End, Inside, CallsOK
<1>2. CallsOK'
  <2>1. store' = store \/ store' = [store EXCEPT ![th] = 0]
    BY DEF ConnectReturn
  <2> QED  BY <1>0, <1>1, <2>1, EndKeepsCalls
<1>3. open' \subseteq Socks /\ UNCHANGED <<tx_bytes, rx_bytes, sent, ops>>
  BY <1>0, <1>1 DEF ConnectReturn, CountsOK, ByteTotals, End
<1>4. CASE th \in hooked /\ store[th] # 0
  <2>1. store[th] = op[th]
    BY <1>0, <1>1, <1>4 DEF CallsOK, Sharing
  <2> DEFINE e == [op |-> op[th], type |-> "CONNECT", from |-> store[th],
                   pid |-> ProcOf[th], bytes |-> 0]
  <2>2. e \in Event /\ e.op = op[th] /\ e.from = e.op /\ e.type = "CONNECT"
    BY <1>1, <2>1, NetworkMonitorAssumption DEF Event
  <2>3. Emit(e) /\ conn_start' = Started(ops[op[th]].sock)
    BY <1>4, <2>1 DEF ConnectReturn
  <2> HIDE DEF e
  <2>4. PerfTypeOK(Event)' /\ Submitted' = Submitted \union {e}
    BY <1>0, <2>2, <2>3, EmitAdds
  <2>5. CountsOK'
    BY <1>0, <1>1, <1>3, <2>3, StartedIs DEF CountsOK, ByteTotals
  <2> QED  BY <1>1, <1>2, <1>3, <1>4, <2>2, <2>4, <2>5 DEF Base
<1>5. CASE ~(th \in hooked /\ store[th] # 0)
  <2>1. UNCHANGED <<conn_start, perfVars>>
    BY <1>5 DEF ConnectReturn
  <2>2. CountsOK'
    BY <1>0, <1>3, <2>1 DEF CountsOK, ByteTotals
  <2> QED  BY <1>0, <1>1, <1>2, <1>3, <1>5, <2>1, <2>2, OthersKeep DEF Base
<1> QED  BY <1>4, <1>5

(* The return of an accept finds its socket in the return value.           *)
LEMMA AcceptReturnIs ==
  ASSUME Base, NEW th \in Threads, NEW s \in Socks, AcceptReturn(th, s)
  PROVE  /\ Base' /\ op[th] \in DOMAIN ops /\ made' = made \union {op[th]}
         /\ UNCHANGED <<tx_bytes, rx_bytes, sent, ops>>
         /\ IF th \in hooked
            THEN \E e \in Event : e.op = op[th] /\ e.from = e.op /\ e.type = "ACCEPT"
                                  /\ Submitted' = Submitted \union {e}
            ELSE Submitted' = Submitted
<1>0. CallsOK /\ CountsOK /\ PerfTypeOK(Event)
  BY DEF Base
<1>1. /\ op[th] \in DOMAIN ops /\ op[th] \in 1 .. MaxOps
      /\ End(th, "accept") /\ made' = made \union {op[th]}
  BY <1>0, NetworkMonitorAssumption DEF AcceptReturn, End, Inside, CallsOK
<1>2. CallsOK'
  BY <1>0, <1>1, EndKeepsCalls DEF AcceptReturn
<1>3. open' \subseteq Socks /\ UNCHANGED <<tx_bytes, rx_bytes, sent, ops>>
  BY <1>0 DEF AcceptReturn, CountsOK, ByteTotals, End
<1>4. CASE th \in hooked
  <2> DEFINE e == [op |-> op[th], type |-> "ACCEPT", from |-> op[th],
                   pid |-> ProcOf[th], bytes |-> 0]
  <2>2. e \in Event /\ e.op = op[th] /\ e.from = e.op /\ e.type = "ACCEPT"
    BY <1>1, NetworkMonitorAssumption DEF Event
  <2>3. Emit(e) /\ conn_start' = Started(s)
    BY <1>4 DEF AcceptReturn
  <2> HIDE DEF e
  <2>4. PerfTypeOK(Event)' /\ Submitted' = Submitted \union {e}
    BY <1>0, <2>2, <2>3, EmitAdds
  <2>5. CountsOK'
    BY <1>0, <1>3, <2>3, StartedIs DEF CountsOK, ByteTotals
  <2> QED  BY <1>1, <1>2, <1>3, <1>4, <2>2, <2>4, <2>5 DEF Base
<1>5. CASE th \notin hooked
  <2>1. UNCHANGED <<conn_start, perfVars>>
    BY <1>5 DEF AcceptReturn
  <2>2. CountsOK'
    BY <1>0, <1>3, <2>1 DEF CountsOK, ByteTotals
  <2> QED  BY <1>0, <1>1, <1>2, <1>3, <1>5, <2>1, <2>2, OthersKeep DEF Base
<1> QED  BY <1>4, <1>5

(* A receive has its event when its entry is there.                        *)
LEMMA RecvReturnIs ==
  ASSUME Base, NEW th \in Threads, NEW size \in 0 .. MaxBytes, RecvReturn(th, size)
  PROVE  /\ Base' /\ UNCHANGED made
         /\ UNCHANGED <<tx_bytes, sent, ops>>
         /\ rx_bytes' = rx_bytes \/ (size # 0 /\ rx_bytes' = Added(rx_bytes, ProcOf[th], size))
         /\ \/ Submitted' = Submitted
            \/ /\ size # 0 /\ rx_bytes' = Added(rx_bytes, ProcOf[th], size)
               /\ \E e \in Event : /\ e.from = e.op /\ e.type = "RECV"
                                   /\ e.pid = ProcOf[th] /\ e.bytes = size
                                   /\ Submitted' = Submitted \union {e}
<1>0. CallsOK /\ CountsOK /\ PerfTypeOK(Event)
  BY DEF Base
<1>1. /\ op[th] \in DOMAIN ops /\ op[th] \in 1 .. MaxOps
      /\ ops[op[th]].function = "recv"
      /\ End(th, "recv") /\ UNCHANGED <<conn_start, tx_bytes, open, sent, made, ops>>
  BY <1>0, NetworkMonitorAssumption DEF RecvReturn, End, Inside, CallsOK
<1>2. CallsOK'
  <2>1. store' = store \/ store' = [store EXCEPT ![th] = 0]
    BY DEF RecvReturn
  <2> QED  BY <1>0, <1>1, <2>1, EndKeepsCalls
<1>4. rx_bytes' = rx_bytes \/ (size # 0 /\ rx_bytes' = Added(rx_bytes, ProcOf[th], size))
  BY DEF RecvReturn
<1>3. CountsOK'
  <2>1. rx_bytes' = rx_bytes \/ rx_bytes' = Added(rx_bytes, ProcOf[th], size)
    BY <1>4
  <2>2. ByteTotals(rx_bytes) /\ ProcOf[th] \in Pids /\ size \in Nat
    BY <1>0, NetworkMonitorAssumption DEF CountsOK, ByteTotals
  <2>3. ByteTotals(rx_bytes')
    BY <2>1, <2>2, AddedIs
  <2> QED  BY <1>0, <1>1, <2>3 DEF CountsOK, ByteTotals
<1>5. CASE th \in hooked /\ size > 0 /\ store[th] # 0
  <2>1. store[th] = op[th]
    BY <1>0, <1>1, <1>5 DEF CallsOK, Sharing
  <2> DEFINE e == [op |-> op[th], type |-> "RECV", from |-> store[th],
                   pid |-> ProcOf[th], bytes |-> size]
  <2>2. /\ e \in Event /\ e.from = e.op /\ e.type = "RECV"
        /\ e.pid = ProcOf[th] /\ e.bytes = size
    BY <1>1, <2>1, NetworkMonitorAssumption DEF Event
  <2>3. Emit(e) /\ size # 0 /\ rx_bytes' = Added(rx_bytes, ProcOf[th], size)
    BY <1>5 DEF RecvReturn
  <2> HIDE DEF e
  <2>4. PerfTypeOK(Event)' /\ Submitted' = Submitted \union {e}
    BY <1>0, <2>2, <2>3, EmitAdds
  <2> QED  BY <1>1, <1>2, <1>3, <1>4, <2>2, <2>3, <2>4 DEF Base
<1>6. CASE ~(th \in hooked /\ size > 0 /\ store[th] # 0)
  <2>1. UNCHANGED perfVars
    BY <1>6 DEF RecvReturn
  <2> QED  BY <1>0, <1>1, <1>2, <1>3, <1>4, <2>1, OthersKeep DEF Base
<1> QED  BY <1>5, <1>6

(* A send has its event when the probe is attached.                        *)
LEMMA SendIs ==
  ASSUME Base, NEW th \in Threads, NEW s \in Socks, NEW size \in 0 .. MaxBytes,
         Send(th, s, size)
  PROVE  /\ Base' /\ UNCHANGED made
         /\ UNCHANGED rx_bytes /\ Len(ops') = Len(ops) + 1
         /\ \/ Submitted' = Submitted /\ UNCHANGED <<tx_bytes, sent>>
            \/ /\ tx_bytes' = Added(tx_bytes, ProcOf[th], size)
               /\ \E taken \in 0 .. size : sent' = [sent EXCEPT ![ProcOf[th]] = @ + taken]
               /\ \E e \in Event : /\ e.from = e.op /\ e.op = Len(ops) + 1 /\ e.type = "SEND"
                                   /\ e.pid = ProcOf[th] /\ e.bytes = size
                                   /\ Submitted' = Submitted \union {e}
<1>0. CallsOK /\ CountsOK /\ PerfTypeOK(Event)
  BY DEF Base
<1>1. CallsOK' /\ Len(ops) + 1 \in 1 .. MaxOps /\ Len(ops') = Len(ops) + 1
  BY <1>0, SendKeepsCalls
<1>2. UNCHANGED <<made, conn_start, rx_bytes, open>>
  BY DEF Send
<1>3. ProcOf[th] \in Pids /\ size \in Nat /\ size \in 0 .. MaxBytes
  BY NetworkMonitorAssumption
<1>4. CASE On("send", "entry")
  <2> DEFINE e == [op |-> Len(ops) + 1, type |-> "SEND", from |-> Len(ops) + 1,
                   pid |-> ProcOf[th], bytes |-> size]
  <2>2. /\ e \in Event /\ e.from = e.op /\ e.op = Len(ops) + 1
        /\ e.type = "SEND" /\ e.pid = ProcOf[th] /\ e.bytes = size
    BY <1>1, <1>3 DEF Event
  <2>3. Emit(e) /\ tx_bytes' = Added(tx_bytes, ProcOf[th], size)
        /\ \E taken \in 0 .. size : sent' = [sent EXCEPT ![ProcOf[th]] = @ + taken]
    BY <1>4 DEF Send
  <2> HIDE DEF e
  <2>4. PerfTypeOK(Event)' /\ Submitted' = Submitted \union {e}
    BY <1>0, <2>2, <2>3, EmitAdds
  <2>5. ByteTotals(tx_bytes')
    BY <1>0, <1>3, <2>3, AddedIs DEF CountsOK, ByteTotals
  <2>6. sent' \in [Pids -> Nat]
    BY <1>0, <1>3, <2>3 DEF CountsOK, ByteTotals
  <2>7. CountsOK'
    BY <1>0, <1>2, <2>5, <2>6 DEF CountsOK, ByteTotals
  <2> QED  BY <1>1, <1>2, <2>2, <2>3, <2>4, <2>7 DEF Base
<1>5. CASE ~On("send", "entry")
  <2>1. UNCHANGED <<tx_bytes, sent, perfVars>>
    BY <1>5 DEF Send
  <2>2. CountsOK'
    BY <1>0, <1>2, <2>1 DEF CountsOK, ByteTotals
  <2> QED  BY <1>0, <1>1, <1>2, <2>1, <2>2, OthersKeep DEF Base
<1> QED  BY <1>4, <1>5

(* Every step is one of these.                                             *)
LEMMA StepKinds ==
  ASSUME [Next]_vars
  PROVE  \/ Quiet
         \/ \E th \in Threads :
              \/ ConnectReturn(th)
              \/ \E s \in Socks : AcceptReturn(th, s)
              \/ \E size \in 0 .. MaxBytes : RecvReturn(th, size)
              \/ \E s \in Socks, size \in 0 .. MaxBytes : Send(th, s, size)
BY DEF Next, Quiet

(* The types, and that every event is raised for the call it reads.        *)
THEOREM BaseHolds == Spec => [](Base /\ EventNamesItsCall)
<1>1. Init => Base /\ EventNamesItsCall
  <2> SUFFICES ASSUME Init PROVE Base /\ EventNamesItsCall
      OBVIOUS
  <2>1. CallsOK
    <3>1. /\ attached = 0 /\ ops = <<>> /\ hooked = {} /\ made = {}
          /\ op = [th \in Threads |-> 0] /\ store = [th \in Threads |-> 0]
      BY DEF Init
    <3>2. MaxOps \in Nat /\ ops \in Seq(Call) /\ Len(ops) = 0 /\ DOMAIN ops = {}
      BY <3>1, NetworkMonitorAssumption
    <3> QED  BY <3>1, <3>2 DEF CallsOK, Probes
  <2>2. CountsOK
    BY FS_EmptySet, NetworkMonitorAssumption DEF Init, CountsOK, ByteTotals
  <2>3. PerfTypeOK(Event) /\ Submitted = {}
    BY PerfBufferAssumption DEF Init, PerfInit, PerfTypeOK, Submitted, InRings, ToSet
  <2> QED  BY <2>1, <2>2, <2>3 DEF Base, EventNamesItsCall
<1>2. Base /\ EventNamesItsCall /\ [Next]_vars => (Base /\ EventNamesItsCall)'
  <2> SUFFICES ASSUME Base, EventNamesItsCall, [Next]_vars
               PROVE  Base' /\ EventNamesItsCall'
      OBVIOUS
  <2>1. CASE Quiet
    BY <2>1, QuietKeepsBase DEF EventNamesItsCall
  <2>2. ASSUME NEW th \in Threads, ConnectReturn(th)
        PROVE  Base' /\ EventNamesItsCall'
    BY <2>2, ConnectReturnIs DEF EventNamesItsCall
  <2>3. ASSUME NEW th \in Threads, NEW s \in Socks, AcceptReturn(th, s)
        PROVE  Base' /\ EventNamesItsCall'
    BY <2>3, AcceptReturnIs DEF EventNamesItsCall
  <2>4. ASSUME NEW th \in Threads, NEW size \in 0 .. MaxBytes, RecvReturn(th, size)
        PROVE  Base' /\ EventNamesItsCall'
    BY <2>4, RecvReturnIs DEF EventNamesItsCall
  <2>5. ASSUME NEW th \in Threads, NEW s \in Socks, NEW size \in 0 .. MaxBytes,
               Send(th, s, size)
        PROVE  Base' /\ EventNamesItsCall'
    BY <2>5, SendIs DEF EventNamesItsCall
  <2> QED  BY <2>1, <2>2, <2>3, <2>4, <2>5, StepKinds
<1> QED  BY <1>1, <1>2, PTL DEF Spec

(* Type correctness of the network monitor.                                *)
THEOREM TypeCorrect == Spec => []TypeOK
<1>1. Base => TypeOK
  <2> SUFFICES ASSUME Base PROVE TypeOK
      OBVIOUS
  <2>1. /\ ops \in Seq(Call) /\ Len(ops) <= MaxOps /\ MaxOps \in Nat
        /\ \A th \in Threads : /\ op[th] \in Nat /\ store[th] \in Nat
                               /\ op[th] <= Len(ops) /\ store[th] <= Len(ops)
    BY NetworkMonitorAssumption DEF Base, CallsOK
  <2>2. \A th \in Threads : op[th] \in 0 .. MaxOps /\ store[th] \in 0 .. MaxOps
    BY <2>1
  <2>3. op \in [Threads -> 0 .. MaxOps] /\ store \in [Threads -> 0 .. MaxOps]
    BY <2>2 DEF Base, CallsOK
  <2>4. made \subseteq 1 .. MaxOps
    BY <2>1 DEF Base, CallsOK
  <2> QED  BY <2>3, <2>4 DEF Base, CallsOK, CountsOK, ByteTotals, TypeOK
<1> QED  BY <1>1, BaseHolds, PTL

(* An event reports the call that raised it, although connect and recv     *)
(* leave entries behind in the hash they share.                            *)
THEOREM EventsNameTheirCall == Spec => []EventNamesItsCall
BY BaseHolds, PTL

-----------------------------------------------------------------------------
(* A followed connect has its entry until it returns, and a followed call  *)
(* that made a connection has its event.                                   *)
Promised ==
  /\ \A th \in hooked : ops[op[th]].function = "connect" => store[th] # 0
  /\ \A n \in made : ops[n].followed => \E e \in Submitted : e.op = n

(* With an entry for every thread there is always one for a call.          *)
LEMMA RoomForAll ==
  ASSUME Cardinality(Threads) <= StoreSize, NEW th \in Threads, store[th] = 0
  PROVE  StoreHasRoom
<1> DEFINE Used == {o \in Threads : store[o] # 0}
<1>1. IsFiniteSet(Threads \ {th}) /\ Cardinality(Threads \ {th}) = Cardinality(Threads) - 1
  BY NetworkMonitorAssumption, FS_RemoveElement, Zenon
<1>2. Used \subseteq Threads \ {th}
  OBVIOUS
<1>3. Cardinality(Used) <= Cardinality(Threads \ {th}) /\ IsFiniteSet(Used)
  BY <1>1, <1>2, FS_Subset, Zenon
<1>4. Cardinality(Threads) \in Nat /\ Cardinality(Used) \in Nat
  BY <1>3, NetworkMonitorAssumption, FS_CardinalityType
<1>5. Cardinality(Used) < StoreSize
  BY <1>1, <1>3, <1>4, NetworkMonitorAssumption
<1> QED  BY <1>5 DEF StoreHasRoom

(* The history only grows.                                                 *)
LEMMA HistoryGrows ==
  ASSUME Base, [Next]_vars
  PROVE  \A n \in DOMAIN ops : ops'[n] = ops[n]
<1>0. CallsOK /\ CountsOK /\ ops \in Seq(Call)
  BY DEF Base, CallsOK
<1>1. ASSUME NEW th \in Threads, NEW function, NEW s, Begin(th, function, s)
      PROVE  \A n \in DOMAIN ops : ops'[n] = ops[n]
  <2>1. ops' = Append(ops, [function |-> function, pid |-> ProcOf[th], sock |-> s,
                            followed |-> Follows(function)])
    BY <1>1 DEF Begin, NewCall
  <2> QED  BY <1>0, <2>1
<1>2. ASSUME NEW th \in Threads, NEW s \in Socks, NEW size \in 0 .. MaxBytes,
             Send(th, s, size)
      PROVE  \A n \in DOMAIN ops : ops'[n] = ops[n]
  BY <1>0, <1>2, SendKeepsCalls
<1>3. ASSUME NEW th \in Threads, NEW function, End(th, function)
      PROVE  \A n \in DOMAIN ops : ops'[n] = ops[n]
  BY <1>3 DEF End
<1> QED  BY <1>1, <1>2, <1>3
         DEF Next, Attach, OpenBuffer, Poll, Close, vars, netVars, Connect, Recv, Accept,
             ConnectReturn, AcceptReturn, Fail, RecvReturn

(* Every connection whose call a kretprobe follows has its event.          *)
THEOREM FollowedCallsAreReported == Spec => []FollowedIsReported
<1> DEFINE Room == StoreSize >= Cardinality(Threads)
<1>1. Init => (Room => Promised)
  BY DEF Init, Promised
<1>2. Base /\ (Room => Promised) /\ [Next]_vars => (Room => Promised)'
  <2> SUFFICES ASSUME Base, Room, Promised, [Next]_vars PROVE Promised'
      OBVIOUS
  <2>11. Cardinality(Threads) <= StoreSize
    BY NetworkMonitorAssumption, FS_CardinalityType
  <2>0. CallsOK /\ made \subseteq DOMAIN ops /\ \A th \in Threads : store[th] \in Nat
    BY DEF Base, CallsOK
  <2>1. \A n \in DOMAIN ops : ops'[n] = ops[n]
    BY HistoryGrows
  <2>2. \A th \in hooked : op[th] \in DOMAIN ops
    BY <2>0 DEF CallsOK
  (* The calls of the other threads stay as they are.                      *)
  <2>3. ASSUME NEW th \in Threads, th \notin hooked',
               \A o \in hooked' : o \in hooked /\ op'[o] = op[o] /\ store'[o] = store[o]
        PROVE  \A o \in hooked' : ops'[op'[o]].function = "connect" => store'[o] # 0
    BY <2>1, <2>2, <2>3 DEF Promised
  <2>4. Submitted' = Submitted /\ made' = made =>
          \A n \in made' : ops'[n].followed => \E e \in Submitted' : e.op = n
    BY <2>0, <2>1 DEF Promised
  <2>5. CASE Quiet
    <3>1. Submitted' = Submitted
      BY <2>5, QuietKeepsBase
    <3>2. made' = made
      BY <2>5 DEF Quiet, Attach, OpenBuffer, Poll, Close, vars, netVars, Connect, Recv,
                  Accept, Fail, Begin
    <3>3. \A o \in hooked' : ops'[op'[o]].function = "connect" => store'[o] # 0
      <4>1. CASE UNCHANGED <<op, store, hooked>>
        BY <2>1, <2>2, <4>1 DEF Promised
      <4>2. ASSUME NEW th \in Threads, NEW function \in {"connect", "accept", "recv"},
                   NEW s \in Socks \union {NoSock}, function = "connect" => s \in Socks,
                   Begin(th, function, s),
                   IF function = "accept" THEN UNCHANGED store ELSE StoreSock(th, function)
            PROVE  \A o \in hooked' : ops'[op'[o]].function = "connect" => store'[o] # 0
        <5>0. Follows(function) \in BOOLEAN
          BY DEF Follows
        <5>1. /\ op' = [op EXCEPT ![th] = Len(ops) + 1] /\ Len(ops) \in Nat
              /\ ops'[Len(ops) + 1].function = function /\ op[th] = 0
              /\ hooked' = IF Follows(function) THEN hooked \union {th} ELSE hooked
          BY <2>0, <4>2, <5>0, NewCallIs DEF Begin
        <5>2. th \notin hooked
          BY <2>0, <5>1 DEF CallsOK
        <5>3. \A o \in Threads \ {th} : op'[o] = op[o] /\ store'[o] = store[o]
          BY <2>0, <4>2, <5>1 DEF StoreSock, CallsOK
        <5>4. Follows(function) /\ function = "connect" => store'[th] # 0
          <6> SUFFICES ASSUME Follows(function), function = "connect"
                       PROVE  store'[th] # 0
              OBVIOUS
          <6>1. On(function, "entry")
            BY <2>0, EntryFirst DEF Follows, Sharing
          <6>2. store[th] # 0 \/ StoreHasRoom
            BY <2>11, RoomForAll
          <6>3. store' = [store EXCEPT ![th] = Len(ops) + 1]
            BY <4>2, <6>1, <6>2 DEF StoreSock
          <6> QED  BY <2>0, <5>1, <6>3 DEF CallsOK
        <5>5. op'[th] = Len(ops) + 1
          BY <2>0, <5>1 DEF CallsOK
        <5> SUFFICES ASSUME NEW o \in hooked', ops'[op'[o]].function = "connect"
                     PROVE  store'[o] # 0
            OBVIOUS
        <5>6. CASE o = th
          BY <5>1, <5>2, <5>4, <5>5, <5>6
        <5>7. CASE o # th
          <6>1. o \in hooked /\ o \in Threads
            BY <2>0, <5>1, <5>7 DEF CallsOK
          <6>2. op'[o] = op[o] /\ store'[o] = store[o] /\ ops'[op[o]] = ops[op[o]]
            BY <2>1, <2>2, <5>3, <5>7, <6>1
          <6> QED  BY <6>1, <6>2 DEF Promised
        <5> QED  BY <5>6, <5>7
      <4>3. ASSUME NEW th \in Threads, Fail(th)
            PROVE  \A o \in hooked' : ops'[op'[o]].function = "connect" => store'[o] # 0
        <5>1. hooked' = hooked \ {th} /\ op' = [op EXCEPT ![th] = 0] /\ store' = store
          BY <4>3 DEF Fail, End
        <5>2. \A o \in hooked' : o \in hooked /\ op'[o] = op[o] /\ store'[o] = store[o]
          BY <2>0, <5>1 DEF CallsOK
        <5> QED  BY <2>3, <5>1, <5>2
      <4> QED  BY <2>5, <4>1, <4>2, <4>3
               DEF Quiet, Attach, OpenBuffer, Poll, Close, vars, netVars, Connect, Recv,
                   Accept
    <3> QED  BY <2>4, <3>1, <3>2, <3>3 DEF Promised
  (* A call that ends leaves nothing that is promised for it.              *)
  <2>6. ASSUME NEW th \in Threads, NEW function, End(th, function),
               store' = store \/ store' = [store EXCEPT ![th] = 0]
        PROVE  \A o \in hooked' : ops'[op'[o]].function = "connect" => store'[o] # 0
    <3>1. hooked' = hooked \ {th} /\ op' = [op EXCEPT ![th] = 0]
      BY <2>6 DEF End
    <3>2. \A o \in hooked' : o \in hooked /\ op'[o] = op[o] /\ store'[o] = store[o]
      BY <2>0, <2>6, <3>1 DEF CallsOK
    <3> QED  BY <2>3, <3>1, <3>2
  <2>7. ASSUME NEW th \in Threads, ConnectReturn(th)
        PROVE  Promised'
    <3>1. /\ op[th] \in DOMAIN ops /\ made' = made \union {op[th]}
          /\ IF th \in hooked /\ store[th] # 0
             THEN \E e \in Event : e.op = op[th] /\ Submitted' = Submitted \union {e}
             ELSE Submitted' = Submitted
      BY <2>7, ConnectReturnIs
    <3>2. End(th, "connect") /\ (store' = store \/ store' = [store EXCEPT ![th] = 0])
      BY <2>7 DEF ConnectReturn
    <3>3. ops[op[th]].followed => th \in hooked /\ store[th] # 0
      BY <2>0, <3>2 DEF CallsOK, End, Inside, Promised
    <3>4. \A n \in made' : ops'[n].followed => \E e \in Submitted' : e.op = n
      BY <2>0, <2>1, <3>1, <3>3 DEF Promised
    <3> QED  BY <2>6, <3>2, <3>4 DEF Promised
  <2>8. ASSUME NEW th \in Threads, NEW s \in Socks, AcceptReturn(th, s)
        PROVE  Promised'
    <3>1. /\ op[th] \in DOMAIN ops /\ made' = made \union {op[th]}
          /\ IF th \in hooked
             THEN \E e \in Event : e.op = op[th] /\ Submitted' = Submitted \union {e}
             ELSE Submitted' = Submitted
      BY <2>8, AcceptReturnIs
    <3>2. End(th, "accept") /\ store' = store
      BY <2>8 DEF AcceptReturn
    <3>3. ops[op[th]].followed => th \in hooked
      BY <2>0, <3>2 DEF CallsOK, End, Inside
    <3>4. \A n \in made' : ops'[n].followed => \E e \in Submitted' : e.op = n
      BY <2>0, <2>1, <3>1, <3>3 DEF Promised
    <3> QED  BY <2>6, <3>2, <3>4 DEF Promised
  <2>9. ASSUME NEW th \in Threads, NEW size \in 0 .. MaxBytes, RecvReturn(th, size)
        PROVE  Promised'
    <3>1. made' = made /\ Submitted \subseteq Submitted'
      BY <2>9, RecvReturnIs
    <3>2. End(th, "recv") /\ (store' = store \/ store' = [store EXCEPT ![th] = 0])
      BY <2>9 DEF RecvReturn
    <3>3. \A n \in made' : ops'[n].followed => \E e \in Submitted' : e.op = n
      BY <2>0, <2>1, <3>1 DEF Promised
    <3> QED  BY <2>6, <3>2, <3>3 DEF Promised
  <2>10. ASSUME NEW th \in Threads, NEW s \in Socks, NEW size \in 0 .. MaxBytes,
                Send(th, s, size)
         PROVE  Promised'
    <3>1. made' = made /\ Submitted \subseteq Submitted'
      BY <2>10, SendIs
    <3>2. UNCHANGED <<op, store, hooked>>
      BY <2>10 DEF Send
    <3>3. \A n \in made' : ops'[n].followed => \E e \in Submitted' : e.op = n
      BY <2>0, <2>1, <3>1 DEF Promised
    <3>4. \A o \in hooked' : ops'[op'[o]].function = "connect" => store'[o] # 0
      BY <2>1, <2>2, <3>2 DEF Promised
    <3> QED  BY <3>3, <3>4 DEF Promised
  <2> QED  BY <2>5, <2>7, <2>8, <2>9, <2>10, StepKinds
<1>3. (Room => Promised) => FollowedIsReported
  BY DEF Promised, FollowedIsReported, AllAreReported
<1> QED  BY <1>1, <1>2, <1>3, BaseHolds, PTL DEF Spec

-----------------------------------------------------------------------------
(* The totals.  A process whose first bytes found the hash full has no     *)
(* entry, and never gets one: entries are not deleted.  One that has an    *)
(* entry, or has sent nothing, has every event counted.                    *)
Of(p, type) == {e \in Submitted : e.pid = p /\ e.type = type}

Full(bytes) == ~(Cardinality(DOMAIN bytes) < BytesSize)

SubmittedOK ==
  /\ Counts(Submitted)
  /\ \A e \in Submitted : e.type = "SEND" => e.op <= Len(ops)

SentOK ==
  \A p \in Pids :
    \/ p \notin DOMAIN tx_bytes /\ Full(tx_bytes)
    \/ Value(tx_bytes, p) = Bytes(Of(p, "SEND")) /\ sent[p] <= Value(tx_bytes, p)

ReceivedOK ==
  \A p \in Pids :
    \/ p \notin DOMAIN rx_bytes /\ Full(rx_bytes)
    \/ Bytes(Of(p, "RECV")) <= Value(rx_bytes, p)

(* What becomes of totals to which bytes of a process are added.           *)
Grows(bytes, new, p, size) ==
  /\ \A q \in Pids \ {p} :
       Value(new, q) = Value(bytes, q) /\ (q \in DOMAIN new <=> q \in DOMAIN bytes)
  /\ IF p \notin DOMAIN bytes /\ Full(bytes)
     THEN new = bytes ELSE Value(new, p) = Value(bytes, p) + size
  /\ Full(bytes) => Full(new)

(* Adding to one process keeps the others, and a full hash full.           *)
LEMMA AddedGrows ==
  ASSUME NEW bytes, ByteTotals(bytes), NEW p \in Pids, NEW size \in Nat
  PROVE  Grows(bytes, Added(bytes, p, size), p, size)
<1> DEFINE new == Added(bytes, p, size)
<1>1. CASE BytesHaveRoom(bytes, p)
  <2>1. /\ DOMAIN new = DOMAIN bytes \union {p}
        /\ \A q \in DOMAIN new :
             new[q] = IF q = p THEN Value(bytes, p) + size ELSE bytes[q]
    BY <1>1 DEF Added
  <2> HIDE DEF new
  <2>2. ~(p \notin DOMAIN bytes /\ Full(bytes))
    BY <1>1 DEF BytesHaveRoom, Full
  <2>3. Full(bytes) => Full(new)
    <3>1. ASSUME Full(bytes) PROVE DOMAIN new = DOMAIN bytes
      BY <2>1, <2>2, <3>1
    <3> QED  BY <3>1 DEF Full
  <2>4. Grows(bytes, new, p, size)
    BY <2>1, <2>2, <2>3 DEF Grows, Value
  <2> QED  BY <2>4 DEF new
<1>2. CASE ~BytesHaveRoom(bytes, p)
  <2>1. new = bytes /\ p \notin DOMAIN bytes /\ Full(bytes)
    BY <1>2 DEF Added, BytesHaveRoom, Full
  <2> QED  BY <2>1 DEF Grows
<1> QED  BY <1>1, <1>2

(* An event counts for one process and one function.                       *)
LEMMA EventCounts ==
  ASSUME NEW e \in Event, Submitted' = Submitted \union {e}, Counts(Submitted)
  PROVE  /\ Counts(Submitted') /\ e.bytes \in Nat
         /\ \A p, type : p # e.pid \/ type # e.type => Of(p, type)' = Of(p, type)
         /\ Of(e.pid, e.type)' = Of(e.pid, e.type) \union {e}
         /\ \A p, type : Counts(Of(p, type))
<1>1. e.bytes \in Nat
  BY NetworkMonitorAssumption DEF Event
<1>2. Counts(Submitted')
  BY <1>1, FS_AddElement DEF Counts
<1>3. ASSUME NEW p, NEW type PROVE Counts(Of(p, type))
  <2>1. Of(p, type) \subseteq Submitted
    BY DEF Of
  <2>2. IsFiniteSet(Of(p, type))
    BY <2>1, FS_Subset DEF Counts
  <2> QED  BY <2>1, <2>2 DEF Counts
<1>4. ASSUME NEW p, NEW type, p # e.pid \/ type # e.type
      PROVE  Of(p, type)' = Of(p, type)
  BY <1>4 DEF Of
<1>5. Of(e.pid, e.type)' = Of(e.pid, e.type) \union {e}
  BY DEF Of
<1> QED  BY <1>1, <1>2, <1>3, <1>4, <1>5

(* What is submitted are events.                                           *)
LEMMA SubmittedIsEvent == ASSUME PerfTypeOK(Event) PROVE Submitted \subseteq Event
BY DEF PerfTypeOK, Submitted, InRings, ToSet

(* The history is never cut.                                               *)
LEMMA OpsGrow ==
  ASSUME Base, [Next]_vars
  PROVE  Len(ops) <= Len(ops')
<1>0. ops \in Seq(Call) /\ Len(ops) \in Nat
  BY DEF Base, CallsOK
<1>1. ASSUME NEW th \in Threads, NEW function, NEW s, NEW followed,
             NewCall(th, function, s, followed)
      PROVE  Len(ops) <= Len(ops')
  <2> DEFINE call == [function |-> function, pid |-> ProcOf[th], sock |-> s,
                      followed |-> followed]
  <2>1. ops' = Append(ops, call)
    BY <1>1 DEF NewCall
  <2> HIDE DEF call
  <2>2. Len(ops') = Len(ops) + 1
    BY <1>0, <2>1
  <2> QED  BY <1>0, <2>2
<1>2. CASE UNCHANGED ops
  BY <1>0, <1>2
<1> QED  BY <1>1, <1>2
         DEF Next, Attach, OpenBuffer, Poll, Close, vars, netVars, Connect, Recv, Accept,
             ConnectReturn, AcceptReturn, Fail, RecvReturn, Send, Begin, End

(* The totals stay as they are as long as no send or receive is counted.   *)
LEMMA TotalsKept ==
  ASSUME SubmittedOK, SentOK, ReceivedOK, Base, Base',
         UNCHANGED <<tx_bytes, rx_bytes, sent>>, Len(ops) <= Len(ops'),
         \/ Submitted' = Submitted
         \/ \E e \in Event : e.type \notin {"SEND", "RECV"} /\ Submitted' = Submitted \union {e}
  PROVE  SubmittedOK' /\ SentOK' /\ ReceivedOK'
<1>1. /\ Counts(Submitted')
      /\ \A p : Of(p, "SEND")' = Of(p, "SEND") /\ Of(p, "RECV")' = Of(p, "RECV")
  <2>1. CASE Submitted' = Submitted
    BY <2>1 DEF Of, SubmittedOK
  <2>2. ASSUME NEW e \in Event, e.type \notin {"SEND", "RECV"},
               Submitted' = Submitted \union {e}
        PROVE  /\ Counts(Submitted')
               /\ \A p : Of(p, "SEND")' = Of(p, "SEND") /\ Of(p, "RECV")' = Of(p, "RECV")
    BY <2>2, EventCounts DEF SubmittedOK
  <2> QED  BY <2>1, <2>2
<1>2. \A e \in Submitted' : e.type = "SEND" => e \in Submitted
  OBVIOUS
<1>3. \A e \in Submitted' : e.type = "SEND" => e.op <= Len(ops')
  <2> SUFFICES ASSUME NEW e \in Submitted', e.type = "SEND" PROVE e.op <= Len(ops')
      OBVIOUS
  <2>1. e.op <= Len(ops) /\ e \in Submitted
    BY <1>2 DEF SubmittedOK
  <2>2. e.op \in Nat
    BY <2>1, SubmittedIsEvent DEF Base, Event
  <2>3. Len(ops) \in Nat /\ Len(ops') \in Nat
    BY DEF Base, CallsOK
  <2> QED  BY <2>1, <2>2, <2>3
<1>4. SubmittedOK'
  BY <1>1, <1>3 DEF SubmittedOK
<1>5. SentOK' /\ ReceivedOK'
  BY <1>1 DEF SentOK, ReceivedOK, Full
<1> QED  BY <1>4, <1>5

(* A send that is counted.                                                 *)
LEMMA SendCounts ==
  ASSUME SubmittedOK, SentOK, ReceivedOK, Base, Base', NEW p \in Pids,
         NEW size \in Nat, UNCHANGED rx_bytes, Len(ops') = Len(ops) + 1,
         tx_bytes' = Added(tx_bytes, p, size),
         NEW taken \in 0 .. size, sent' = [sent EXCEPT ![p] = @ + taken],
         NEW e \in Event, e.op = Len(ops) + 1, e.type = "SEND", e.pid = p, e.bytes = size,
         Submitted' = Submitted \union {e}
  PROVE  SubmittedOK' /\ SentOK' /\ ReceivedOK'
<1>0. /\ ByteTotals(tx_bytes) /\ sent \in [Pids -> Nat] /\ Len(ops) \in Nat
      /\ Counts(Submitted)
  BY DEF Base, CountsOK, ByteTotals, CallsOK, SubmittedOK
<1>1. /\ Counts(Submitted') /\ Counts(Of(p, "SEND"))
      /\ Of(p, "SEND")' = Of(p, "SEND") \union {e}
      /\ \A q : Of(q, "RECV")' = Of(q, "RECV")
      /\ \A q : q # p => Of(q, "SEND")' = Of(q, "SEND")
  BY <1>0, EventCounts
<1>2. e \notin Of(p, "SEND")
  <2>1. e \in Submitted => e.op <= Len(ops)
    BY DEF SubmittedOK
  <2> QED  BY <1>0, <2>1 DEF Of
<1>3. /\ Bytes(Of(p, "SEND")) \in Nat
      /\ Bytes(Of(p, "SEND")') = Bytes(Of(p, "SEND")) + size
  BY <1>1, <1>2, BytesAdd
<1>4. /\ Grows(tx_bytes, tx_bytes', p, size)
      /\ (\A q \in Pids \ {p} : sent'[q] = sent[q]) /\ sent'[p] = sent[p] + taken
  BY <1>0, AddedGrows
<1>5. SubmittedOK'
  <2> SUFFICES ASSUME NEW d \in Submitted', d.type = "SEND" PROVE d.op <= Len(ops')
      BY <1>1 DEF SubmittedOK
  <2>1. CASE d = e
    BY <1>0, <2>1
  <2>2. CASE d \in Submitted
    <3>1. d.op <= Len(ops) /\ d.op \in Nat
      BY <2>2, SubmittedIsEvent DEF Base, Event, SubmittedOK
    <3> QED  BY <1>0, <3>1
  <2> QED  BY <2>1, <2>2
<1>6. ASSUME NEW q \in Pids
      PROVE  \/ q \notin DOMAIN tx_bytes' /\ Full(tx_bytes')
             \/ Value(tx_bytes', q) = Bytes(Of(q, "SEND")') /\ sent'[q] <= Value(tx_bytes', q)
  <2>1. \/ q \notin DOMAIN tx_bytes /\ Full(tx_bytes)
        \/ Value(tx_bytes, q) = Bytes(Of(q, "SEND")) /\ sent[q] <= Value(tx_bytes, q)
    BY DEF SentOK
  <2>2. CASE q # p
    BY <1>1, <1>4, <2>1, <2>2 DEF Grows
  <2>3. CASE q = p /\ p \notin DOMAIN tx_bytes /\ Full(tx_bytes)
    BY <1>4, <2>3 DEF Grows
  <2>4. CASE q = p /\ ~(p \notin DOMAIN tx_bytes /\ Full(tx_bytes))
    <3> DEFINE b == Bytes(Of(p, "SEND"))
               t == Value(tx_bytes, p)
               n == sent[p]
    <3>0. t \in Nat
      BY <1>0 DEF ByteTotals, Value
    <3>1. t = b /\ n <= t /\ n \in Nat
      BY <1>0, <2>1, <2>4
    <3>2. /\ Bytes(Of(p, "SEND")') = b + size /\ Value(tx_bytes', p) = t + size
          /\ sent'[p] = n + taken
      BY <1>3, <1>4, <2>4 DEF Grows
    <3> HIDE DEF b, t, n
    <3>3. b + size = t + size /\ n + taken <= t + size
      BY <3>0, <3>1
    <3> QED  BY <2>4, <3>2, <3>3
  <2> QED  BY <2>2, <2>3, <2>4
<1>7. SentOK'
  BY <1>6 DEF SentOK
<1>8. ReceivedOK'
  BY <1>1 DEF ReceivedOK, Full
<1> QED  BY <1>5, <1>7, <1>8

(* Every set of events that is part of what was submitted has its bytes.   *)
LEMMA BytesOf ==
  ASSUME Counts(Submitted), NEW p, NEW type
  PROVE  Bytes(Of(p, type)) \in Nat
<1>1. Of(p, type) \subseteq Submitted
  BY DEF Of
<1>2. Counts(Of(p, type))
  BY <1>1, FS_Subset DEF Counts
<1> HIDE DEF Of
<1>3. PICK f \in [SUBSET Of(p, type) -> Nat] : Bytes(Of(p, type)) = f[Of(p, type)]
  BY <1>2, BytesAre
<1> QED  BY <1>3

(* A receive that is counted, with its event or without.                   *)
LEMMA ReceiveCounts ==
  ASSUME SubmittedOK, SentOK, ReceivedOK, Base, Base', NEW p \in Pids,
         NEW size \in Nat, UNCHANGED <<tx_bytes, sent, ops>>,
         rx_bytes' = Added(rx_bytes, p, size),
         \/ Submitted' = Submitted
         \/ \E e \in Event : /\ e.type = "RECV" /\ e.pid = p /\ e.bytes = size
                             /\ Submitted' = Submitted \union {e}
  PROVE  SubmittedOK' /\ SentOK' /\ ReceivedOK'
<1>0. ByteTotals(rx_bytes) /\ Counts(Submitted)
  BY DEF Base, CountsOK, ByteTotals, SubmittedOK
<1>1. /\ Counts(Submitted') /\ \A q : Of(q, "SEND")' = Of(q, "SEND")
      /\ \A q : q # p => Of(q, "RECV")' = Of(q, "RECV")
      /\ \/ Of(p, "RECV")' = Of(p, "RECV")
         \/ /\ Bytes(Of(p, "RECV")) \in Nat
            /\ Bytes(Of(p, "RECV")') = Bytes(Of(p, "RECV")) + size
  <2>1. CASE Submitted' = Submitted
    BY <1>0, <2>1 DEF Of
  <2>2. CASE Submitted' # Submitted
    <3>1. PICK e \in Event : /\ e.type = "RECV" /\ e.pid = p /\ e.bytes = size
                            /\ Submitted' = Submitted \union {e}
      BY <2>2
    <3>2. /\ Counts(Submitted') /\ Counts(Of(p, "RECV"))
          /\ Of(p, "RECV")' = Of(p, "RECV") \union {e}
          /\ \A q : Of(q, "SEND")' = Of(q, "SEND")
          /\ \A q : q # p => Of(q, "RECV")' = Of(q, "RECV")
      BY <1>0, <3>1, EventCounts
    <3>3. e \notin Of(p, "RECV")
      BY <2>2, <3>1 DEF Of
    <3>4. /\ Bytes(Of(p, "RECV")) \in Nat
          /\ Bytes(Of(p, "RECV")') = Bytes(Of(p, "RECV")) + size
      BY <3>1, <3>2, <3>3, BytesAdd
    <3> QED  BY <3>2, <3>4
  <2> QED  BY <2>1, <2>2
<1>2. Grows(rx_bytes, rx_bytes', p, size)
  BY <1>0, AddedGrows
<1>3. SubmittedOK'
  <2>1. \A e \in Submitted' : e.type = "SEND" => e \in Submitted
    OBVIOUS
  <2> QED  BY <1>1, <2>1 DEF SubmittedOK
<1>4. SentOK'
  BY <1>1 DEF SentOK, Full
<1>5. ASSUME NEW q \in Pids
      PROVE  \/ q \notin DOMAIN rx_bytes' /\ Full(rx_bytes')
             \/ Bytes(Of(q, "RECV")') <= Value(rx_bytes', q)
  <2>1. \/ q \notin DOMAIN rx_bytes /\ Full(rx_bytes)
        \/ Bytes(Of(q, "RECV")) <= Value(rx_bytes, q)
    BY DEF ReceivedOK
  <2>2. CASE q # p
    BY <1>1, <1>2, <2>1, <2>2 DEF Grows
  <2>3. CASE q = p /\ p \notin DOMAIN rx_bytes /\ Full(rx_bytes)
    BY <1>2, <2>3 DEF Grows
  <2>4. CASE q = p /\ ~(p \notin DOMAIN rx_bytes /\ Full(rx_bytes))
    <3> DEFINE b == Bytes(Of(p, "RECV"))
               n == Bytes(Of(p, "RECV")')
               t == Value(rx_bytes, p)
    <3>0. t \in Nat
      BY <1>0 DEF ByteTotals, Value
    <3>1. b <= t /\ (n = b \/ n = b + size) /\ b \in Nat
      BY <1>0, <1>1, <2>1, <2>4, BytesOf
    <3>2. Value(rx_bytes', p) = t + size
      BY <1>2, <2>4 DEF Grows
    <3> HIDE DEF b, n, t
    <3>3. n <= t + size
      BY <3>0, <3>1
    <3> QED  BY <2>4, <3>2, <3>3 DEF n
  <2> QED  BY <2>2, <2>3, <2>4
<1> QED  BY <1>3, <1>4, <1>5 DEF ReceivedOK

(* The totals of a process that has an entry cover its events, and every   *)
(* byte that the stack took from a send the probe saw.                     *)
THEOREM TotalsAreCovering == Spec => []TotalsCoverEvents
<1> DEFINE Totals == SubmittedOK /\ SentOK /\ ReceivedOK
<1>1. Init => Totals
  <2> SUFFICES ASSUME Init PROVE Totals
      OBVIOUS
  <2>1. Submitted = {}
    BY DEF Init, PerfInit, Submitted, InRings, ToSet
  <2>2. Counts({}) /\ \A p, type : Of(p, type) = {}
    BY <2>1, FS_EmptySet DEF Counts, Of
  <2>3. \A p \in Pids : Value(tx_bytes, p) = 0 /\ Value(rx_bytes, p) = 0 /\ sent[p] = 0
    BY DEF Init, Value
  <2>4. SubmittedOK
    BY <2>1, <2>2 DEF SubmittedOK
  <2> QED  BY <2>2, <2>3, <2>4, NoBytes DEF SentOK, ReceivedOK
<1>2. Base /\ Base' /\ Totals /\ [Next]_vars => Totals'
  <2> SUFFICES ASSUME Base, Base', Totals, [Next]_vars PROVE Totals'
      OBVIOUS
  <2>1. CASE Quiet
    <3>1. UNCHANGED <<tx_bytes, rx_bytes, sent>>
      BY <2>1 DEF Quiet, Attach, OpenBuffer, Poll, Close, vars, netVars, Connect, Recv,
                  Accept, Fail, Begin
    <3>2. Submitted' = Submitted
      BY <2>1, QuietKeepsBase
    <3> QED  BY <3>1, <3>2, OpsGrow, TotalsKept
  <2>2. ASSUME NEW th \in Threads, ConnectReturn(th) PROVE Totals'
    <3>1. /\ UNCHANGED <<tx_bytes, rx_bytes, sent>>
          /\ \/ Submitted' = Submitted
             \/ \E e \in Event : e.type \notin {"SEND", "RECV"}
                                 /\ Submitted' = Submitted \union {e}
      BY <2>2, ConnectReturnIs
    <3> QED  BY <3>1, OpsGrow, TotalsKept
  <2>3. ASSUME NEW th \in Threads, NEW s \in Socks, AcceptReturn(th, s) PROVE Totals'
    <3>1. /\ UNCHANGED <<tx_bytes, rx_bytes, sent>>
          /\ \/ Submitted' = Submitted
             \/ \E e \in Event : e.type \notin {"SEND", "RECV"}
                                 /\ Submitted' = Submitted \union {e}
      BY <2>3, AcceptReturnIs
    <3> QED  BY <3>1, OpsGrow, TotalsKept
  <2>4. ASSUME NEW th \in Threads, NEW size \in 0 .. MaxBytes, RecvReturn(th, size)
        PROVE  Totals'
    <3>0. size \in Nat /\ ProcOf[th] \in Pids
      BY NetworkMonitorAssumption
    <3>1. CASE Submitted' = Submitted /\ rx_bytes' = rx_bytes
      BY <2>4, <3>1, OpsGrow, RecvReturnIs, TotalsKept
    <3>2. CASE ~(Submitted' = Submitted /\ rx_bytes' = rx_bytes)
      <4>1. /\ UNCHANGED <<tx_bytes, sent, ops>> /\ size # 0
            /\ rx_bytes' = Added(rx_bytes, ProcOf[th], size)
            /\ \/ Submitted' = Submitted
               \/ \E e \in Event : /\ e.type = "RECV" /\ e.pid = ProcOf[th] /\ e.bytes = size
                                   /\ Submitted' = Submitted \union {e}
        BY <2>4, <3>2, RecvReturnIs
      <4> QED  BY <3>0, <4>1, ReceiveCounts
    <3> QED  BY <3>1, <3>2
  <2>5. ASSUME NEW th \in Threads, NEW s \in Socks, NEW size \in 0 .. MaxBytes,
               Send(th, s, size)
        PROVE  Totals'
    <3>0. size \in Nat /\ ProcOf[th] \in Pids
      BY NetworkMonitorAssumption
    <3>1. CASE Submitted' = Submitted /\ UNCHANGED <<tx_bytes, sent>>
      BY <2>5, <3>1, OpsGrow, SendIs, TotalsKept
    <3>2. CASE ~(Submitted' = Submitted /\ UNCHANGED <<tx_bytes, sent>>)
      <4>1. /\ UNCHANGED rx_bytes /\ Len(ops') = Len(ops) + 1
            /\ tx_bytes' = Added(tx_bytes, ProcOf[th], size)
        BY <2>5, <3>2, SendIs
      <4>2. PICK taken \in 0 .. size : sent' = [sent EXCEPT ![ProcOf[th]] = @ + taken]
        BY <2>5, <3>2, SendIs
      <4>3. PICK e \in Event : /\ e.op = Len(ops) + 1 /\ e.type = "SEND"
                              /\ e.pid = ProcOf[th] /\ e.bytes = size
                              /\ Submitted' = Submitted \union {e}
        BY <2>5, <3>2, SendIs
      <4> QED  BY <3>0, <4>1, <4>2, <4>3, SendCounts
    <3> QED  BY <3>1, <3>2
  <2> QED  BY <2>1, <2>2, <2>3, <2>4, <2>5, StepKinds
<1>3. Base /\ Totals => TotalsCoverEvents
  <2> SUFFICES ASSUME Base, Totals, NEW p \in Pids
               PROVE  /\ p \in DOMAIN tx_bytes => /\ tx_bytes[p] = EventBytes(p, "SEND")
                                                  /\ tx_bytes[p] >= sent[p]
                      /\ p \in DOMAIN rx_bytes => rx_bytes[p] >= EventBytes(p, "RECV")
      BY DEF TotalsCoverEvents
  <2>1. \A type : EventBytes(p, type) = Bytes(Of(p, type))
    BY DEF EventBytes, Bytes, Of
  <2>2. \A x, y : x <= y <=> y >= x
    OBVIOUS
  <2> QED  BY <2>1, <2>2 DEF SentOK, ReceivedOK, Value
<1> HIDE DEF Totals
<1> QED  BY <1>1, <1>2, <1>3, BaseHolds, PTL DEF Spec
=============================================================================
