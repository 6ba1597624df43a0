--------------------------- MODULE SyscallTracerProofs ---------------------------
(***************************************************************************)
(* The invariants of SyscallTracer for any processes, threads and sizes of *)
(* the hashes.                                                             *)
(***************************************************************************)
EXTENDS SyscallTracer, FiniteSetTheorems, WellFoundedInduction, TLAPS

(* The calls that have an entry probe and an exit probe.                   *)
TwoProbes == {"openat", "execve"}

(* Who is inside a call is alive, and was where the history says.          *)
OpsOK ==
  /\ attached \in 0 .. Len(Probes) /\ alive \subseteq Ids
  /\ ops \in Seq(Call) /\ Len(ops) <= MaxOps /\ op \in [Ids -> Nat]
  /\ \A n \in DOMAIN ops : ops[n].probes <= attached
  /\ \A id \in Ids : op[id] # 0 =>
       /\ id \in alive /\ op[id] \in DOMAIN ops
       /\ ops[op[id]].id = id /\ ops[op[id]].call \in TwoProbes

(* What infotbl holds for an id was stored by a call of that id; while the *)
(* id is inside a call it is that call's, or one that nobody traces.       *)
TableOK ==
  /\ DOMAIN infotbl \subseteq Ids /\ Cardinality(DOMAIN infotbl) <= InfoSize
  /\ \A id \in DOMAIN infotbl :
       LET n == infotbl[id]
       IN /\ n \in DOMAIN ops /\ ops[n].id = id /\ ops[n].call \in TwoProbes
          /\ ops[n].probes >= Index(EnterProbe(ops[n].call))
          /\ op[id] # 0 => n = op[id] \/ ~Traced(n)

SumsOK ==
  /\ Hash(read_bytes, Pids, Nat) /\ Cardinality(DOMAIN read_bytes) <= BytesSize
  /\ Hash(write_bytes, Pids, Nat) /\ Cardinality(DOMAIN write_bytes) <= BytesSize

EventsOK ==
  /\ events \subseteq Event
  /\ \A e \in events : e.op \in DOMAIN ops /\ e.from \in DOMAIN ops

Inv ==
  /\ OpsOK /\ TableOK /\ SumsOK /\ EventsOK
  /\ EventNamesItsCall /\ LeftoversExplained

-----------------------------------------------------------------------------
(* The entry probe of a call is attached before its exit probe.            *)
LEMMA Order ==
  /\ Index("enter_openat") = 1 /\ Index("exit_openat") = 2
  /\ Index("enter_execve") = 3 /\ Index("exit_execve") = 4
  /\ Len(Probes) = 6
<1>1. /\ Len(Probes) = 6 /\ Probes[1] = "enter_openat" /\ Probes[2] = "exit_openat"
      /\ Probes[3] = "enter_execve" /\ Probes[4] = "exit_execve"
      /\ \A i \in 1 .. 6 : /\ Probes[i] = "enter_openat" => i = 1
                           /\ Probes[i] = "exit_openat" => i = 2
                           /\ Probes[i] = "enter_execve" => i = 3
                           /\ Probes[i] = "exit_execve" => i = 4
  BY DEF Probes
<1>2. ASSUME NEW probe, NEW i \in 1 .. 6, Probes[i] = probe,
             \A j \in 1 .. 6 : Probes[j] = probe => j = i
      PROVE  Index(probe) = i
  BY <1>1, <1>2 DEF Index
<1> QED  BY <1>1, <1>2

(* How many probes a call found is a number.                               *)
LEMMA ProbesAre ==
  ASSUME OpsOK
  PROVE  /\ attached \in Nat /\ attached <= 6
         /\ \A n \in DOMAIN ops : ops[n].probes \in Nat /\ ops[n].probes <= attached
<1>1. attached \in 0 .. Len(Probes) /\ Len(Probes) = 6
  BY Order DEF OpsOK
<1>2. \A n \in DOMAIN ops : ops[n] \in Call
  BY DEF OpsOK
<1>3. \A n \in DOMAIN ops : ops[n].probes \in 0 .. Len(Probes)
  BY <1>2 DEF Call
<1> HIDE DEF Probes
<1>4. \A n \in DOMAIN ops : ops[n].probes <= attached
  BY DEF OpsOK
<1> QED  BY <1>1, <1>3, <1>4

(* What a step keeps of the calls that were made.                          *)
Kept ==
  /\ DOMAIN ops \subseteq DOMAIN ops'
  /\ \A n \in DOMAIN ops : /\ ops'[n].call = ops[n].call /\ ops'[n].id = ops[n].id
                           /\ ops'[n].probes = ops[n].probes

(* A step that keeps the calls keeps which of them are traced.             *)
LEMMA KeptTraced ==
  ASSUME Kept, NEW n \in DOMAIN ops
  PROVE  Traced(n)' <=> Traced(n)
BY DEF Kept, Traced

(* A call made while its exit probe was not attached is not traced.        *)
LEMMA UnseenIsUntraced ==
  ASSUME OpsOK, NEW n \in DOMAIN ops, ~On(ExitProbe(ops[n].call))
  PROVE  ~Traced(n)
<1>1. attached \in Nat /\ ops[n].probes <= attached /\ ops[n].probes \in Nat
  BY ProbesAre
<1>2. Index(ExitProbe(ops[n].call)) \in Nat
  BY Order DEF ExitProbe
<1> QED  BY <1>1, <1>2 DEF Traced, On

(* What a sequence is when something came in at its end.                   *)
LEMMA AppendIs ==
  ASSUME NEW S, NEW seq \in Seq(S), NEW x \in S
  PROVE  /\ Append(seq, x) \in Seq(S) /\ Len(Append(seq, x)) = Len(seq) + 1
         /\ Len(seq) \in Nat /\ DOMAIN seq = 1 .. Len(seq)
         /\ DOMAIN Append(seq, x) = DOMAIN seq \union {Len(seq) + 1}
         /\ Append(seq, x)[Len(seq) + 1] = x
         /\ \A n \in DOMAIN seq : Append(seq, x)[n] = seq[n]
OBVIOUS

(* What a sequence is when one of its elements was replaced.               *)
LEMMA ReplacedIs ==
  ASSUME NEW S, NEW seq \in Seq(S), NEW n \in DOMAIN seq, NEW x \in S
  PROVE  /\ [seq EXCEPT ![n] = x] \in Seq(S)
         /\ Len([seq EXCEPT ![n] = x]) = Len(seq)
         /\ DOMAIN [seq EXCEPT ![n] = x] = DOMAIN seq
         /\ [seq EXCEPT ![n] = x][n] = x
         /\ \A m \in DOMAIN seq : m # n => [seq EXCEPT ![n] = x][m] = seq[m]
OBVIOUS

(* A call that begins, and what it leaves of the history.                  *)
LEMMA BegunIs ==
  ASSUME OpsOK, Len(ops) < MaxOps, NEW new \in Call, ops' = Append(ops, new)
  PROVE  /\ ops' \in Seq(Call) /\ Len(ops') <= MaxOps /\ Kept
         /\ Len(ops) \in Nat /\ DOMAIN ops = 1 .. Len(ops)
         /\ DOMAIN ops' = DOMAIN ops \union {Len(ops) + 1}
         /\ \A n \in DOMAIN ops : ops'[n] = ops[n]
         /\ ops'[Len(ops) + 1] = new /\ Len(ops) + 1 \in 1 .. MaxOps
<1>1. ops \in Seq(Call) /\ MaxOps \in Nat
  BY SyscallTracerAssumption DEF OpsOK
<1>2. /\ ops' \in Seq(Call) /\ Len(ops') = Len(ops) + 1 /\ Len(ops) \in Nat
      /\ DOMAIN ops = 1 .. Len(ops) /\ DOMAIN ops' = DOMAIN ops \union {Len(ops) + 1}
      /\ ops'[Len(ops) + 1] = new /\ \A n \in DOMAIN ops : ops'[n] = ops[n]
  BY <1>1, AppendIs
<1>3. Len(ops) + 1 \in 1 .. MaxOps /\ Len(ops) + 1 <= MaxOps
  BY <1>1, <1>2
<1>4. Kept
  BY <1>2 DEF Kept
<1> QED  BY <1>2, <1>3, <1>4

(* An update: the entry is there, or the hash is full and stays as it is.  *)
LEMMA PutFits ==
  ASSUME NEW Keys, IsFiniteSet(Keys), NEW size \in Nat, NEW map, NEW x \in Keys, NEW value,
         DOMAIN map \subseteq Keys, Cardinality(DOMAIN map) <= size,
         NEW new, new = Put(map, x, value, size)
  PROVE  /\ DOMAIN new \subseteq Keys /\ Cardinality(DOMAIN new) <= size
         /\ \A y \in DOMAIN new :
              \/ y \in DOMAIN map /\ new[y] = map[y] /\ y # x
              \/ y = x /\ new[y] = value
         /\ Has(map, x, size) => x \in DOMAIN new
<1>1. CASE ~Has(map, x, size)
  <2>1. new = map /\ x \notin DOMAIN map
    BY <1>1 DEF Put, Has
  <2> QED  BY <1>1, <2>1
<1>2. CASE Has(map, x, size)
  <2>1. new = [y \in DOMAIN map \union {x} |-> IF y = x THEN value ELSE map[y]]
    BY <1>2 DEF Put
  <2>2. DOMAIN new = DOMAIN map \union {x}
    BY <2>1
  <2>3. IsFiniteSet(DOMAIN map)
    BY FS_Subset
  <2>4. Cardinality(DOMAIN new) <= size
    <3>1. CASE x \in DOMAIN map
      <4>1. DOMAIN new = DOMAIN map
        BY <2>2, <3>1
      <4> QED  BY <4>1
    <3>2. CASE x \notin DOMAIN map
      <4>1. Cardinality(DOMAIN new) = Cardinality(DOMAIN map) + 1
        BY <2>2, <2>3, <3>2, FS_AddElement
      <4>2. Cardinality(DOMAIN map) < size /\ Cardinality(DOMAIN map) \in Nat
        BY <1>2, <2>3, <3>2, FS_CardinalityType DEF Has
      <4> QED  BY <4>1, <4>2
    <3> QED  BY <3>1, <3>2
  <2> QED  BY <2>1, <2>2, <2>4
<1> QED  BY <1>1, <1>2

-----------------------------------------------------------------------------
(* Steps that leave the calls, the table and the events as they are.       *)
LEMMA AsidesKeep ==
  ASSUME Inv, UNCHANGED <<ops, op, infotbl, sums, events>>,
         attached' \in 0 .. Len(Probes), attached' >= attached,
         alive' \subseteq Ids, \A id \in Ids : op[id] # 0 => id \in alive'
  PROVE  Inv'
<1>1. \A n \in DOMAIN ops : ops[n].probes <= attached'
  <2>1. attached' \in Nat
    BY Order
  <2> QED  BY <2>1, ProbesAre DEF Inv
<1>2. OpsOK'
  BY <1>1 DEF Inv, OpsOK
<1>3. TableOK' /\ SumsOK' /\ EventsOK'
  BY DEF Inv, TableOK, SumsOK, EventsOK, sums, Hash, Traced
<1>4. EventNamesItsCall' /\ LeftoversExplained'
  BY DEF Inv, EventNamesItsCall, LeftoversExplained, Traced
<1> QED  BY <1>2, <1>3, <1>4 DEF Inv

(* A call is entered: where its probe is attached the entry is new, and    *)
(* where it is not, no execve can have left one.                           *)
LEMMA EnterKeeps ==
  ASSUME Inv, NEW id \in Ids, NEW call \in TwoProbes, Enter(id, call)
  PROVE  Inv'
<1> DEFINE n == Len(ops) + 1
<1>0. OpsOK /\ TableOK /\ SumsOK /\ EventsOK /\ EventNamesItsCall /\ LeftoversExplained
  BY DEF Inv
<1>1. /\ id \in alive /\ op[id] = 0 /\ Len(ops) < MaxOps
      /\ ops' = Append(ops, [call |-> call, id |-> id, probes |-> attached, end |-> ""])
      /\ op' = [op EXCEPT ![id] = n] /\ UNCHANGED <<attached, alive, sums, events>>
  BY DEF Enter, Begun
<1>2. /\ ops' \in Seq(Call) /\ Len(ops') <= MaxOps /\ Kept
      /\ Len(ops) \in Nat /\ DOMAIN ops = 1 .. Len(ops)
      /\ DOMAIN ops' = DOMAIN ops \union {n}
      /\ \A m \in DOMAIN ops : ops'[m] = ops[m]
      /\ ops'[n].call = call /\ ops'[n].id = id /\ ops'[n].probes = attached
      /\ n \in 1 .. MaxOps /\ n \notin DOMAIN ops
  <2> DEFINE new == [call |-> call, id |-> id, probes |-> attached, end |-> ""]
  <2>1. /\ new \in Call /\ new.call = call /\ new.id = id /\ new.probes = attached
        /\ ops' = Append(ops, new) /\ Len(ops) < MaxOps
    BY <1>0, <1>1 DEF Call, OpsOK, TwoProbes
  <2> HIDE DEF new
  <2>2. /\ ops' \in Seq(Call) /\ Len(ops') <= MaxOps /\ Kept
        /\ Len(ops) \in Nat /\ DOMAIN ops = 1 .. Len(ops)
        /\ DOMAIN ops' = DOMAIN ops \union {n}
        /\ \A m \in DOMAIN ops : ops'[m] = ops[m]
        /\ ops'[n] = new /\ n \in 1 .. MaxOps
    BY <1>0, <2>1, BegunIs
  <2> QED  BY <2>1, <2>2
<1>3. infotbl' = IF On(EnterProbe(call)) THEN Put(infotbl, id, n, InfoSize) ELSE infotbl
  BY DEF Enter
<1> HIDE DEF n
<1>4. /\ n # 0 /\ op'[id] = n /\ \A o \in Ids \ {id} : op'[o] = op[o]
      /\ op' \in [Ids -> Nat]
  <2>1. n \in Nat /\ n # 0
    BY <1>2, SyscallTracerAssumption
  <2> QED  BY <1>0, <1>1, <2>1 DEF OpsOK
<1>5. OpsOK'
  <2>1. \A m \in DOMAIN ops' : ops'[m].probes <= attached'
    <3>1. \A m \in DOMAIN ops : ops'[m].probes <= attached
      BY <1>0, <1>2, ProbesAre
    <3>2. ops'[n].probes = attached /\ attached <= attached /\ attached' = attached
      <4>1. attached \in Nat
        BY <1>0, ProbesAre
      <4>2. attached <= attached
        BY <4>1
      <4> QED  BY <1>1, <1>2, <4>2
    <3> QED  BY <1>2, <3>1, <3>2
  <2>2. \A o \in Ids : op'[o] # 0 =>
          /\ o \in alive' /\ op'[o] \in DOMAIN ops'
          /\ ops'[op'[o]].id = o /\ ops'[op'[o]].call \in TwoProbes
    BY <1>0, <1>1, <1>2, <1>4 DEF OpsOK
  <2> QED  BY <1>0, <1>1, <1>2, <1>4, <2>1, <2>2 DEF OpsOK
<1>6. SumsOK' /\ EventsOK' /\ EventNamesItsCall'
  <2>1. SumsOK' /\ EventsOK'
    BY <1>0, <1>1, <1>2 DEF SumsOK, EventsOK, sums, Hash
  <2>2. \A m \in DOMAIN ops : Traced(m)' <=> Traced(m)
    BY <1>2, KeptTraced
  <2> QED  BY <1>0, <1>1, <2>1, <2>2 DEF EventNamesItsCall, EventsOK
(* The entry of id afterwards, if it has one.                              *)
<1>7. /\ \A o \in DOMAIN infotbl' :
           \/ o \in DOMAIN infotbl /\ infotbl'[o] = infotbl[o]
              /\ (o = id => ~On(EnterProbe(call)))
           \/ o = id /\ infotbl'[o] = n /\ On(EnterProbe(call))
      /\ DOMAIN infotbl' \subseteq Ids /\ Cardinality(DOMAIN infotbl') <= InfoSize
  <2>1. CASE ~On(EnterProbe(call))
    BY <1>0, <1>3, <2>1 DEF TableOK
  <2>2. CASE On(EnterProbe(call))
    <3>1. infotbl' = Put(infotbl, id, n, InfoSize)
      BY <1>3, <2>2
    <3>2. /\ DOMAIN infotbl' \subseteq Ids /\ Cardinality(DOMAIN infotbl') <= InfoSize
          /\ \A o \in DOMAIN infotbl' :
               \/ o \in DOMAIN infotbl /\ infotbl'[o] = infotbl[o] /\ o # id
               \/ o = id /\ infotbl'[o] = n
      <4>1. InfoSize \in Nat /\ IsFiniteSet(Ids)
        BY SyscallTracerAssumption
      <4>2. DOMAIN infotbl \subseteq Ids /\ Cardinality(DOMAIN infotbl) <= InfoSize
        BY <1>0 DEF TableOK
      <4> DEFINE new == infotbl'
      <4>3. new = Put(infotbl, id, n, InfoSize)
        BY <3>1
      <4> HIDE DEF new
      <4>4. /\ DOMAIN new \subseteq Ids /\ Cardinality(DOMAIN new) <= InfoSize
            /\ \A o \in DOMAIN new :
                 \/ o \in DOMAIN infotbl /\ new[o] = infotbl[o] /\ o # id
                 \/ o = id /\ new[o] = n
        BY <4>1, <4>2, <4>3, PutFits DEF Put, Has
      <4> QED  BY <4>4 DEF new
    <3> QED  BY <2>2, <3>2
  <2> QED  BY <2>1, <2>2
(* An entry that stays for id is of an openat that was not traced.         *)
<1>8. id \in DOMAIN infotbl /\ ~On(EnterProbe(call)) => ~Traced(infotbl[id])
  <2> SUFFICES ASSUME id \in DOMAIN infotbl, ~On(EnterProbe(call)), Traced(infotbl[id])
               PROVE  FALSE
      OBVIOUS
  <2> DEFINE m == infotbl[id]
  <2>1. /\ m \in DOMAIN ops /\ ops[m].call \in TwoProbes /\ m # 0
        /\ ops[m].probes >= Index(EnterProbe(ops[m].call))
    BY <1>0, <1>2 DEF TableOK
  <2>2. ops[m].call = "execve"
    BY <1>0, <1>1, <2>1 DEF LeftoversExplained
  <2>3. ops[m].probes \in Nat /\ ops[m].probes <= attached /\ attached \in Nat
    BY <1>0, <2>1, ProbesAre
  <2>4. attached >= 3
    BY <2>1, <2>2, <2>3, Order DEF EnterProbe
  <2> QED  BY <2>3, <2>4, Order DEF On, EnterProbe, TwoProbes
<1>9. \A m \in DOMAIN ops : (Traced(m)' <=> Traced(m)) /\ m # n
  BY <1>2, KeptTraced
<1>10. TableOK'
  <2> SUFFICES ASSUME NEW o \in DOMAIN infotbl'
               PROVE  /\ infotbl'[o] \in DOMAIN ops' /\ ops'[infotbl'[o]].id = o
                      /\ ops'[infotbl'[o]].call \in TwoProbes
                      /\ ops'[infotbl'[o]].probes
                           >= Index(EnterProbe(ops'[infotbl'[o]].call))
                      /\ op'[o] # 0 => infotbl'[o] = op'[o] \/ ~Traced(infotbl[o])'
      BY <1>7 DEF TableOK
  <2>1. CASE o \in DOMAIN infotbl /\ infotbl'[o] = infotbl[o]
             /\ (o = id => ~On(EnterProbe(call)))
    <3>1. /\ infotbl[o] \in DOMAIN ops /\ ops'[infotbl[o]] = ops[infotbl[o]]
      BY <1>0, <1>2, <2>1 DEF TableOK
    <3>2. op'[o] # 0 => infotbl[o] = op'[o] \/ ~Traced(infotbl[o])
      BY <1>0, <1>4, <1>7, <1>8, <2>1 DEF TableOK
    <3>3. /\ ops[infotbl[o]].id = o /\ ops[infotbl[o]].call \in TwoProbes
          /\ ops[infotbl[o]].probes >= Index(EnterProbe(ops[infotbl[o]].call))
      BY <1>0, <2>1 DEF TableOK
    <3>4. infotbl'[o] = infotbl[o] /\ DOMAIN ops \subseteq DOMAIN ops'
      BY <1>2, <2>1
    <3>5. Traced(infotbl[o])' <=> Traced(infotbl[o])
      BY <3>1, <3>4 DEF Traced
    <3> QED  BY <3>1, <3>2, <3>3, <3>4, <3>5
  <2>2. CASE o = id /\ infotbl'[o] = n /\ On(EnterProbe(call))
    BY <1>0, <1>2, <1>4, <2>2, Order DEF On, OpsOK, EnterProbe
  <2> QED  BY <1>7, <2>1, <2>2
<1>11. LeftoversExplained'
  <2> SUFFICES ASSUME NEW o \in DOMAIN infotbl'
               PROVE  \/ op'[o] = infotbl'[o] \/ ~Traced(infotbl[o])'
                      \/ /\ ops'[infotbl'[o]].call = "execve"
                         /\ ops'[infotbl'[o]].end = "done" /\ ~Leads(o)
      BY DEF LeftoversExplained, Leads
  <2>1. CASE o \in DOMAIN infotbl /\ infotbl'[o] = infotbl[o]
             /\ (o = id => ~On(EnterProbe(call)))
    <3>1. /\ infotbl[o] \in DOMAIN ops /\ ops'[infotbl[o]] = ops[infotbl[o]]
      BY <1>0, <1>2, <2>1 DEF TableOK
    <3>2. Traced(infotbl[o])' <=> Traced(infotbl[o])
      BY <2>1, <3>1 DEF Traced
    <3>3. o \in Ids /\ (o = id => ~Traced(infotbl[o]))
      BY <1>7, <1>8, <2>1
    <3>4. o # id => op'[o] = op[o]
      BY <1>4, <3>3
    <3> QED  BY <1>0, <2>1, <3>1, <3>2, <3>3, <3>4 DEF LeftoversExplained
  <2>2. CASE o = id /\ infotbl'[o] = n
    BY <1>4, <2>2
  <2> QED  BY <1>7, <2>1, <2>2
<1> QED  BY <1>5, <1>6, <1>10, <1>11 DEF Inv

(* Call n of the history has ended.                                        *)
Ended(n, end) == ops' = [ops EXCEPT ![n].end = end]

(* A call of id ends under the id target: its own, or that of the leader   *)
(* when another thread's execve succeeds.  What target then finds is of    *)
(* this call, or of one that is not traced.                                *)
LEMMA EndKeeps ==
  ASSUME Inv, NEW id \in Ids, NEW target \in Ids, NEW end \in {"done", "failed"}, op[id] # 0,
         \/ target = id
         \/ /\ ops[op[id]].call = "execve" /\ end = "done"
            /\ target = Leader[PidOf[id]] /\ op[target] = 0 /\ ~Leads(id) /\ Leads(target),
         op' = [op EXCEPT ![id] = 0], Ended(op[id], end),
         Exit(op[id], target), UNCHANGED <<attached, sums>>,
         alive' \subseteq Ids, \A o \in Ids : op'[o] # 0 => o \in alive'
  PROVE  Inv' /\ Kept /\ Len(ops') = Len(ops) /\ ops'[op[id]].end = end
         /\ \A m \in DOMAIN ops : m # op[id] => ops'[m] = ops[m]
<1> DEFINE n == op[id]
<1>0. OpsOK /\ TableOK /\ SumsOK /\ EventsOK /\ EventNamesItsCall /\ LeftoversExplained
  BY DEF Inv
<1>1. /\ n \in DOMAIN ops /\ ops[n].id = id /\ ops[n].call \in TwoProbes
      /\ ops \in Seq(Call) /\ n # 0 /\ n \in 1 .. MaxOps
  BY <1>0, SyscallTracerAssumption DEF OpsOK
<1> HIDE DEF n
<1>2. /\ op'[id] = 0 /\ \A o \in Ids \ {id} : op'[o] = op[o]
      /\ op' \in [Ids -> Nat]
  BY <1>0 DEF OpsOK
<1>3. /\ ops' \in Seq(Call) /\ Len(ops') = Len(ops) /\ DOMAIN ops' = DOMAIN ops
      /\ \A m \in DOMAIN ops : m # n => ops'[m] = ops[m]
      /\ ops'[n].end = end /\ ops'[n].call = ops[n].call /\ ops'[n].id = ops[n].id
      /\ ops'[n].probes = ops[n].probes
  <2>1. ops[n] \in Call
    BY <1>1
  <2> DEFINE new == [ops[n] EXCEPT !.end = end]
  <2>2. /\ new \in Call /\ new.end = end /\ new.call = ops[n].call
        /\ new.id = ops[n].id /\ new.probes = ops[n].probes
    BY <2>1 DEF Call
  <2>3. ops' = [ops EXCEPT ![n] = new]
    BY DEF n, Ended
  <2> HIDE DEF new
  <2>4. /\ ops' \in Seq(Call) /\ Len(ops') = Len(ops) /\ DOMAIN ops' = DOMAIN ops
        /\ \A m \in DOMAIN ops : m # n => ops'[m] = ops[m]
        /\ ops'[n] = new
    BY <1>1, <2>2, <2>3, ReplacedIs
  <2> QED  BY <2>2, <2>4
<1>4. Kept
  BY <1>3 DEF Kept
<1>5. \A m \in DOMAIN ops : (Traced(m)' <=> Traced(m))
  BY <1>4, KeptTraced
<1>6. OpsOK'
  <2>1. \A m \in DOMAIN ops' : ops'[m].probes <= attached'
    BY <1>0, <1>3 DEF OpsOK
  <2>2. \A o \in Ids : op'[o] # 0 =>
          /\ o \in alive' /\ op'[o] \in DOMAIN ops'
          /\ ops'[op'[o]].id = o /\ ops'[op'[o]].call \in TwoProbes
    <3> SUFFICES ASSUME NEW o \in Ids, op'[o] # 0
                 PROVE  /\ o \in alive' /\ op'[o] \in DOMAIN ops'
                        /\ ops'[op'[o]].id = o /\ ops'[op'[o]].call \in TwoProbes
        OBVIOUS
    <3>1. o # id /\ op'[o] = op[o] /\ op[o] # 0
      BY <1>2
    <3>2. op[o] \in DOMAIN ops /\ ops[op[o]].id = o /\ ops[op[o]].call \in TwoProbes
      BY <1>0, <3>1 DEF OpsOK
    <3> QED  BY <1>3, <3>1, <3>2
  <2> QED  BY <1>0, <1>2, <1>3, <2>1, <2>2 DEF OpsOK
<1> DEFINE Hit == On(ExitProbe(ops[n].call)) /\ target \in DOMAIN infotbl
(* What the exit probe finds is of this call, or not traced.               *)
<1>7. Hit => infotbl[target] = n \/ ~Traced(infotbl[target])
  BY <1>0, <1>1 DEF TableOK, LeftoversExplained, n
<1>8. /\ DOMAIN infotbl' = IF Hit THEN DOMAIN infotbl \ {target} ELSE DOMAIN infotbl
      /\ \A o \in DOMAIN infotbl' : infotbl'[o] = infotbl[o] /\ o \in DOMAIN infotbl
  <2>1. CASE Hit
    <3>1. infotbl' = [o \in DOMAIN infotbl \ {target} |-> infotbl[o]]
      BY <2>1 DEF Exit, Delete, Restrict, n
    <3> QED  BY <2>1, <3>1
  <2>2. CASE ~Hit
    BY <2>2 DEF Exit, n
  <2> QED  BY <2>1, <2>2
<1>9. SumsOK' /\ EventsOK' /\ EventNamesItsCall'
  <2>1. SumsOK'
    BY <1>0 DEF SumsOK, sums, Hash
  <2>2. CASE Hit
    <3> DEFINE e == [op |-> n, from |-> infotbl[target], pid |-> PidOf[target],
                     bytes |-> 0]
    <3>1. infotbl[target] \in DOMAIN ops /\ infotbl[target] \in 1 .. MaxOps
      BY <1>0, <2>2, SyscallTracerAssumption DEF TableOK, OpsOK
    <3>2. e \in Event /\ e.op = n /\ e.from = infotbl[target]
      BY <1>1, <3>1, SyscallTracerAssumption DEF Event
    <3>3. events' = events \union {e}
      BY <2>2 DEF Exit, n
    <3> HIDE DEF e
    <3>4. EventsOK'
      BY <1>0, <1>1, <1>3, <3>1, <3>2, <3>3 DEF EventsOK
    <3>5. \A d \in events' : d.from # d.op => ~Traced(d.from)'
      BY <1>0, <1>5, <1>7, <2>2, <3>1, <3>2, <3>3 DEF EventNamesItsCall, EventsOK
    <3> QED  BY <2>1, <3>4, <3>5 DEF EventNamesItsCall
  <2>3. CASE ~Hit
    <3>1. events' = events
      BY <2>3 DEF Exit, n
    <3> QED  BY <1>0, <1>3, <1>5, <2>1, <3>1 DEF EventsOK, EventNamesItsCall
  <2> QED  BY <2>2, <2>3
<1>10. TableOK'
  <2>1. DOMAIN infotbl' \subseteq Ids /\ Cardinality(DOMAIN infotbl') <= InfoSize
    <3>1. IsFiniteSet(DOMAIN infotbl)
      BY <1>0, FS_Subset, SyscallTracerAssumption DEF TableOK
    <3>2. DOMAIN infotbl' \subseteq DOMAIN infotbl
      BY <1>8
    <3>3. /\ Cardinality(DOMAIN infotbl') <= Cardinality(DOMAIN infotbl)
          /\ IsFiniteSet(DOMAIN infotbl')
      BY <3>1, <3>2, FS_Subset
    <3>4. /\ Cardinality(DOMAIN infotbl') \in Nat /\ Cardinality(DOMAIN infotbl) \in Nat
      BY <3>1, <3>3, FS_CardinalityType
    <3>5. Cardinality(DOMAIN infotbl) <= InfoSize /\ DOMAIN infotbl \subseteq Ids
      BY <1>0 DEF TableOK
    <3> QED  BY <3>2, <3>3, <3>4, <3>5, SyscallTracerAssumption
  <2> SUFFICES ASSUME NEW o \in DOMAIN infotbl'
               PROVE  /\ infotbl'[o] \in DOMAIN ops' /\ ops'[infotbl'[o]].id = o
                      /\ ops'[infotbl'[o]].call \in TwoProbes
                      /\ ops'[infotbl'[o]].probes
                           >= Index(EnterProbe(ops'[infotbl'[o]].call))
                      /\ op'[o] # 0 => infotbl'[o] = op'[o] \/ ~Traced(infotbl[o])'
      BY <2>1 DEF TableOK
  <2>2. /\ infotbl'[o] = infotbl[o] /\ o \in DOMAIN infotbl /\ o \in Ids
        /\ infotbl[o] \in DOMAIN ops /\ ops[infotbl[o]].id = o
        /\ ops[infotbl[o]].call \in TwoProbes
        /\ ops[infotbl[o]].probes >= Index(EnterProbe(ops[infotbl[o]].call))
        /\ op[o] # 0 => infotbl[o] = op[o] \/ ~Traced(infotbl[o])
    BY <1>0, <1>8, <2>1 DEF TableOK
  <2>3. /\ ops'[infotbl[o]].call = ops[infotbl[o]].call
        /\ ops'[infotbl[o]].id = ops[infotbl[o]].id
        /\ ops'[infotbl[o]].probes = ops[infotbl[o]].probes
    BY <1>4, <2>2 DEF Kept
  <2>4. Traced(infotbl[o])' <=> Traced(infotbl[o])
    BY <2>2, <2>3 DEF Traced
  <2>5. op'[o] # 0 => op[o] = op'[o]
    BY <1>2, <2>2
  <2> QED  BY <1>3, <2>2, <2>3, <2>4, <2>5
<1>11. LeftoversExplained'
  <2> SUFFICES ASSUME NEW o \in DOMAIN infotbl'
               PROVE  \/ op'[o] = infotbl'[o] \/ ~Traced(infotbl[o])'
                      \/ /\ ops'[infotbl'[o]].call = "execve"
                         /\ ops'[infotbl'[o]].end = "done" /\ ~Leads(o)
      BY DEF LeftoversExplained, Leads
  <2>1. /\ infotbl'[o] = infotbl[o] /\ o \in DOMAIN infotbl /\ o \in Ids
        /\ infotbl[o] \in DOMAIN ops /\ ops[infotbl[o]].id = o
        /\ (Hit => o # target)
    BY <1>0, <1>8 DEF TableOK
  <2>2. Traced(infotbl[o])' <=> Traced(infotbl[o])
    <3>1. /\ ops'[infotbl[o]].call = ops[infotbl[o]].call
          /\ ops'[infotbl[o]].probes = ops[infotbl[o]].probes
      BY <1>4, <2>1 DEF Kept
    <3> QED  BY <2>1, <3>1 DEF Traced
  <2>3. \/ op[o] = infotbl[o] \/ ~Traced(infotbl[o])
        \/ ops[infotbl[o]].call = "execve" /\ ops[infotbl[o]].end = "done" /\ ~Leads(o)
    BY <1>0, <2>1 DEF LeftoversExplained
  <2>4. CASE o # id
    <3>1. infotbl[o] # n
      BY <1>1, <2>1, <2>4
    <3> QED  BY <1>2, <1>3, <2>1, <2>2, <2>3, <2>4, <3>1
  <2>5. CASE o = id
    <3>1. infotbl[o] = n \/ ~Traced(infotbl[o])
      BY <1>0, <1>1, <2>1, <2>5 DEF TableOK, n
    <3>2. CASE infotbl[o] = n /\ target = id
      <4>1. ~Traced(n)
        BY <1>0, <1>1, <2>1, <2>5, <3>2, UnseenIsUntraced
      <4> QED  BY <2>2, <3>2, <4>1
    <3>3. CASE infotbl[o] = n /\ target # id
      BY <1>3, <2>1, <2>5, <3>3 DEF n
    <3> QED  BY <2>2, <3>1, <3>2, <3>3
  <2> QED  BY <2>4, <2>5
<1> QED  BY <1>3, <1>4, <1>6, <1>9, <1>10, <1>11 DEF Inv, n

(* Bytes are added to an entry that fits, or to none.                      *)
LEMMA CountedFits ==
  ASSUME NEW bytes, Hash(bytes, Pids, Nat), Cardinality(DOMAIN bytes) <= BytesSize,
         NEW p \in Pids, NEW size \in Nat, NEW new, new = Counted(bytes, p, size)
  PROVE  Hash(new, Pids, Nat) /\ Cardinality(DOMAIN new) <= BytesSize
<1> DEFINE value == size + (IF p \in DOMAIN bytes THEN bytes[p] ELSE 0)
<1>1. value \in Nat
  BY DEF Hash
<1>2. new = Put(bytes, p, value, BytesSize)
  BY DEF Counted
<1>3. BytesSize \in Nat /\ IsFiniteSet(Pids) /\ DOMAIN bytes \subseteq Pids
  BY SyscallTracerAssumption DEF Hash
<1> HIDE DEF value
<1>4. /\ DOMAIN new \subseteq Pids /\ Cardinality(DOMAIN new) <= BytesSize
      /\ \A y \in DOMAIN new :
           \/ y \in DOMAIN bytes /\ new[y] = bytes[y] /\ y # p
           \/ y = p /\ new[y] = value
  BY <1>2, <1>3, PutFits DEF Put, Has
<1> QED  BY <1>1, <1>4 DEF Hash

(* A transfer is a call of its own: it is reported as itself, and leaves   *)
(* the calls and the entries of the others.                                *)
LEMMA TransferKeeps ==
  ASSUME Inv, NEW id \in Ids, NEW call \in {"read", "write"},
         NEW size \in 1 .. MaxBytes, Transfer(id, call, size)
  PROVE  Inv' /\ Kept /\ DOMAIN ops' = DOMAIN ops \union {Len(ops) + 1}
         /\ ops'[Len(ops) + 1].call = call /\ UNCHANGED <<op, infotbl>>
         /\ events \subseteq events' /\ \A m \in DOMAIN ops : ops'[m] = ops[m]
<1> DEFINE n == Len(ops) + 1
           p == PidOf[id]
           e == [op |-> n, from |-> n, pid |-> p, bytes |-> size]
           new == [call |-> call, id |-> id, probes |-> attached, end |-> "done"]
           hit == On(IF call = "read" THEN "exit_read" ELSE "exit_write")
<1>0. OpsOK /\ TableOK /\ SumsOK /\ EventsOK /\ EventNamesItsCall /\ LeftoversExplained
  BY DEF Inv
<1>1. /\ ops' = Append(ops, new) /\ Len(ops) < MaxOps
      /\ UNCHANGED <<attached, alive, op, infotbl>>
      /\ \/ hit /\ events' = events \union {e}
         \/ ~hit /\ events' = events
      /\ read_bytes' = read_bytes \/ read_bytes' = Counted(read_bytes, p, size)
      /\ write_bytes' = write_bytes \/ write_bytes' = Counted(write_bytes, p, size)
  BY DEF Transfer, Begun, sums
<1>2. /\ new \in Call /\ new.call = call /\ p \in Pids /\ size \in 0 .. MaxBytes
      /\ size \in Nat /\ new.probes = attached
  <2>1. p \in Pids /\ size \in 0 .. MaxBytes /\ size \in Nat
    BY SyscallTracerAssumption
  <2>2. attached \in 0 .. Len(Probes)
    BY <1>0 DEF OpsOK
  <2>3. new \in Call /\ new.call = call /\ new.probes = attached
    BY <2>2 DEF Call
  <2> QED  BY <2>1, <2>3
<1> HIDE DEF new, hit, p
<1>3. /\ ops' \in Seq(Call) /\ Len(ops') <= MaxOps /\ Kept
      /\ Len(ops) \in Nat /\ DOMAIN ops = 1 .. Len(ops)
      /\ DOMAIN ops' = DOMAIN ops \union {n}
      /\ \A m \in DOMAIN ops : ops'[m] = ops[m]
      /\ ops'[n] = new /\ n \in 1 .. MaxOps
  BY <1>0, <1>1, <1>2, BegunIs
<1>4. e \in Event /\ e.op = n /\ e.from = n
  BY <1>2, <1>3 DEF Event
<1> HIDE DEF n, e
<1>5. SumsOK'
  <2>1. Hash(read_bytes', Pids, Nat) /\ Cardinality(DOMAIN read_bytes') <= BytesSize
    BY <1>0, <1>1, <1>2, CountedFits DEF SumsOK
  <2>2. Hash(write_bytes', Pids, Nat) /\ Cardinality(DOMAIN write_bytes') <= BytesSize
    BY <1>0, <1>1, <1>2, CountedFits DEF SumsOK
  <2> QED  BY <2>1, <2>2 DEF SumsOK, Hash
<1>6. OpsOK'
  <2>1. \A m \in DOMAIN ops' : ops'[m].probes <= attached'
    <3>1. attached \in Nat /\ \A m \in DOMAIN ops : ops[m].probes <= attached
      BY <1>0, ProbesAre
    <3>2. attached <= attached
      BY <3>1
    <3> QED  BY <1>1, <1>2, <1>3, <3>1, <3>2
  <2> QED  BY <1>0, <1>1, <1>3, <2>1 DEF OpsOK
<1>7. \A m \in DOMAIN ops : Traced(m)' <=> Traced(m)
  BY <1>3, KeptTraced
<1>8. TableOK'
  <2> SUFFICES ASSUME NEW o \in DOMAIN infotbl'
               PROVE  /\ infotbl'[o] \in DOMAIN ops' /\ ops'[infotbl'[o]].id = o
                      /\ ops'[infotbl'[o]].call \in TwoProbes
                      /\ ops'[infotbl'[o]].probes
                           >= Index(EnterProbe(ops'[infotbl'[o]].call))
                      /\ op'[o] # 0 => infotbl'[o] = op'[o] \/ ~Traced(infotbl[o])'
      BY <1>0, <1>1 DEF TableOK
  <2>1. /\ infotbl[o] \in DOMAIN ops /\ ops[infotbl[o]].id = o
        /\ ops[infotbl[o]].call \in TwoProbes
        /\ ops[infotbl[o]].probes >= Index(EnterProbe(ops[infotbl[o]].call))
        /\ op[o] # 0 => infotbl[o] = op[o] \/ ~Traced(infotbl[o])
    BY <1>0, <1>1 DEF TableOK
  <2>2. infotbl' = infotbl /\ op' = op /\ ops'[infotbl[o]] = ops[infotbl[o]]
    BY <1>1, <1>3, <2>1
  <2>3. Traced(infotbl[o])' <=> Traced(infotbl[o])
    BY <2>2 DEF Traced
  <2> QED  BY <1>3, <2>1, <2>2, <2>3
<1>9. LeftoversExplained'
  <2> SUFFICES ASSUME NEW o \in DOMAIN infotbl'
               PROVE  \/ op'[o] = infotbl'[o] \/ ~Traced(infotbl[o])'
                      \/ /\ ops'[infotbl'[o]].call = "execve"
                         /\ ops'[infotbl'[o]].end = "done" /\ ~Leads(o)
      BY <1>1 DEF LeftoversExplained, Leads
  <2>1. infotbl' = infotbl /\ op' = op /\ infotbl[o] \in DOMAIN ops /\ o \in DOMAIN infotbl
    BY <1>0, <1>1 DEF TableOK
  <2>2. ops'[infotbl[o]] = ops[infotbl[o]]
    BY <1>3, <2>1
  <2>3. Traced(infotbl[o])' <=> Traced(infotbl[o])
    BY <2>1, <2>2 DEF Traced
  <2> QED  BY <1>0, <2>1, <2>2, <2>3 DEF LeftoversExplained
<1>10. EventsOK' /\ EventNamesItsCall'
  <2>1. EventsOK'
    BY <1>0, <1>1, <1>3, <1>4 DEF EventsOK
  <2>2. \A d \in events' : d.from # d.op => ~Traced(d.from)'
    BY <1>0, <1>1, <1>4, <1>7 DEF EventNamesItsCall, EventsOK
  <2> QED  BY <2>1, <2>2 DEF EventNamesItsCall
<1> QED  BY <1>1, <1>2, <1>3, <1>5, <1>6, <1>8, <1>9, <1>10 DEF Inv, n

-----------------------------------------------------------------------------
(* As long as infotbl has room for every thread, a traced call that is     *)
(* under way has its entry: its exit will find it.                         *)
Filled ==
  InfoSize >= Cardinality(Ids) =>
    \A id \in Ids : op[id] # 0 /\ Traced(op[id]) =>
      id \in DOMAIN infotbl /\ infotbl[id] = op[id]

(* With room for every thread the entry probe stores the call.             *)
LEMMA EnterFills ==
  ASSUME Inv, Filled, NEW id \in Ids, NEW call \in TwoProbes, Enter(id, call)
  PROVE  Filled'
<1> SUFFICES ASSUME InfoSize >= Cardinality(Ids), NEW o \in Ids,
                    op'[o] # 0,
                    ops'[op'[o]].probes >= Index(ExitProbe(ops'[op'[o]].call))
             PROVE  o \in DOMAIN infotbl' /\ infotbl'[o] = op'[o]
    BY DEF Filled, Traced
<1> DEFINE n == Len(ops) + 1
           new == [call |-> call, id |-> id, probes |-> attached, end |-> ""]
<1>1. /\ ops' = Append(ops, new) /\ Len(ops) < MaxOps
      /\ op' = [op EXCEPT ![id] = n]
      /\ infotbl' = IF On(EnterProbe(call)) THEN Put(infotbl, id, n, InfoSize) ELSE infotbl
  BY DEF Enter, Begun
<1>2. OpsOK /\ TableOK /\ DOMAIN infotbl \subseteq Ids
  BY DEF Inv, TableOK
<1>3. new \in Call /\ new.probes = attached /\ new.call = call
  <2>1. attached \in 0 .. Len(Probes)
    BY <1>2 DEF OpsOK
  <2> QED  BY <2>1 DEF Call, TwoProbes
<1> HIDE DEF new
<1>4. /\ DOMAIN ops' = DOMAIN ops \union {n} /\ ops'[n] = new
      /\ \A m \in DOMAIN ops : ops'[m] = ops[m]
  BY <1>1, <1>2, <1>3, BegunIs
<1>5. op'[id] = n /\ \A i \in Ids \ {id} : op'[i] = op[i]
  BY <1>1, <1>2 DEF OpsOK
<1> HIDE DEF n
<1>6. infotbl' = infotbl \/ (On(EnterProbe(call)) /\ infotbl' = Put(infotbl, id, n, InfoSize))
  BY <1>1
<1>7. CASE o # id
  <2>1. op[o] # 0 /\ op[o] \in DOMAIN ops /\ op'[o] = op[o]
    BY <1>2, <1>5, <1>7 DEF OpsOK
  <2>2. ops'[op[o]] = ops[op[o]] /\ Traced(op[o])
    BY <1>4, <2>1 DEF Traced
  <2>3. o \in DOMAIN infotbl /\ infotbl[o] = op[o]
    BY <2>1, <2>2 DEF Filled
  <2>4. o \in DOMAIN infotbl' /\ infotbl'[o] = infotbl[o]
    BY <1>6, <1>7, <2>3 DEF Put
  <2> QED  BY <2>1, <2>3, <2>4
<1>8. CASE o = id
  <2>1. attached >= Index(ExitProbe(call))
    BY <1>3, <1>4, <1>5, <1>8 DEF Traced
  <2>2. On(EnterProbe(call))
    BY <1>2, <2>1, Order, ProbesAre DEF On, EnterProbe, ExitProbe, TwoProbes
  <2>3. Has(infotbl, id, InfoSize)
    <3>1. CASE id \in DOMAIN infotbl
      BY <3>1 DEF Has
    <3>2. CASE id \notin DOMAIN infotbl
      <4>1. Cardinality(DOMAIN infotbl) < Cardinality(Ids)
        <5>1. DOMAIN infotbl \subseteq Ids /\ DOMAIN infotbl # Ids /\ IsFiniteSet(Ids)
          BY <1>2, <3>2, SyscallTracerAssumption
        <5>2. /\ Cardinality(DOMAIN infotbl) \in Nat /\ Cardinality(Ids) \in Nat
              /\ Cardinality(DOMAIN infotbl) <= Cardinality(Ids)
              /\ Cardinality(DOMAIN infotbl) # Cardinality(Ids)
          BY <5>1, FS_Subset, FS_CardinalityType
        <5> QED  BY <5>2
      <4>2. Cardinality(DOMAIN infotbl) \in Nat /\ Cardinality(Ids) \in Nat /\ InfoSize \in Nat
        BY <1>2, FS_Subset, FS_CardinalityType, SyscallTracerAssumption
      <4>3. Cardinality(DOMAIN infotbl) < InfoSize
        BY <4>1, <4>2
      <4> QED  BY <4>3 DEF Has
    <3> QED  BY <3>1, <3>2
  <2>4. infotbl' = Put(infotbl, id, n, InfoSize)
    BY <1>1, <2>2
  <2>5. infotbl' = [y \in DOMAIN infotbl \union {id} |-> IF y = id THEN n ELSE infotbl[y]]
    BY <2>3, <2>4 DEF Put
  <2> QED  BY <1>5, <1>8, <2>5
<1> QED  BY <1>7, <1>8

(* A call that began is not one that returned: nothing new is promised.    *)
LEMMA EnterReports ==
  ASSUME Inv, ReturnedIsReported, NEW id \in Ids, NEW call \in TwoProbes, Enter(id, call)
  PROVE  ReturnedIsReported'
<1> DEFINE n == Len(ops) + 1
           new == [call |-> call, id |-> id, probes |-> attached, end |-> ""]
<1>1. ops' = Append(ops, new) /\ Len(ops) < MaxOps /\ events' = events
  BY DEF Enter, Begun
<1>2. OpsOK
  BY DEF Inv
<1>3. new \in Call /\ new.end = ""
  <2>1. attached \in 0 .. Len(Probes)
    BY <1>2 DEF OpsOK
  <2> QED  BY <2>1 DEF Call, TwoProbes
<1> HIDE DEF new
<1>4. /\ DOMAIN ops' = DOMAIN ops \union {n} /\ ops'[n] = new
      /\ \A m \in DOMAIN ops : ops'[m] = ops[m]
  BY <1>1, <1>2, <1>3, BegunIs
<1> HIDE DEF n
<1> SUFFICES ASSUME InfoSize >= Cardinality(Ids), NEW m \in DOMAIN ops',
                    ops'[m].call \in TwoProbes, Traced(m)', ops'[m].end # ""
             PROVE  \/ /\ ops'[m].call = "execve" /\ ops'[m].end = "done"
                       /\ ~Leads(ops'[m].id)
                    \/ Reported(m)'
    BY DEF ReturnedIsReported, TracedCalls, TwoProbes, Leads
<1>5. m \in DOMAIN ops /\ ops'[m] = ops[m]
  BY <1>3, <1>4
<1>6. m \in TracedCalls({"openat", "execve"})
  BY <1>5 DEF TracedCalls, Traced, TwoProbes
<1> QED  BY <1>1, <1>5, <1>6 DEF ReturnedIsReported, Reported

(* A call that ends finds its own entry, if it is traced and its thread    *)
(* kept its id, and takes no entry of another call under way.              *)
LEMMA EndReports ==
  ASSUME Inv, Filled, ReturnedIsReported, NEW id \in Ids, NEW target \in Ids,
         NEW end \in {"done", "failed"}, op[id] # 0,
         \/ target = id
         \/ /\ ops[op[id]].call = "execve" /\ end = "done"
            /\ target = Leader[PidOf[id]] /\ op[target] = 0 /\ ~Leads(id) /\ Leads(target),
         op' = [op EXCEPT ![id] = 0], Ended(op[id], end), Exit(op[id], target),
         Kept, Len(ops') = Len(ops), ops'[op[id]].end = end, Inv',
         \A m \in DOMAIN ops : m # op[id] => ops'[m] = ops[m]
  PROVE  Filled' /\ ReturnedIsReported'
<1> DEFINE n == op[id]
<1>1. /\ OpsOK /\ TableOK /\ n \in DOMAIN ops /\ ops[n].id = id
      /\ ops[n].call \in TwoProbes /\ DOMAIN ops' = DOMAIN ops
  BY DEF Inv, OpsOK
<1>2. \A m \in DOMAIN ops : Traced(m)' <=> Traced(m)
  BY KeptTraced
<1>3. op'[id] = 0 /\ \A o \in Ids \ {id} : op'[o] = op[o]
  BY <1>1 DEF OpsOK
<1> DEFINE Hit == On(ExitProbe(ops[n].call)) /\ target \in DOMAIN infotbl
<1>4. /\ Hit => infotbl' = [o \in DOMAIN infotbl \ {target} |-> infotbl[o]]
      /\ ~Hit => infotbl' = infotbl
      /\ Hit => \E e \in events' : e.op = n /\ e.from = infotbl[target]
      /\ events \subseteq events'
  <2>1. CASE Hit
    <3> DEFINE e == [op |-> n, from |-> infotbl[target], pid |-> PidOf[target],
                     bytes |-> 0]
    <3>1. infotbl' = Delete(infotbl, target) /\ events' = events \union {e}
      BY <2>1 DEF Exit
    <3>2. infotbl' = [o \in DOMAIN infotbl \ {target} |-> infotbl[o]]
      BY <3>1 DEF Delete, Restrict
    <3>3. e.op = n /\ e.from = infotbl[target] /\ e \in events'
      BY <3>1
    <3> QED  BY <2>1, <3>1, <3>2, <3>3
  <2>2. CASE ~Hit
    <3>1. infotbl' = infotbl /\ events' = events
      BY <2>2 DEF Exit
    <3> QED  BY <2>2, <3>1
  <2> QED  BY <2>1, <2>2
<1>5. Filled'
  <2> SUFFICES ASSUME InfoSize >= Cardinality(Ids), NEW o \in Ids,
                      op'[o] # 0,
                      ops'[op'[o]].probes >= Index(ExitProbe(ops'[op'[o]].call))
               PROVE  o \in DOMAIN infotbl' /\ infotbl'[o] = op'[o]
      BY DEF Filled, Traced
  <2>1. o # id /\ op'[o] = op[o] /\ op[o] # 0 /\ op[o] \in DOMAIN ops /\ o # target
    BY <1>1, <1>3 DEF OpsOK
  <2>2. Traced(op[o])
    <3>1. /\ ops'[op[o]].call = ops[op[o]].call
          /\ ops'[op[o]].probes = ops[op[o]].probes
      BY <2>1 DEF Kept
    <3> QED  BY <2>1, <3>1 DEF Traced
  <2>3. o \in DOMAIN infotbl /\ infotbl[o] = op[o]
    BY <2>1, <2>2 DEF Filled
  <2> QED  BY <1>4, <2>1, <2>3
<1>6. ReturnedIsReported'
  <2> SUFFICES ASSUME InfoSize >= Cardinality(Ids), NEW m \in DOMAIN ops',
                      ops'[m].call \in TwoProbes, Traced(m)', ops'[m].end # ""
               PROVE  \/ /\ ops'[m].call = "execve" /\ ops'[m].end = "done"
                         /\ ~Leads(ops'[m].id)
                      \/ Reported(m)'
      BY DEF ReturnedIsReported, TracedCalls, TwoProbes, Leads
  <2>1. m \in DOMAIN ops /\ Traced(m) /\ ops'[m].call = ops[m].call /\ ops'[m].id = ops[m].id
    BY <1>1, <1>2 DEF Kept
  <2>2. CASE m # n
    <3>1. ops'[m] = ops[m] /\ m \in TracedCalls({"openat", "execve"})
      BY <2>1, <2>2 DEF TracedCalls, TwoProbes
    <3> QED  BY <1>4, <3>1 DEF ReturnedIsReported, Reported
  <2>3. CASE m = n
    <3>1. CASE target = id
      <4>1. id \in DOMAIN infotbl /\ infotbl[id] = n
        BY <2>1, <2>3 DEF Filled
      <4>2. On(ExitProbe(ops[n].call))
        BY <1>1, <2>1, <2>3, UnseenIsUntraced
      <4> QED  BY <1>4, <2>3, <3>1, <4>1, <4>2 DEF Reported
    <3>2. CASE target # id
      BY <1>1, <2>1, <2>3, <3>2
    <3> QED  BY <3>1, <3>2
  <2> QED  BY <2>2, <2>3
<1> QED  BY <1>5, <1>6

(* A transfer neither fills nor takes an entry, and is no openat or execve. *)
LEMMA TransferReports ==
  ASSUME Inv, Filled, ReturnedIsReported, NEW id \in Ids, NEW call \in {"read", "write"},
         NEW size \in 1 .. MaxBytes, Transfer(id, call, size)
  PROVE  Filled' /\ ReturnedIsReported'
<1>1. /\ Kept /\ DOMAIN ops' = DOMAIN ops \union {Len(ops) + 1}
      /\ ops'[Len(ops) + 1].call = call /\ op' = op /\ infotbl' = infotbl
      /\ events \subseteq events' /\ \A m \in DOMAIN ops : ops'[m] = ops[m]
  BY TransferKeeps
<1>2. OpsOK
  BY DEF Inv
<1>3. Filled'
  <2> SUFFICES ASSUME InfoSize >= Cardinality(Ids), NEW o \in Ids, op'[o] # 0,
                      ops'[op'[o]].probes >= Index(ExitProbe(ops'[op'[o]].call))
               PROVE  o \in DOMAIN infotbl' /\ infotbl'[o] = op'[o]
      BY DEF Filled, Traced
  <2>1. op[o] \in DOMAIN ops /\ op[o] # 0 /\ ops'[op[o]] = ops[op[o]]
    BY <1>1, <1>2 DEF OpsOK
  <2>2. Traced(op[o])
    BY <1>1, <2>1 DEF Traced
  <2> QED  BY <1>1, <2>1, <2>2 DEF Filled
<1>4. ReturnedIsReported'
  <2> SUFFICES ASSUME InfoSize >= Cardinality(Ids), NEW m \in DOMAIN ops',
                      ops'[m].call \in TwoProbes, Traced(m)', ops'[m].end # ""
               PROVE  \/ /\ ops'[m].call = "execve" /\ ops'[m].end = "done"
                         /\ ~Leads(ops'[m].id)
                      \/ Reported(m)'
      BY DEF ReturnedIsReported, TracedCalls, TwoProbes, Leads
  <2>1. m \in DOMAIN ops /\ ops'[m] = ops[m]
    BY <1>1 DEF TwoProbes
  <2>2. m \in TracedCalls({"openat", "execve"})
    BY <2>1 DEF TracedCalls, Traced, TwoProbes
  <2> QED  BY <1>1, <2>1, <2>2 DEF ReturnedIsReported, Reported
<1> QED  BY <1>3, <1>4

(* An openat returns or an execve fails, under the id of its thread.       *)
LEMMA ReturnKeeps ==
  ASSUME Inv, Filled, ReturnedIsReported, NEW id \in Ids, Return(id)
  PROVE  Inv' /\ Filled' /\ ReturnedIsReported'
<1>1. PICK end \in {"done", "failed"} : Ended(op[id], end)
  BY DEF Return, Ended
<1>2. /\ op[id] # 0 /\ op' = [op EXCEPT ![id] = 0] /\ Exit(op[id], id)
      /\ UNCHANGED <<attached, sums>> /\ alive' = alive
  BY DEF Return
<1>3. alive' \subseteq Ids /\ \A o \in Ids : op'[o] # 0 => o \in alive'
  BY <1>2 DEF Inv, OpsOK
<1>4. /\ Inv' /\ Kept /\ Len(ops') = Len(ops) /\ ops'[op[id]].end = end
      /\ \A m \in DOMAIN ops : m # op[id] => ops'[m] = ops[m]
  BY <1>1, <1>2, <1>3, EndKeeps
<1> QED  BY <1>1, <1>2, <1>4, EndReports

(* An execve succeeds, under the id of the leader.                         *)
LEMMA ExecKeeps ==
  ASSUME Inv, Filled, ReturnedIsReported, NEW id \in Ids, Exec(id)
  PROVE  Inv' /\ Filled' /\ ReturnedIsReported'
<1> DEFINE target == Leader[PidOf[id]]
<1>1. /\ op[id] # 0 /\ ops[op[id]].call = "execve"
      /\ \A o \in alive \ {id} : PidOf[o] = PidOf[id] => op[o] = 0
      /\ alive' = {o \in alive : PidOf[o] # PidOf[id]} \union {target}
      /\ op' = [op EXCEPT ![id] = 0] /\ Exit(op[id], target)
      /\ UNCHANGED <<attached, sums>> /\ Ended(op[id], "done")
  BY DEF Exec, Ended
<1>2. target \in Ids /\ PidOf[target] = PidOf[id] /\ Leads(target)
  BY SyscallTracerAssumption DEF Leads
<1>3. /\ alive \subseteq Ids /\ op \in [Ids -> Nat]
      /\ \A o \in Ids : op[o] # 0 => o \in alive
  BY DEF Inv, OpsOK
<1>4. alive' \subseteq Ids /\ \A o \in Ids : op'[o] # 0 => o \in alive'
  BY <1>1, <1>2, <1>3
<1>5. target = id \/ (op[target] = 0 /\ ~Leads(id))
  BY <1>1, <1>2, <1>3 DEF Leads
<1> HIDE DEF target
<1>6. /\ Inv' /\ Kept /\ Len(ops') = Len(ops) /\ ops'[op[id]].end = "done"
      /\ \A m \in DOMAIN ops : m # op[id] => ops'[m] = ops[m]
  <2>1. CASE target = id
    BY <1>1, <1>2, <1>4, <2>1, EndKeeps
  <2>2. CASE target # id
    BY <1>1, <1>2, <1>4, <1>5, <2>2, EndKeeps DEF target
  <2> QED  BY <2>1, <2>2
<1>7. Filled' /\ ReturnedIsReported'
  <2>1. CASE target = id
    BY <1>1, <1>2, <1>6, <2>1, EndReports
  <2>2. CASE target # id
    BY <1>1, <1>2, <1>5, <1>6, <2>2, EndReports DEF target
  <2> QED  BY <2>1, <2>2
<1> QED  BY <1>6, <1>7

-----------------------------------------------------------------------------
Ind == Inv /\ Filled /\ ReturnedIsReported

(* The invariant holds of every behaviour of the tracer.                   *)
THEOREM IndHolds == Spec => []Ind
<1>1. Init => Ind
  <2> SUFFICES ASSUME Init
               PROVE  Ind
      OBVIOUS
  <2>1. /\ attached = 0 /\ alive \subseteq Ids /\ ops = <<>> /\ op = [id \in Ids |-> 0]
        /\ infotbl = <<>> /\ read_bytes = <<>> /\ write_bytes = <<>> /\ events = {}
    BY DEF Init
  <2>2. /\ DOMAIN infotbl = {} /\ DOMAIN read_bytes = {} /\ DOMAIN write_bytes = {}
        /\ DOMAIN ops = {} /\ ops \in Seq(Call) /\ Len(ops) = 0
    BY <2>1
  <2>3. InfoSize \in Nat /\ BytesSize \in Nat /\ MaxOps \in Nat /\ Cardinality({}) = 0
    BY SyscallTracerAssumption, FS_EmptySet
  <2>4. OpsOK
    BY <2>1, <2>2, <2>3, Order DEF OpsOK
  <2>5. TableOK /\ SumsOK /\ EventsOK
    BY <2>1, <2>2, <2>3 DEF TableOK, SumsOK, EventsOK, Hash
  <2>6. EventNamesItsCall /\ LeftoversExplained /\ Filled /\ ReturnedIsReported
    BY <2>1, <2>2 DEF EventNamesItsCall, LeftoversExplained, Filled, ReturnedIsReported,
                      TracedCalls
  <2> QED  BY <2>4, <2>5, <2>6 DEF Ind, Inv
<1>2. Ind /\ [Next]_vars => Ind'
  <2> SUFFICES ASSUME Ind, [Next]_vars
               PROVE  Ind'
      OBVIOUS
  <2>0. /\ Inv /\ Filled /\ ReturnedIsReported
        /\ alive \subseteq Ids /\ attached \in 0 .. Len(Probes)
        /\ \A id \in Ids : op[id] # 0 => id \in alive
    BY DEF Ind, Inv, OpsOK
  <2>1. ASSUME UNCHANGED <<ops, op, infotbl, sums, events>>,
               attached' \in 0 .. Len(Probes), attached' >= attached,
               alive' \subseteq Ids, \A id \in Ids : op[id] # 0 => id \in alive'
        PROVE  Ind'
    <3>1. Inv'
      BY <2>0, <2>1, AsidesKeep
    <3>2. Filled' /\ ReturnedIsReported'
      BY <2>0, <2>1 DEF Filled, ReturnedIsReported, TracedCalls, Traced, Reported
    <3> QED  BY <3>1, <3>2 DEF Ind
  <2>2. attached' = attached => attached' \in 0 .. Len(Probes) /\ attached' >= attached
    BY <2>0, Order
  <2>3. CASE UNCHANGED vars
    BY <2>0, <2>1, <2>2, <2>3 DEF vars, sums
  <2>4. CASE Attach
    <3>1. attached' \in 0 .. Len(Probes) /\ attached' >= attached
      BY <2>0, <2>4, Order DEF Attach
    <3> QED  BY <2>0, <2>1, <2>4, <3>1 DEF Attach
  <2>5. ASSUME NEW id \in Ids, Spawn(id)
        PROVE  Ind'
    BY <2>0, <2>1, <2>2, <2>5 DEF Spawn
  <2>6. ASSUME NEW id \in Ids, ThreadEnds(id)
        PROVE  Ind'
    BY <2>0, <2>1, <2>2, <2>6 DEF ThreadEnds
  <2>7. ASSUME NEW id \in Ids, NEW call \in {"openat", "execve"}, Enter(id, call)
        PROVE  Ind'
    BY <2>0, <2>7, EnterKeeps, EnterFills, EnterReports DEF Ind, TwoProbes
  <2>8. ASSUME NEW id \in Ids, Return(id)
        PROVE  Ind'
    BY <2>0, <2>8, ReturnKeeps DEF Ind
  <2>9. ASSUME NEW id \in Ids, Exec(id)
        PROVE  Ind'
    BY <2>0, <2>9, ExecKeeps DEF Ind
  <2>10. ASSUME NEW id \in Ids, NEW call \in {"read", "write"},
                NEW size \in 1 .. MaxBytes, Transfer(id, call, size)
         PROVE  Ind'
    <3>1. Inv'
      BY <2>0, <2>10, TransferKeeps
    <3> QED  BY <2>0, <2>10, <3>1, TransferReports DEF Ind
  <2> QED  BY <2>3, <2>4, <2>5, <2>6, <2>7, <2>8, <2>9, <2>10 DEF Next
<1> QED  BY <1>1, <1>2, PTL DEF Spec

(* The variables hold what their types say, and the hashes what they can.  *)
THEOREM TypeCorrect == Spec => []TypeOK
<1>1. Ind => TypeOK
  <2> SUFFICES ASSUME Ind
               PROVE  TypeOK
      OBVIOUS
  <2>1. OpsOK /\ TableOK /\ SumsOK /\ EventsOK
    BY DEF Ind, Inv
  <2>2. DOMAIN ops = 1 .. Len(ops) /\ Len(ops) \in Nat /\ Len(ops) <= MaxOps /\ MaxOps \in Nat
    BY <2>1, SyscallTracerAssumption DEF OpsOK
  <2>3. DOMAIN ops \subseteq 1 .. MaxOps
    BY <2>2
  <2>4. op \in [Ids -> 0 .. MaxOps] /\ \A id \in Ids : op[id] # 0 => id \in alive
    BY <2>1, <2>2, <2>3 DEF OpsOK
  <2>5. Hash(infotbl, Ids, 1 .. MaxOps) /\ Cardinality(DOMAIN infotbl) <= InfoSize
    BY <2>1, <2>3 DEF TableOK, Hash
  <2> QED  BY <2>1, <2>4, <2>5 DEF TypeOK, OpsOK, SumsOK, EventsOK
<1> QED  BY <1>1, IndHolds, PTL

(* What the exit probe finds under its id was left by the call that        *)
(* returned, or by one that began before its exit probe was attached.      *)
THEOREM EventsNameTheirCall == Spec => []EventNamesItsCall
<1>1. Ind => EventNamesItsCall
  BY DEF Ind, Inv
<1> QED  BY <1>1, IndHolds, PTL

(* An entry of infotbl is of a call under way, of one that was not traced, *)
(* or of an execve that a thread other than the leader made.               *)
THEOREM LeftoversAreExplained == Spec => []LeftoversExplained
<1>1. Ind => LeftoversExplained
  BY DEF Ind, Inv
<1> QED  BY <1>1, IndHolds, PTL

(* With room for every thread a traced call that returned under its own id *)
(* has its event.                                                          *)
THEOREM ReturnedCallsAreReported == Spec => []ReturnedIsReported
<1>1. Ind => ReturnedIsReported
  BY DEF Ind
<1> QED  BY <1>1, IndHolds, PTL

-----------------------------------------------------------------------------
(* The bytes of a set of events: MapThenSumSet goes through a recursive    *)
(* function on the subsets, which takes the events in an order nobody      *)
(* knows.                                                                  *)
Bytes(S) == MapThenSumSet(LAMBDA e : e.bytes, S)

Pick(s) == CHOOSE e \in s : TRUE

Sums(S, f) ==
  f = [s \in SUBSET S |-> IF s = {} THEN 0 ELSE Pick(s).bytes + f[s \ {Pick(s)}]]

AnyOrder(S, f) == \A s \in SUBSET S : \A e \in s : f[s] = e.bytes + f[s \ {e}]

Counts(S) == IsFiniteSet(S) /\ \A e \in S : e.bytes \in Nat

(* The order of the natural numbers is well-founded.                       *)
LEMMA Descending == IsWellFoundedOn({p \in Nat \X Nat : p[1] < p[2]}, Nat)
BY NatLessThanWellFounded DEF OpToRel

(* Induction, with a set in the place of the property.                     *)
LEMMA Induction ==
  ASSUME NEW T \in SUBSET Nat, 0 \in T, \A n \in T : n + 1 \in T
  PROVE  T = Nat
<1> SUFFICES ASSUME Nat \ T # {} PROVE FALSE
    OBVIOUS
<1> DEFINE R == {p \in Nat \X Nat : p[1] < p[2]}
<1>1. IsWellFoundedOn(R, Nat)
  BY Descending
<1> HIDE DEF R
<1>2. PICK x \in Nat \ T : \A y \in Nat \ T : ~(<<y, x>> \in R)
  BY <1>1, WFMin
<1>3. x # 0 /\ x - 1 \in Nat
  BY <1>2
<1>4. <<x - 1, x>> \in R
  BY <1>3 DEF R
<1>5. x - 1 \in T
  BY <1>2, <1>3, <1>4
<1> QED  BY <1>2, <1>3, <1>5

(* Taking an event out of a finite set makes it one smaller.               *)
LEMMA OneLess ==
  ASSUME NEW S, IsFiniteSet(S), NEW e \in S
  PROVE  /\ IsFiniteSet(S \ {e}) /\ Cardinality(S \ {e}) \in Nat
         /\ Cardinality(S) = Cardinality(S \ {e}) + 1
<1>1. /\ IsFiniteSet(S \ {e}) /\ Cardinality(S \ {e}) \in Nat /\ Cardinality(S) \in Nat
      /\ Cardinality(S \ {e}) = Cardinality(S) - 1
  BY FS_RemoveElement, FS_CardinalityType
<1> QED  BY <1>1

(* What is picked is there.                                                *)
LEMMA PickIs == ASSUME NEW s, s # {} PROVE Pick(s) \in s
BY DEF Pick

(* The recursive function exists: it is built on the subsets of at most n  *)
(* events, for one n after the other.                                      *)
LEMMA SumsExist ==
  ASSUME NEW S, Counts(S)
  PROVE  \E f : Sums(S, f) /\ f \in [SUBSET S -> Nat]
<1> DEFINE D(n) == {s \in SUBSET S : Cardinality(s) <= n}
           Step(s, f) == IF s = {} THEN 0 ELSE Pick(s).bytes + f[s \ {Pick(s)}]
           T == {n \in Nat : \E f \in [D(n) -> Nat] : \A s \in D(n) : f[s] = Step(s, f)}
<1>1. \A s \in SUBSET S : IsFiniteSet(s) /\ Cardinality(s) \in Nat
  BY FS_Subset, FS_CardinalityType DEF Counts
<1>2. \A s \in SUBSET S : Cardinality(s) = 0 => s = {}
  BY <1>1, FS_EmptySet
<1>3. ASSUME NEW n \in Nat, NEW s \in D(n + 1), s # {}
      PROVE  s \ {Pick(s)} \in D(n) /\ Pick(s).bytes \in Nat
  <2>1. Pick(s) \in s /\ s \in SUBSET S
    BY <1>3, PickIs
  <2>2. /\ Cardinality(s) = Cardinality(s \ {Pick(s)}) + 1
        /\ Cardinality(s \ {Pick(s)}) \in Nat /\ Cardinality(s) <= n + 1
    BY <1>1, <2>1, OneLess
  <2>3. Cardinality(s \ {Pick(s)}) <= n
    BY <2>2
  <2> QED  BY <2>1, <2>3 DEF Counts
<1>4. 0 \in T
  <2>1. D(0) \subseteq {{}}
    BY <1>1, <1>2
  <2> DEFINE f == [s \in D(0) |-> 0]
  <2>2. f \in [D(0) -> Nat] /\ \A s \in D(0) : f[s] = Step(s, f)
    BY <2>1
  <2> QED  BY <2>2
<1>5. ASSUME NEW n \in T PROVE n + 1 \in T
  <2>1. PICK f \in [D(n) -> Nat] : \A s \in D(n) : f[s] = Step(s, f)
    BY <1>5
  <2> DEFINE g == [s \in D(n + 1) |-> Step(s, f)]
  <2>2. D(n) \subseteq D(n + 1)
    <3>1. \A s \in SUBSET S : Cardinality(s) <= n => Cardinality(s) <= n + 1
      BY <1>1
    <3> QED  BY <3>1
  <2>3. ASSUME NEW s \in D(n + 1) PROVE Step(s, f) \in Nat
    BY <1>3, <2>1, <2>3
  <2>4. \A s \in D(n) : g[s] = f[s]
    BY <2>1, <2>2
  <2>5. ASSUME NEW s \in D(n + 1) PROVE g[s] = Step(s, g)
    BY <1>3, <2>4, <2>5
  <2>6. g \in [D(n + 1) -> Nat]
    BY <2>3
  <2> HIDE DEF g
  <2>7. n + 1 \in Nat /\ \A s \in D(n + 1) : g[s] = Step(s, g)
    BY <2>5
  <2> QED  BY <2>6, <2>7
<1>6. T = Nat
  <2> HIDE DEF T
  <2>1. \A n \in T : n + 1 \in T
    BY <1>5
  <2>2. T \subseteq Nat
    BY DEF T
  <2> QED  BY <1>4, <2>1, <2>2, Induction
<1>7. Cardinality(S) \in Nat /\ D(Cardinality(S)) = SUBSET S
  BY <1>1, FS_Subset DEF Counts
<1>8. Cardinality(S) \in T
  BY <1>6, <1>7
<1>9. PICK f \in [SUBSET S -> Nat] : \A s \in SUBSET S : f[s] = Step(s, f)
  BY <1>7, <1>8
<1>10. f = [s \in SUBSET S |-> Step(s, f)]
  BY <1>9
<1> QED  BY <1>9, <1>10 DEF Sums

(* The sum of a set is what any such function, on it or on a larger set,   *)
(* gives.                                                                  *)
LEMMA SumsAgree ==
  ASSUME NEW S, Counts(S), NEW U \in SUBSET S, NEW f, Sums(S, f), NEW g, Sums(U, g)
  PROVE  \A s \in SUBSET U : f[s] = g[s]
<1> DEFINE T == {n \in Nat : \A s \in SUBSET U : Cardinality(s) = n => f[s] = g[s]}
<1>1. \A s \in SUBSET U : s \in SUBSET S /\ IsFiniteSet(s) /\ Cardinality(s) \in Nat
  BY FS_Subset, FS_CardinalityType DEF Counts
<1>2. \A s \in SUBSET U :
        /\ f[s] = IF s = {} THEN 0 ELSE Pick(s).bytes + f[s \ {Pick(s)}]
        /\ g[s] = IF s = {} THEN 0 ELSE Pick(s).bytes + g[s \ {Pick(s)}]
  BY <1>1 DEF Sums
<1>3. 0 \in T
  BY <1>1, <1>2, FS_EmptySet
<1>4. ASSUME NEW n \in T PROVE n + 1 \in T
  <2> SUFFICES ASSUME NEW s \in SUBSET U, Cardinality(s) = n + 1 PROVE f[s] = g[s]
      OBVIOUS
  <2>1. s # {}
    <3>1. n \in Nat
      OBVIOUS
    <3>2. Cardinality(s) # 0
      BY <3>1
    <3> QED  BY <3>2, FS_EmptySet
  <2>2. Pick(s) \in s /\ s \ {Pick(s)} \in SUBSET U
    BY <2>1, PickIs
  <2>3. Cardinality(s \ {Pick(s)}) = n
    BY <1>1, <2>2, OneLess
  <2> QED  BY <1>2, <1>4, <2>1, <2>2, <2>3
<1>5. T = Nat
  <2> HIDE DEF T
  <2>1. (\A n \in T : n + 1 \in T) /\ T \subseteq Nat
    BY <1>4 DEF T
  <2> QED  BY <1>3, <2>1, Induction
<1> QED  BY <1>1, <1>5

(* It does not matter which event is taken first.                          *)
LEMMA AnyFirst ==
  ASSUME NEW S, Counts(S), NEW f \in [SUBSET S -> Nat], Sums(S, f)
  PROVE  AnyOrder(S, f)
<1> DEFINE Free(s) == \A e \in s : f[s] = e.bytes + f[s \ {e}]
           T == {n \in Nat : \A s \in SUBSET S : Cardinality(s) = n => Free(s)}
<1>1. \A s \in SUBSET S : IsFiniteSet(s) /\ Cardinality(s) \in Nat
  BY FS_Subset, FS_CardinalityType DEF Counts
<1>2. \A s \in SUBSET S : s # {} => f[s] = Pick(s).bytes + f[s \ {Pick(s)}]
  BY DEF Sums
<1>3. 0 \in T
  BY <1>1, FS_EmptySet
<1>4. ASSUME NEW n \in T PROVE n + 1 \in T
  <2> SUFFICES ASSUME NEW s \in SUBSET S, Cardinality(s) = n + 1, NEW e \in s
               PROVE  f[s] = e.bytes + f[s \ {e}]
      OBVIOUS
  <2> DEFINE d == Pick(s)
  <2>1. d \in s /\ f[s] = d.bytes + f[s \ {d}]
    BY <1>2, PickIs
  <2>2. CASE d = e
    BY <2>1, <2>2
  <2>3. CASE d # e
    <3> HIDE DEF d
    <3>1. Cardinality(s \ {d}) = n /\ Cardinality(s \ {e}) = n
      BY <1>1, <2>1, OneLess
    <3>2. /\ s \ {d} \in SUBSET S /\ s \ {e} \in SUBSET S
          /\ e \in s \ {d} /\ d \in s \ {e}
          /\ (s \ {d}) \ {e} = (s \ {e}) \ {d} /\ (s \ {e}) \ {d} \in SUBSET S
      BY <2>1, <2>3
    <3>3. f[s \ {d}] = e.bytes + f[(s \ {d}) \ {e}]
      BY <1>4, <3>1, <3>2
    <3>4. f[s \ {e}] = d.bytes + f[(s \ {e}) \ {d}]
      BY <1>4, <3>1, <3>2
    <3>5. /\ e.bytes \in Nat /\ d.bytes \in Nat
          /\ f[(s \ {e}) \ {d}] \in Nat
      BY <2>1, <3>2 DEF Counts
    <3> DEFINE a == e.bytes
               b == d.bytes
               r == f[(s \ {e}) \ {d}]
               u == f[s \ {d}]
               v == f[s \ {e}]
    <3>6. a \in Nat /\ b \in Nat /\ r \in Nat /\ u = a + r /\ v = b + r
      BY <3>2, <3>3, <3>4, <3>5
    <3> HIDE DEF a, b, r, u, v
    <3>7. b + u = a + v
      BY <3>6
    <3> QED  BY <2>1, <3>7 DEF a, b, u, v
  <2> QED  BY <2>2, <2>3
<1>5. T = Nat
  <2> HIDE DEF T
  <2>1. (\A n \in T : n + 1 \in T) /\ T \subseteq Nat
    BY <1>4 DEF T
  <2> QED  BY <1>3, <2>1, Induction
<1> QED  BY <1>1, <1>5 DEF AnyOrder

(* So the bytes of a set are what such a function gives for it.            *)
LEMMA BytesAre ==
  ASSUME NEW S, Counts(S)
  PROVE  \E f \in [SUBSET S -> Nat] : Sums(S, f) /\ Bytes(S) = f[S]
<1> DEFINE f == CHOOSE g : Sums(S, g)
<1>1. Bytes(S) = f[S]
  BY DEF Bytes, MapThenSumSet, MapThenFoldSet, Sums, Pick
<1>2. PICK g : Sums(S, g) /\ g \in [SUBSET S -> Nat]
  BY SumsExist
<1>3. Sums(S, f)
  BY <1>2
<1> HIDE DEF f
<1>4. \A s \in SUBSET S : f[s] = g[s]
  BY <1>2, <1>3, SumsAgree
<1>5. f = [s \in SUBSET S |-> f[s]]
  BY <1>3, Zenon DEF Sums
<1>6. f \in [SUBSET S -> Nat]
  BY <1>2, <1>4, <1>5
<1> QED  BY <1>1, <1>3, <1>6

(* The bytes of no event are 0.                                            *)
LEMMA NoBytes == Bytes({}) = 0
<1>1. Counts({})
  BY FS_EmptySet DEF Counts
<1>2. PICK f \in [SUBSET {} -> Nat] : Sums({}, f) /\ Bytes({}) = f[{}]
  BY <1>1, BytesAre
<1> QED  BY <1>2 DEF Sums

(* One more event adds its bytes.                                          *)
LEMMA BytesAdd ==
  ASSUME NEW S, Counts(S), NEW e, e \notin S, e.bytes \in Nat
  PROVE  /\ Counts(S \union {e}) /\ Bytes(S) \in Nat
         /\ Bytes(S \union {e}) = Bytes(S) + e.bytes
<1> DEFINE T == S \union {e}
<1>1. Counts(T) /\ S \in SUBSET T /\ T \ {e} = S /\ e \in T /\ T \in SUBSET T
  BY FS_AddElement DEF Counts
<1> HIDE DEF T
<1>2. PICK f \in [SUBSET T -> Nat] : Sums(T, f) /\ Bytes(T) = f[T]
  BY <1>1, BytesAre
<1>3. PICK g \in [SUBSET S -> Nat] : Sums(S, g) /\ Bytes(S) = g[S]
  BY BytesAre
<1>4. f[T] = e.bytes + f[S]
  <2>1. AnyOrder(T, f)
    BY <1>1, <1>2, AnyFirst
  <2> QED  BY <1>1, <2>1 DEF AnyOrder
<1>5. f[S] = g[S]
  BY <1>1, <1>2, <1>3, SumsAgree
<1>6. g[S] \in Nat
  BY <1>3
<1>7. Bytes(T) = Bytes(S) + e.bytes
  BY <1>2, <1>3, <1>4, <1>5, <1>6
<1> QED  BY <1>1, <1>3, <1>6, <1>7 DEF T

-----------------------------------------------------------------------------
(* The totals.  A process has no entry because nothing was transferred for *)
(* it, or because the hash was full, which it stays.                       *)
Of(p, call) == {e \in events : e.pid = p /\ ops[e.op].call = call}

Agree(bytes, call) ==
  \A p \in Pids :
    IF p \in DOMAIN bytes
    THEN bytes[p] = Bytes(Of(p, call))
    ELSE Of(p, call) = {} \/ ~(Cardinality(DOMAIN bytes) < BytesSize)

Totals == Counts(events) /\ Agree(read_bytes, "read") /\ Agree(write_bytes, "write")

(* Part of what was submitted can be counted.                              *)
LEMMA PartCounts ==
  ASSUME Counts(events), NEW p, NEW call
  PROVE  Counts(Of(p, call))
<1>1. Of(p, call) \subseteq events
  BY DEF Of
<1> QED  BY <1>1, FS_Subset DEF Counts

(* Steps that transfer nothing submit the events of other calls, if any.   *)
LEMMA TotalsKept ==
  ASSUME Inv, Totals, UNCHANGED sums, \A n \in DOMAIN ops : ops'[n].call = ops[n].call,
         \/ events' = events
         \/ \E e \in Event : /\ e.op \in DOMAIN ops /\ ops[e.op].call \in TwoProbes
                             /\ events' = events \union {e}
  PROVE  Totals'
<1>1. \A e \in events : ops'[e.op].call = ops[e.op].call
  BY DEF Inv, EventsOK
<1>2. /\ Counts(events')
      /\ \A p : Of(p, "read")' = Of(p, "read") /\ Of(p, "write")' = Of(p, "write")
  <2>1. CASE events' = events
    BY <1>1, <2>1 DEF Of, Totals
  <2>2. ASSUME NEW e \in Event, e.op \in DOMAIN ops, ops[e.op].call \in TwoProbes,
               events' = events \union {e}
        PROVE  /\ Counts(events')
               /\ \A p : Of(p, "read")' = Of(p, "read") /\ Of(p, "write")' = Of(p, "write")
    <3>1. e.bytes \in Nat
      BY SyscallTracerAssumption DEF Event
    <3>2. Counts(events')
      BY <2>2, <3>1, FS_AddElement DEF Counts, Totals
    <3>3. ops'[e.op].call \notin {"read", "write"}
      BY <2>2 DEF TwoProbes
    <3>4. \A p : Of(p, "read")' = Of(p, "read") /\ Of(p, "write")' = Of(p, "write")
      BY <1>1, <2>2, <3>3 DEF Of
    <3> QED  BY <3>2, <3>4
  <2> QED  BY <2>1, <2>2
<1> QED  BY <1>2 DEF Totals, Agree, sums

(* Bytes are added to the entry of one process, unless the hash is full.   *)
LEMMA CountedIs ==
  ASSUME NEW bytes, Hash(bytes, Pids, Nat), NEW p \in Pids, NEW size \in Nat,
         NEW new, new = Counted(bytes, p, size)
  PROVE  /\ \A q \in Pids \ {p} : /\ q \in DOMAIN new <=> q \in DOMAIN bytes
                                  /\ q \in DOMAIN bytes => new[q] = bytes[q]
         /\ IF p \notin DOMAIN bytes /\ ~(Cardinality(DOMAIN bytes) < BytesSize)
            THEN new = bytes
            ELSE /\ p \in DOMAIN new
                 /\ new[p] = size + (IF p \in DOMAIN bytes THEN bytes[p] ELSE 0)
         /\ ~(Cardinality(DOMAIN bytes) < BytesSize) => DOMAIN new = DOMAIN bytes
<1> DEFINE value == size + (IF p \in DOMAIN bytes THEN bytes[p] ELSE 0)
<1>1. new = IF Has(bytes, p, BytesSize)
            THEN [y \in DOMAIN bytes \union {p} |-> IF y = p THEN value ELSE bytes[y]]
            ELSE bytes
  BY DEF Counted, Put
<1> HIDE DEF value
<1>2. CASE Has(bytes, p, BytesSize)
  <2>1. /\ DOMAIN new = DOMAIN bytes \union {p} /\ new[p] = value
        /\ \A q \in DOMAIN bytes \ {p} : new[q] = bytes[q]
    BY <1>1, <1>2
  <2>2. ~(Cardinality(DOMAIN bytes) < BytesSize) => p \in DOMAIN bytes
    BY <1>2 DEF Has
  <2> QED  BY <2>1, <2>2 DEF value
<1>3. CASE ~Has(bytes, p, BytesSize)
  <2>1. new = bytes
    BY <1>1, <1>3
  <2> QED  BY <1>3, <2>1 DEF Has
<1> QED  BY <1>2, <1>3

(* A transfer that is counted.                                             *)
LEMMA CountedAgrees ==
  ASSUME Totals, NEW call, NEW bytes, NEW new, Hash(bytes, Pids, Nat), Agree(bytes, call),
         NEW p \in Pids, NEW size \in Nat, new = Counted(bytes, p, size),
         NEW e, e \notin events, e.bytes = size,
         Of(p, call)' = Of(p, call) \union {e},
         \A q \in Pids \ {p} : Of(q, call)' = Of(q, call)
  PROVE  \A q \in Pids : IF q \in DOMAIN new
                         THEN new[q] = Bytes(Of(q, call)')
                         ELSE \/ Of(q, call)' = {}
                              \/ ~(Cardinality(DOMAIN new) < BytesSize)
<1> DEFINE full == ~(Cardinality(DOMAIN bytes) < BytesSize)
<1>1. /\ \A q \in Pids \ {p} : /\ q \in DOMAIN new <=> q \in DOMAIN bytes
                               /\ q \in DOMAIN bytes => new[q] = bytes[q]
      /\ IF p \notin DOMAIN bytes /\ full
         THEN new = bytes
         ELSE /\ p \in DOMAIN new
              /\ new[p] = size + (IF p \in DOMAIN bytes THEN bytes[p] ELSE 0)
      /\ full => DOMAIN new = DOMAIN bytes
  BY CountedIs
<1>2. \A q \in Pids : IF q \in DOMAIN bytes THEN bytes[q] = Bytes(Of(q, call))
                                            ELSE Of(q, call) = {} \/ full
  BY DEF Agree
<1>3. full => ~(Cardinality(DOMAIN new) < BytesSize)
  BY <1>1
<1>4. e \notin Of(p, call) /\ Counts(Of(p, call))
  <2>1. Of(p, call) \subseteq events
    BY DEF Of
  <2>2. Counts(events)
    BY DEF Totals
  <2> QED  BY <2>1, <2>2, PartCounts
<1>5. Bytes(Of(p, call)) \in Nat /\ Bytes(Of(p, call)') = Bytes(Of(p, call)) + size
  BY <1>4, BytesAdd
<1> HIDE DEF full
<1> SUFFICES ASSUME NEW q \in Pids
             PROVE  IF q \in DOMAIN new
                    THEN new[q] = Bytes(Of(q, call)')
                    ELSE \/ Of(q, call)' = {}
                         \/ ~(Cardinality(DOMAIN new) < BytesSize)
    OBVIOUS
<1>6. CASE q # p
  BY <1>1, <1>2, <1>3, <1>6
<1>7. CASE q = p /\ p \notin DOMAIN bytes /\ full
  BY <1>1, <1>3, <1>7
<1>8. CASE q = p /\ p \notin DOMAIN bytes /\ ~full
  <2>1. Of(p, call) = {}
    BY <1>2, <1>8
  <2>2. Bytes(Of(p, call)') = size /\ new[p] = size + 0 /\ p \in DOMAIN new
    BY <1>1, <1>5, <1>8, <2>1, NoBytes
  <2> QED  BY <1>8, <2>2
<1>9. CASE q = p /\ p \in DOMAIN bytes
  <2>1. bytes[p] = Bytes(Of(p, call)) /\ new[p] = size + bytes[p] /\ p \in DOMAIN new
    BY <1>1, <1>2, <1>9
  <2> DEFINE b == Bytes(Of(p, call))
             sum == Bytes(Of(p, call)')
  <2>2. b \in Nat /\ sum = b + size /\ new[p] = size + b
    BY <1>5, <2>1
  <2> HIDE DEF b, sum
  <2>3. new[p] = sum
    BY <2>2
  <2> QED  BY <1>9, <2>1, <2>3 DEF sum
<1> QED  BY <1>6, <1>7, <1>8, <1>9

(* A read or a write: its event is new, and is counted for its process.    *)
LEMMA TransferCounts ==
  ASSUME Inv, Totals, NEW id \in Ids, NEW call \in {"read", "write"},
         NEW size \in 1 .. MaxBytes, Transfer(id, call, size)
  PROVE  Totals'
<1> DEFINE n == Len(ops) + 1
           p == PidOf[id]
           e == [op |-> n, from |-> n, pid |-> p, bytes |-> size]
           hit == On(IF call = "read" THEN "exit_read" ELSE "exit_write")
<1>0. /\ Hash(read_bytes, Pids, Nat) /\ Hash(write_bytes, Pids, Nat)
      /\ p \in Pids /\ size \in Nat
      /\ \A d \in events : d.op \in DOMAIN ops
      /\ DOMAIN ops = 1 .. Len(ops) /\ Len(ops) \in Nat
  BY SyscallTracerAssumption DEF Inv, SumsOK, EventsOK, OpsOK
<1>1. ops'[n].call = call /\ \A m \in DOMAIN ops : ops'[m] = ops[m]
  BY TransferKeeps
<1>2. CASE ~hit
  <2>1. UNCHANGED sums /\ events' = events
    BY <1>2 DEF Transfer, sums
  <2> QED  BY <1>1, <2>1, TotalsKept
<1>3. CASE hit
  <2>1. /\ events' = events \union {e}
        /\ read_bytes' = IF call = "read" THEN Counted(read_bytes, p, size) ELSE read_bytes
        /\ write_bytes' = IF call = "write" THEN Counted(write_bytes, p, size) ELSE write_bytes
    BY <1>3 DEF Transfer
  <2>2. e.op = n /\ e.pid = p /\ e.bytes = size /\ n \notin DOMAIN ops
    BY <1>0
  <2>3. e \notin events
    BY <1>0, <2>2
  <2> HIDE DEF e, n, hit
  <2>4. Counts(events')
    BY <1>0, <2>1, <2>2, FS_AddElement DEF Counts, Totals
  <2>5. \A d \in events : ops'[d.op].call = ops[d.op].call
    BY <1>0, <1>1
  <2>6. /\ Of(p, call)' = Of(p, call) \union {e}
        /\ \A q \in Pids \ {p} : Of(q, call)' = Of(q, call)
        /\ \A q, other : other # call => Of(q, other)' = Of(q, other)
    BY <1>1, <2>1, <2>2, <2>5 DEF Of
  <2>7. CASE call = "read"
    <3>1. Agree(read_bytes, "read")'
      <4>1. \A q \in Pids : IF q \in DOMAIN read_bytes'
                            THEN read_bytes'[q] = Bytes(Of(q, "read")')
                            ELSE \/ Of(q, "read")' = {}
                                 \/ ~(Cardinality(DOMAIN read_bytes') < BytesSize)
        <5>1. /\ Agree(read_bytes, "read") /\ read_bytes' = Counted(read_bytes, p, size)
              /\ Of(p, "read")' = Of(p, "read") \union {e}
              /\ \A q \in Pids \ {p} : Of(q, "read")' = Of(q, "read")
          BY <2>1, <2>6, <2>7 DEF Totals
        <5> HIDE DEF p
        <5> QED  BY <1>0, <2>2, <2>3, <5>1, CountedAgrees
      <4> QED  BY <4>1 DEF Agree
    <3>2. Agree(write_bytes, "write")'
      BY <2>1, <2>6, <2>7 DEF Agree, Totals
    <3> QED  BY <2>4, <3>1, <3>2 DEF Totals
  <2>8. CASE call = "write"
    <3>1. Agree(write_bytes, "write")'
      <4>1. \A q \in Pids : IF q \in DOMAIN write_bytes'
                            THEN write_bytes'[q] = Bytes(Of(q, "write")')
                            ELSE \/ Of(q, "write")' = {}
                                 \/ ~(Cardinality(DOMAIN write_bytes') < BytesSize)
        <5>1. /\ Agree(write_bytes, "write") /\ write_bytes' = Counted(write_bytes, p, size)
              /\ Of(p, "write")' = Of(p, "write") \union {e}
              /\ \A q \in Pids \ {p} : Of(q, "write")' = Of(q, "write")
          BY <2>1, <2>6, <2>8 DEF Totals
        <5> HIDE DEF p
        <5> QED  BY <1>0, <2>2, <2>3, <5>1, CountedAgrees
      <4> QED  BY <4>1 DEF Agree
    <3>2. Agree(read_bytes, "read")'
      BY <2>1, <2>6, <2>8 DEF Agree, Totals
    <3> QED  BY <2>4, <3>1, <3>2 DEF Totals
  <2> QED  BY <2>7, <2>8
<1> QED  BY <1>2, <1>3

(* A call that returns keeps its name, and its event, if any, is its own.  *)
LEMMA ExitCounts ==
  ASSUME Inv, Totals, NEW id \in Ids, NEW target \in Ids, op[id] # 0,
         NEW end, ops' = [ops EXCEPT ![op[id]].end = end], UNCHANGED sums,
         Exit(op[id], target)
  PROVE  Totals'
<1> DEFINE n == op[id]
<1>1. /\ n \in DOMAIN ops /\ ops[n].call \in TwoProbes /\ n \in 1 .. MaxOps
      /\ ops \in Seq(Call)
  <2>1. /\ n \in DOMAIN ops /\ ops[n].call \in TwoProbes /\ ops \in Seq(Call)
        /\ Len(ops) <= MaxOps
    BY DEF Inv, OpsOK
  <2>2. MaxOps \in Nat
    BY SyscallTracerAssumption
  <2> QED  BY <2>1, <2>2
<1>2. \A m \in DOMAIN ops : ops'[m].call = ops[m].call
  <2>1. \A m \in DOMAIN ops : ops[m] \in Call
    BY <1>1
  <2>2. ops' = [ops EXCEPT ![n] = [ops[n] EXCEPT !.end = end]]
    OBVIOUS
  <2>3. [ops[n] EXCEPT !.end = end].call = ops[n].call
    BY <1>1, <2>1 DEF Call
  <2> HIDE DEF n
  <2> QED  BY <1>1, <2>2, <2>3
<1>3. \/ events' = events
      \/ \E e \in Event : /\ e.op \in DOMAIN ops /\ ops[e.op].call \in TwoProbes
                          /\ events' = events \union {e}
  <2>1. CASE events' # events
    <3> DEFINE e == [op |-> n, from |-> infotbl[target], pid |-> PidOf[target], bytes |-> 0]
    <3>1. events' = events \union {e} /\ target \in DOMAIN infotbl
      BY <2>1 DEF Exit
    <3>2. infotbl[target] \in 1 .. MaxOps
      <4>1. infotbl[target] \in DOMAIN ops /\ Len(ops) <= MaxOps /\ ops \in Seq(Call)
        BY <3>1 DEF Inv, TableOK, OpsOK
      <4> QED  BY <4>1, SyscallTracerAssumption
    <3>3. e \in Event /\ e.op = n
      BY <1>1, <3>2, SyscallTracerAssumption DEF Event
    <3> HIDE DEF e
    <3> QED  BY <1>1, <3>1, <3>3
  <2> QED  BY <2>1
<1> QED  BY <1>2, <1>3, TotalsKept

(* The totals of a process that has an entry are the bytes of its events.  *)
THEOREM TotalsAreTheEvents == Spec => []TotalsMatchEvents
<1>1. Init => Totals
  <2> SUFFICES ASSUME Init PROVE Totals
      OBVIOUS
  <2>1. events = {} /\ read_bytes = <<>> /\ write_bytes = <<>>
    BY DEF Init
  <2>2. DOMAIN read_bytes = {} /\ DOMAIN write_bytes = {}
    BY <2>1
  <2>3. Counts(events) /\ \A p, call : Of(p, call) = {}
    BY <2>1, FS_EmptySet DEF Counts, Of
  <2> QED  BY <2>2, <2>3 DEF Totals, Agree
<1>2. Ind /\ Totals /\ [Next]_vars => Totals'
  <2> SUFFICES ASSUME Inv, Totals, [Next]_vars PROVE Totals'
      BY DEF Ind
  <2>1. CASE UNCHANGED <<ops, sums, events>>
    BY <2>1, TotalsKept
  <2>2. ASSUME NEW id \in Ids, NEW call \in {"openat", "execve"}, Enter(id, call)
        PROVE  Totals'
    <3>1. UNCHANGED <<sums, events>>
      BY <2>2 DEF Enter
    <3>2. \A m \in DOMAIN ops : ops'[m] = ops[m]
      <4> DEFINE new == [call |-> call, id |-> id, probes |-> attached, end |-> ""]
      <4>1. ops' = Append(ops, new) /\ Len(ops) < MaxOps
        BY <2>2 DEF Enter, Begun
      <4>2. OpsOK /\ new \in Call
        BY DEF Inv, OpsOK, Call
      <4> HIDE DEF new
      <4> QED  BY <4>1, <4>2, BegunIs
    <3> QED  BY <3>1, <3>2, TotalsKept
  <2>3. ASSUME NEW id \in Ids, Return(id) PROVE Totals'
    BY <2>3, ExitCounts DEF Return
  <2>4. ASSUME NEW id \in Ids, Exec(id) PROVE Totals'
    BY <2>4, ExitCounts, SyscallTracerAssumption DEF Exec
  <2>5. ASSUME NEW id \in Ids, NEW call \in {"read", "write"}, NEW size \in 1 .. MaxBytes,
               Transfer(id, call, size)
        PROVE  Totals'
    BY <2>5, TransferCounts
  <2> QED  BY <2>1, <2>2, <2>3, <2>4, <2>5 DEF Next, Attach, Spawn, ThreadEnds, vars
<1>3. Ind /\ Totals => TotalsMatchEvents
  <2> SUFFICES ASSUME Ind, Totals PROVE TotalsMatchEvents
      OBVIOUS
  <2>1. \A p, call : EventBytes(p, call) = Bytes(Of(p, call))
    BY DEF EventBytes, Bytes, Of
  <2>2. DOMAIN read_bytes \subseteq Pids /\ DOMAIN write_bytes \subseteq Pids
    BY DEF Ind, Inv, SumsOK, Hash
  <2> QED  BY <2>1, <2>2 DEF Totals, Agree, TotalsMatchEvents
<1> QED  BY <1>1, <1>2, <1>3, IndHolds, PTL DEF Spec
=============================================================================
