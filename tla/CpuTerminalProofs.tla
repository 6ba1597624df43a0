--------------------------- MODULE CpuTerminalProofs ---------------------------
(***************************************************************************)
(* Two parts of the command line.  First the kernel side of                *)
(* cpu_profiler.py: the invariants of CpuProfiler for any tasks,           *)
(* processors, sizes of the hashes and lengths of a run.  Then the         *)
(* programs of the terminal, of which cpu_profiler.py is one: the          *)
(* invariants of Terminal for any deadline, interval, size of the rings    *)
(* and number of events and signals.  The two share no constant and no     *)
(* variable, and no theorem of one rests on the other.                     *)
(***************************************************************************)
EXTENDS CpuProfiler, Terminal, FiniteSetTheorems, TLAPS

-----------------------------------------------------------------------------
(* CpuProfiler.                                                            *)

Probing == On("sched_switch")

(* A processor runs a task, and a task runs on one processor at most.      *)
KernelOK ==
  /\ state \in [Tasks -> {"free", "asleep", "ready", "running"}]
  /\ cur \in [Cpus -> Tasks \union {Idle}]
  /\ \A c, d \in Cpus : cur[c] = cur[d] /\ cur[c] # Idle => c = d
  /\ \A t \in Tasks : state[t] = "running" <=> \E c \in Cpus : cur[c] = t

(* No time stamp lies in the future.                                       *)
HashesOK ==
  /\ attached \in 0 .. Len(Probes) /\ clock \in Times
  /\ Hash(enqueue_ts, BootTime .. clock) /\ Hash(start_offcpu, BootTime .. clock)
  /\ Hash(oncpu_ns, Nat) /\ Hash(offcpu_ns, Nat)
  /\ onSince \in [Tasks -> (BootTime .. clock) \union {0}]
  /\ away \in [Tasks -> 0 .. clock - BootTime]
  /\ reused \subseteq left /\ left \subseteq Tasks /\ refused \subseteq Tasks

(* What only the switch handler writes is empty before it is attached.     *)
BeforeProbing ==
  ~Probing =>
    /\ DOMAIN start_offcpu = {} /\ DOMAIN oncpu_ns = {} /\ DOMAIN offcpu_ns = {}
    /\ left = {} /\ \A t \in Tasks : onSince[t] = 0 /\ away[t] = 0

(* A wake-up that is not in the histogram is in enqueue_ts, or lost.       *)
WakeupsOK ==
  /\ runq_lat \in Nat /\ wakeups \in 0 .. MaxWakeups
  /\ runq_lat + Cardinality(DOMAIN enqueue_ts) <= wakeups

(* Only a pid that was seen to leave, and does not run, has its time of    *)
(* leaving, and a task that was refused none has it while it is off.       *)
OffOK ==
  \A t \in Tasks :
    /\ t \in DOMAIN start_offcpu => state[t] # "running" /\ t \in left
    /\ t \notin refused \union reused /\ Off(t) => t \in DOMAIN start_offcpu

(* What is accounted for a task lies before the time stamp that its next   *)
(* share will be measured from.                                            *)
Accounted(t) == Value(oncpu_ns, t) + Value(offcpu_ns, t)

SharesOK ==
  \A t \in Tasks :
    /\ Accounted(t) <= clock - BootTime
    /\ t \in DOMAIN start_offcpu => Accounted(t) <= start_offcpu[t] - BootTime
    /\ t \in DOMAIN enqueue_ts /\ state[t] = "running" =>
         Accounted(t) <= enqueue_ts[t] - BootTime

(* The entry of a running task in enqueue_ts is of this run, if the switch *)
(* handler has seen it begin: it has deleted the one before.               *)
RunsOK ==
  \A t \in Tasks :
    t \in DOMAIN enqueue_ts /\ state[t] = "running" /\ onSince[t] # 0 =>
      enqueue_ts[t] >= onSince[t]

Ind ==
  /\ KernelOK /\ HashesOK /\ BeforeProbing /\ WakeupsOK /\ OffOK
  /\ OffCpuExact /\ SharesOK /\ RunsOK

-----------------------------------------------------------------------------
(* A deletion leaves the other entries of a hash.                          *)
LEMMA DeleteIs ==
  ASSUME NEW map, NEW t
  PROVE  /\ DOMAIN Delete(map, t) = DOMAIN map \ {t}
         /\ \A u \in DOMAIN map \ {t} : Delete(map, t)[u] = map[u]
BY DEF Delete, Restrict

(* An addition to a hash counts, unless the entry is new and it is full.   *)
LEMMA AddIs ==
  ASSUME NEW map, Hash(map, Nat), NEW t \in Tasks, NEW delta \in Nat
  PROVE  /\ Hash(Add(map, t, delta), Nat)
         /\ \A u : Value(Add(map, t, delta), u) =
              IF u = t /\ HasRoom(map, t) THEN Value(map, t) + delta ELSE Value(map, u)
<1>1. Value(map, t) \in Nat /\ Value(map, t) + delta \in Nat
  BY DEF Value, Hash
<1> DEFINE new == Value(map, t) + delta
<1> HIDE DEF new
<1>2. /\ DOMAIN Put(map, t, new) =
           IF HasRoom(map, t) THEN DOMAIN map \union {t} ELSE DOMAIN map
      /\ \A u \in DOMAIN Put(map, t, new) :
           Put(map, t, new)[u] = IF u = t THEN new ELSE map[u]
  BY DEF Put, HasRoom
<1>3. Add(map, t, delta) = Put(map, t, new)
  BY DEF Add, new
<1>4. new \in Nat
  BY <1>1 DEF new
<1>5. Hash(Add(map, t, delta), Nat)
  <2>1. DOMAIN map \subseteq Tasks /\ \A u \in DOMAIN map : map[u] \in Nat
    BY DEF Hash
  <2>2. DOMAIN Put(map, t, new) \subseteq Tasks
    BY <1>2, <2>1
  <2>3. \A u \in DOMAIN Put(map, t, new) : Put(map, t, new)[u] \in Nat
    <3> SUFFICES ASSUME NEW u \in DOMAIN Put(map, t, new)
                 PROVE  Put(map, t, new)[u] \in Nat
        OBVIOUS
    <3>1. u # t => u \in DOMAIN map
      BY <1>2
    <3> QED  BY <1>2, <1>4, <2>1, <3>1
  <2> QED  BY <1>3, <2>2, <2>3 DEF Hash
<1>6. ASSUME NEW u
      PROVE  Value(Add(map, t, delta), u) =
               IF u = t /\ HasRoom(map, t) THEN new ELSE Value(map, u)
  <2>1. CASE HasRoom(map, t)
    BY <1>2, <1>3, <2>1 DEF Value
  <2>2. CASE ~HasRoom(map, t)
    BY <2>2, <1>2, <1>3 DEF Value, HasRoom, Put
  <2> QED  BY <2>1, <2>2
<1> QED  BY <1>5, <1>6 DEF new

-----------------------------------------------------------------------------
(* The scheduler keeps its own order, whoever watches.                     *)
LEMMA SwitchKeepsKernel ==
  ASSUME KernelOK, Idle \notin Tasks,
         NEW c \in Cpus, NEW next \in Tasks \union {Idle}, SchedSwitch(c, next)
  PROVE  /\ KernelOK'
         /\ next # Idle => state[next] = "ready" /\ state'[next] = "running"
         /\ cur[c] # Idle => state[cur[c]] = "running" /\ state'[cur[c]] # "running"
         /\ \A t \in Tasks \ {next, cur[c]} : state'[t] = state[t]
<1> DEFINE prev == cur[c]
<1>1. prev \in Tasks \union {Idle} /\ prev # next /\ (next # Idle => state[next] = "ready")
  BY DEF KernelOK, SchedSwitch
<1>2. PICK s \in {"asleep", "ready", "free"} :
        state' = [t \in Tasks |-> CASE t = next -> "running"
                                    [] t = prev -> s
                                    [] OTHER -> state[t]]
  BY DEF SchedSwitch
<1>3. cur' = [cur EXCEPT ![c] = next]
  BY DEF SchedSwitch
<1> HIDE DEF prev
<1>4. \A t \in Tasks : /\ t = next => state'[t] = "running"
                       /\ t = prev => state'[t] = s
                       /\ t \notin {next, prev} => state'[t] = state[t]
  BY <1>1, <1>2
<1>5. cur' \in [Cpus -> Tasks \union {Idle}]
  BY <1>3 DEF KernelOK
<1>6. state' \in [Tasks -> {"free", "asleep", "ready", "running"}]
  <2>1. \A t \in Tasks : state'[t] \in {"free", "asleep", "ready", "running"}
    BY <1>4 DEF KernelOK
  <2> QED  BY <1>2, <2>1
<1>7. cur'[c] = next /\ \A d \in Cpus \ {c} : cur'[d] = cur[d]
  BY <1>3 DEF KernelOK
<1>8. prev # Idle => state[prev] = "running"
  BY <1>1 DEF KernelOK, prev
<1>9. \A d \in Cpus \ {c} : cur[d] # next \/ next = Idle
  BY <1>1 DEF KernelOK
<1>10. \A d, e \in Cpus : cur'[d] = cur'[e] /\ cur'[d] # Idle => d = e
  BY <1>7, <1>9 DEF KernelOK
<1>11. ASSUME NEW t \in Tasks
       PROVE  state'[t] = "running" <=> \E d \in Cpus : cur'[d] = t
  <2>1. CASE t = next
    BY <1>4, <1>7, <2>1
  <2>2. CASE t = prev
    <3>1. \A d \in Cpus \ {c} : cur[d] # prev
      BY <1>1, <2>2 DEF KernelOK, prev
    <3> QED  BY <1>1, <1>4, <1>7, <2>2, <3>1
  <2>3. CASE t \notin {next, prev}
    BY <1>4, <1>7, <2>3 DEF KernelOK, prev
  <2> QED  BY <2>1, <2>2, <2>3
<1>12. KernelOK'
  BY <1>5, <1>6, <1>10, <1>11 DEF KernelOK
<1> QED  BY <1>1, <1>4, <1>8, <1>12 DEF prev

(* What the switch handler does to the hashes, task by task.               *)
LEMMA SwitchProbeIs ==
  ASSUME KernelOK, HashesOK, OffOK,
         NEW c \in Cpus, NEW next \in Tasks \union {Idle}, cur[c] # next,
         next # Idle => state[next] # "running",
         SwitchProbe(cur[c], next)
  PROVE  /\ Hash(oncpu_ns', Nat) /\ Hash(offcpu_ns', Nat)
         /\ DOMAIN enqueue_ts' = DOMAIN enqueue_ts \ {next}
         /\ \A t \in DOMAIN enqueue_ts' : enqueue_ts'[t] = enqueue_ts[t]
         /\ next \notin DOMAIN start_offcpu'
         /\ \A t \in Tasks \ {next, cur[c]} :
              t \in DOMAIN start_offcpu' <=> t \in DOMAIN start_offcpu
         /\ cur[c] # Idle =>
              cur[c] \in DOMAIN start_offcpu' <=> HasRoom(start_offcpu, cur[c])
         /\ DOMAIN start_offcpu' \subseteq Tasks
         /\ \A t \in DOMAIN start_offcpu' :
              start_offcpu'[t] = IF t = cur[c] THEN clock ELSE start_offcpu[t]
         /\ \A t \in Tasks : Value(oncpu_ns', t) =
              IF t = cur[c] /\ t \in DOMAIN enqueue_ts /\ HasRoom(oncpu_ns, t)
              THEN Value(oncpu_ns, t) + (clock - enqueue_ts[t]) ELSE Value(oncpu_ns, t)
         /\ \A t \in Tasks : Value(offcpu_ns', t) =
              IF t = next /\ t \in DOMAIN start_offcpu /\ HasRoom(offcpu_ns, t)
              THEN Value(offcpu_ns, t) + (clock - start_offcpu[t]) ELSE Value(offcpu_ns, t)
<1> DEFINE prev == cur[c]
<1>1. prev \in Tasks \union {Idle} /\ prev # next /\ Idle \notin Tasks
  BY CpuProfilerAssumption DEF KernelOK
<1>2. prev # Idle => prev \in Tasks /\ state[prev] = "running"
  BY <1>1 DEF KernelOK
<1> HIDE DEF prev
<1>3. SwitchProbe(prev, next)
  BY DEF prev
<1>4. Hash(oncpu_ns, Nat) /\ Hash(offcpu_ns, Nat) /\ clock \in Nat /\ BootTime \in Nat
      /\ Hash(enqueue_ts, BootTime .. clock) /\ Hash(start_offcpu, BootTime .. clock)
  BY CpuProfilerAssumption DEF HashesOK, Times
<1>5. /\ DOMAIN enqueue_ts' = DOMAIN enqueue_ts \ {next}
      /\ \A t \in DOMAIN enqueue_ts' : enqueue_ts'[t] = enqueue_ts[t]
  <2>1. enqueue_ts' = Delete(enqueue_ts, next)
    BY <1>3 DEF SwitchProbe, Dequeued
  <2> QED  BY <2>1, DeleteIs
<1>6. /\ next \notin DOMAIN start_offcpu'
      /\ \A t \in Tasks \ {next, prev} :
           t \in DOMAIN start_offcpu' <=> t \in DOMAIN start_offcpu
      /\ prev # Idle => prev \in DOMAIN start_offcpu' <=> HasRoom(start_offcpu, prev)
      /\ DOMAIN start_offcpu' \subseteq Tasks
      /\ \A t \in DOMAIN start_offcpu' :
           start_offcpu'[t] = IF t = prev THEN clock ELSE start_offcpu[t]
  <2>1. start_offcpu' = Delete(Left(prev), next)
    BY <1>3 DEF SwitchProbe, Returned
  <2>2. /\ DOMAIN start_offcpu' = DOMAIN Left(prev) \ {next}
        /\ \A t \in DOMAIN Left(prev) \ {next} : start_offcpu'[t] = Left(prev)[t]
    BY <2>1, DeleteIs
  <2>3. CASE prev = Idle
    <3>1. Left(prev) = start_offcpu
      BY <2>3 DEF Left
    <3> QED  BY <1>1, <1>4, <2>2, <2>3, <3>1 DEF Hash
  <2>4. CASE prev # Idle
    <3>1. Left(prev) = Put(start_offcpu, prev, clock)
      BY <2>4 DEF Left
    <3>2. prev \in Tasks /\ prev \notin DOMAIN start_offcpu
      BY <1>2, <2>4 DEF OffOK
    <3>4. DOMAIN start_offcpu \subseteq Tasks
      BY <1>4 DEF Hash
    <3>3. /\ DOMAIN Left(prev) = IF HasRoom(start_offcpu, prev)
                                 THEN DOMAIN start_offcpu \union {prev}
                                 ELSE DOMAIN start_offcpu
          /\ \A t \in DOMAIN Left(prev) :
               Left(prev)[t] = IF t = prev THEN clock ELSE start_offcpu[t]
      BY <3>1 DEF Put, HasRoom
    <3>5. DOMAIN start_offcpu' = DOMAIN Left(prev) \ {next}
          /\ \A t \in DOMAIN start_offcpu' :
               start_offcpu'[t] = IF t = prev THEN clock ELSE start_offcpu[t]
      BY <2>2, <3>3
    <3>6. DOMAIN start_offcpu' \subseteq Tasks
      BY <3>2, <3>3, <3>4, <3>5
    <3> QED  BY <1>1, <3>2, <3>3, <3>5, <3>6
  <2> QED  BY <2>3, <2>4
<1>7. /\ Hash(oncpu_ns', Nat)
      /\ \A t \in Tasks : Value(oncpu_ns', t) =
           IF t = prev /\ t \in DOMAIN enqueue_ts /\ HasRoom(oncpu_ns, t)
           THEN Value(oncpu_ns, t) + (clock - enqueue_ts[t]) ELSE Value(oncpu_ns, t)
  <2>1. CASE prev \in DOMAIN enqueue_ts
    <3>1. oncpu_ns' = Add(oncpu_ns, prev, clock - enqueue_ts[prev])
      BY <1>3, <2>1 DEF SwitchProbe, OnCpu
    <3>2. prev \in Tasks /\ clock - enqueue_ts[prev] \in Nat
      BY <1>4, <2>1 DEF Hash
    <3> QED  BY <1>4, <2>1, <3>1, <3>2, AddIs
  <2>2. CASE prev \notin DOMAIN enqueue_ts
    BY <1>3, <1>4, <2>2 DEF SwitchProbe, OnCpu
  <2> QED  BY <2>1, <2>2
<1>8. /\ Hash(offcpu_ns', Nat)
      /\ \A t \in Tasks : Value(offcpu_ns', t) =
           IF t = next /\ t \in DOMAIN start_offcpu /\ HasRoom(offcpu_ns, t)
           THEN Value(offcpu_ns, t) + (clock - start_offcpu[t]) ELSE Value(offcpu_ns, t)
  <2>1. CASE next \in DOMAIN start_offcpu
    <3>1. offcpu_ns' = Add(offcpu_ns, next, clock - start_offcpu[next])
      BY <1>3, <2>1 DEF SwitchProbe, OffCpu
    <3>2. next \in Tasks /\ clock - start_offcpu[next] \in Nat
      BY <1>4, <2>1 DEF Hash
    <3> QED  BY <1>4, <2>1, <3>1, <3>2, AddIs
  <2>2. CASE next \notin DOMAIN start_offcpu
    BY <1>3, <1>4, <2>2 DEF SwitchProbe, OffCpu
  <2> QED  BY <2>1, <2>2
<1> QED  BY <1>5, <1>6, <1>7, <1>8 DEF prev

-----------------------------------------------------------------------------
(* Before any probe there is nothing to get wrong.                         *)
LEMMA InitInd == Init => Ind
<1> SUFFICES ASSUME Init PROVE Ind
    OBVIOUS
<1>1. /\ attached = 0 /\ clock = BootTime /\ runq_lat = 0 /\ wakeups = 0
      /\ refused = {} /\ left = {} /\ reused = {}
      /\ DOMAIN enqueue_ts = {} /\ DOMAIN start_offcpu = {}
      /\ DOMAIN oncpu_ns = {} /\ DOMAIN offcpu_ns = {}
      /\ onSince = [t \in Tasks |-> 0] /\ away = [t \in Tasks |-> 0]
  BY DEF Init
<1>2. BootTime \in Nat /\ MaxTime \in Nat /\ BootTime <= MaxTime /\ MaxWakeups \in Nat
  BY CpuProfilerAssumption
<1>3. KernelOK
  BY DEF Init, KernelOK
<1>4. HashesOK
  BY <1>1, <1>2 DEF HashesOK, Hash, Times, Probes
<1>5. BeforeProbing
  BY <1>1 DEF BeforeProbing
<1>6. WakeupsOK
  BY <1>1, <1>2, FS_EmptySet DEF WakeupsOK
<1>7. \A t \in Tasks : Value(oncpu_ns, t) = 0 /\ Value(offcpu_ns, t) = 0
  BY <1>1 DEF Value
<1>8. OffOK /\ RunsOK
  BY <1>1 DEF OffOK, RunsOK, Off
<1>9. OffCpuExact /\ SharesOK
  BY <1>1, <1>2, <1>7 DEF OffCpuExact, OffTime, Off, SharesOK, Accounted
<1> QED  BY <1>3, <1>4, <1>5, <1>6, <1>8, <1>9 DEF Ind

(* What the constants and the stamps are, for arithmetic.                  *)
LEMMA Numbers ==
  ASSUME Ind
  PROVE  /\ BootTime \in Nat /\ MaxTime \in Nat /\ clock \in Nat
         /\ BootTime <= clock /\ clock <= MaxTime
         /\ \A t \in DOMAIN enqueue_ts : enqueue_ts[t] \in BootTime .. clock
         /\ \A t \in DOMAIN start_offcpu : start_offcpu[t] \in BootTime .. clock
         /\ \A t \in Tasks : /\ Value(oncpu_ns, t) \in Nat /\ Value(offcpu_ns, t) \in Nat
                             /\ onSince[t] \in Nat /\ onSince[t] <= clock
                             /\ away[t] \in Nat /\ away[t] <= clock - BootTime
<1>1. BootTime \in Nat /\ MaxTime \in Nat /\ BootTime <= MaxTime
  BY CpuProfilerAssumption
<1>2. clock \in Nat /\ BootTime <= clock /\ clock <= MaxTime
  BY <1>1 DEF Ind, HashesOK, Times
<1>3. \A t \in Tasks : /\ onSince[t] \in Nat /\ onSince[t] <= clock
                      /\ away[t] \in Nat /\ away[t] <= clock - BootTime
  BY <1>1, <1>2 DEF Ind, HashesOK
<1>4. /\ \A t \in DOMAIN enqueue_ts : enqueue_ts[t] \in BootTime .. clock
      /\ \A t \in DOMAIN start_offcpu : start_offcpu[t] \in BootTime .. clock
      /\ \A t \in Tasks : Value(oncpu_ns, t) \in Nat /\ Value(offcpu_ns, t) \in Nat
  BY DEF Ind, HashesOK, Hash, Value
<1> QED  BY <1>1, <1>2, <1>3, <1>4

(* A probe more.                                                           *)
LEMMA AttachKeeps == Ind /\ Attach => Ind'
<1> SUFFICES ASSUME Ind, Attach PROVE Ind'
    OBVIOUS
<1>1. /\ UNCHANGED <<clock, kernel, maps, history>> /\ attached' = attached + 1
      /\ attached' \in 0 .. Len(Probes) /\ attached \in Nat
  BY DEF Attach, Ind, HashesOK, Probes
<1>2. KernelOK' /\ HashesOK' /\ WakeupsOK' /\ OffOK' /\ RunsOK'
  BY <1>1 DEF Ind, KernelOK, HashesOK, WakeupsOK, OffOK, Off, RunsOK, Hash, Times,
              kernel, maps, history
<1>3. OffCpuExact' /\ SharesOK'
  BY <1>1 DEF Ind, OffCpuExact, OffTime, Off, SharesOK, Accounted, Value, kernel,
              maps, history
<1>4. Probing => Probing'
  BY <1>1 DEF Probing, On
<1>5. BeforeProbing'
  BY <1>1, <1>4 DEF Ind, BeforeProbing, maps, history
<1> QED  BY <1>2, <1>3, <1>5 DEF Ind

(* Time passes: who is away, is away longer, and so is the time since then.*)
LEMMA TickKeeps == Ind /\ Tick => Ind'
<1> SUFFICES ASSUME Ind, Tick PROVE Ind'
    OBVIOUS
<1>1. /\ clock' = clock + 1 /\ clock < MaxTime
      /\ UNCHANGED <<attached, state, cur, enqueue_ts, start_offcpu, oncpu_ns, offcpu_ns,
                     runq_lat, wakeups, onSince, left, reused, refused>>
      /\ away' = [t \in Tasks |-> IF Off(t) THEN away[t] + 1 ELSE away[t]]
  BY DEF Tick, kernel, maps
<1>2. /\ \A t \in Tasks : away'[t] = IF Off(t) THEN away[t] + 1 ELSE away[t]
      /\ \A t \in Tasks : Off(t)' = Off(t)
  BY <1>1 DEF Off
<1>3. KernelOK' /\ WakeupsOK' /\ RunsOK'
  BY <1>1 DEF Ind, KernelOK, WakeupsOK, RunsOK
<1>4. HashesOK'
  <2>1. clock' \in Times' /\ attached' \in 0 .. Len(Probes)
    BY <1>1, Numbers DEF Ind, HashesOK, Times
  <2>2. /\ Hash(enqueue_ts', BootTime .. clock') /\ Hash(start_offcpu', BootTime .. clock')
        /\ Hash(oncpu_ns', Nat) /\ Hash(offcpu_ns', Nat)
        /\ reused' \subseteq left' /\ left' \subseteq Tasks /\ refused' \subseteq Tasks
    BY <1>1, Numbers DEF Ind, HashesOK, Hash
  <2>3. onSince' \in [Tasks -> (BootTime .. clock') \union {0}]
    <3>1. \A t \in Tasks : onSince[t] \in (BootTime .. clock') \union {0}
      BY <1>1, Numbers DEF Ind, HashesOK
    <3> QED  BY <1>1, <3>1 DEF Ind, HashesOK
  <2>4. away' \in [Tasks -> 0 .. clock' - BootTime]
    <3>1. \A t \in Tasks : away'[t] \in 0 .. clock' - BootTime
      BY <1>1, <1>2, Numbers
    <3> QED  BY <1>1, <3>1
  <2> QED  BY <2>1, <2>2, <2>3, <2>4 DEF HashesOK, Hash
<1>5. BeforeProbing'
  <2>1. Probing' = Probing
    BY <1>1 DEF Probing, On
  <2> QED  BY <1>1, <1>2, <2>1 DEF Ind, BeforeProbing, Off
<1>6. OffOK'
  BY <1>1, <1>2 DEF Ind, OffOK
<1>7. OffCpuExact'
  <2> SUFFICES ASSUME NEW t \in Tasks \ reused
               PROVE  /\ OffTime(t)' <= away'[t]
                      /\ t \notin refused => OffTime(t)' = away'[t]
      BY <1>1 DEF OffCpuExact
  <2>1. OffTime(t) <= away[t] /\ (t \notin refused => OffTime(t) = away[t])
    BY DEF Ind, OffCpuExact
  <2>2. t \notin refused /\ Off(t) => t \in DOMAIN start_offcpu
    BY DEF Ind, OffOK
  <2>3. OffTime(t)' = Value(offcpu_ns, t)
          + (IF Off(t) /\ t \in DOMAIN start_offcpu THEN clock' - start_offcpu[t] ELSE 0)
    BY <1>1, <1>2 DEF OffTime, Value
  <2>4. OffTime(t)' = OffTime(t) + (IF Off(t) /\ t \in DOMAIN start_offcpu THEN 1 ELSE 0)
    BY <1>1, <2>3, Numbers DEF OffTime
  <2>5. OffTime(t) \in Nat
    BY Numbers DEF OffTime
  <2> QED  BY <1>2, <2>1, <2>2, <2>4, <2>5, Numbers
<1>8. SharesOK'
  <2>1. \A t \in Tasks : Accounted(t)' = Accounted(t)
    BY <1>1 DEF Accounted, Value
  <2>2. \A t \in Tasks : Accounted(t) \in Nat
    BY Numbers DEF Accounted
  <2> QED  BY <1>1, <2>1, <2>2, Numbers DEF Ind, SharesOK
<1> QED  BY <1>3, <1>4, <1>5, <1>6, <1>7, <1>8 DEF Ind

(* A wake-up: its stamp is the newest there is.                            *)
LEMMA EnqueueKeeps ==
  ASSUME Ind, NEW t \in Tasks, NEW probe, Enqueue(t, probe),
         state' \in [Tasks -> {"free", "asleep", "ready", "running"}],
         \A u \in Tasks : state'[u] = "running" <=> state[u] = "running",
         reused \subseteq reused', reused' \subseteq left,
         \A u \in Tasks \ reused' : Off(u)' = Off(u)
  PROVE  Ind'
<1>1. /\ wakeups < MaxWakeups /\ wakeups' = wakeups + 1
      /\ UNCHANGED <<attached, clock, cur, start_offcpu, oncpu_ns, offcpu_ns, runq_lat,
                     onSince, left, away, refused>>
  BY DEF Enqueue
<1>2. /\ DOMAIN enqueue_ts' \in {DOMAIN enqueue_ts, DOMAIN enqueue_ts \union {t}}
      /\ \A u \in DOMAIN enqueue_ts' :
           \/ u \in DOMAIN enqueue_ts /\ enqueue_ts'[u] = enqueue_ts[u]
           \/ u = t /\ enqueue_ts'[u] = clock
  <2>1. CASE On(probe)
    <3>1. enqueue_ts' = Put(enqueue_ts, t, clock)
      BY <2>1 DEF Enqueue
    <3>2. CASE HasRoom(enqueue_ts, t)
      <4>1. enqueue_ts' = [u \in DOMAIN enqueue_ts \union {t} |->
                             IF u = t THEN clock ELSE enqueue_ts[u]]
        BY <3>1, <3>2 DEF Put
      <4> QED  BY <4>1
    <3>3. CASE ~HasRoom(enqueue_ts, t)
      BY <3>1, <3>3 DEF Put
    <3> QED  BY <3>2, <3>3
  <2>2. CASE ~On(probe)
    BY <2>2 DEF Enqueue
  <2> QED  BY <2>1, <2>2
<1>3. KernelOK'
  BY <1>1 DEF Ind, KernelOK
<1>4. HashesOK'
  <2>1. Hash(enqueue_ts', BootTime .. clock)
    BY <1>2, Numbers DEF Ind, HashesOK, Hash
  <2> QED  BY <1>1, <2>1 DEF Ind, HashesOK, Hash, Times
<1>5. BeforeProbing'
  BY <1>1 DEF Ind, BeforeProbing, Probing, On
<1>6. WakeupsOK'
  <2>1. IsFiniteSet(DOMAIN enqueue_ts)
    BY CpuProfilerAssumption, FS_Subset DEF Ind, HashesOK, Hash
  <2>2. \/ Cardinality(DOMAIN enqueue_ts') = Cardinality(DOMAIN enqueue_ts)
        \/ Cardinality(DOMAIN enqueue_ts') = Cardinality(DOMAIN enqueue_ts) + 1
    BY <1>2, <2>1, FS_AddElement, Zenon
  <2>3. Cardinality(DOMAIN enqueue_ts) \in Nat
    BY <2>1, FS_CardinalityType
  <2> QED  BY <1>1, <2>2, <2>3, CpuProfilerAssumption DEF Ind, WakeupsOK
<1>7. OffOK'
  BY <1>1 DEF Ind, OffOK
<1>8. OffCpuExact'
  BY <1>1 DEF Ind, OffCpuExact, OffTime, Value
<1>9. SharesOK'
  <2>1. \A u \in Tasks : Accounted(u)' = Accounted(u)
    BY <1>1 DEF Accounted, Value
  <2> QED  BY <1>1, <1>2, <2>1 DEF Ind, SharesOK
<1>10. RunsOK'
  BY <1>1, <1>2, Numbers DEF Ind, RunsOK
<1> QED  BY <1>3, <1>4, <1>5, <1>6, <1>7, <1>8, <1>9, <1>10 DEF Ind

(* A switch nobody watches.                                                *)
LEMMA UnseenSwitchKeeps ==
  ASSUME Ind, NEW c \in Cpus, NEW next \in Tasks \union {Idle},
         SchedSwitch(c, next), ~Probing
  PROVE  Ind'
<1>1. UNCHANGED <<attached, clock, wakeups, away, enqueue_ts, start_offcpu, oncpu_ns,
                  offcpu_ns, runq_lat, onSince, left, reused, refused>>
  BY DEF SchedSwitch, Probing, maps
<1>2. KernelOK'
  BY SwitchKeepsKernel, CpuProfilerAssumption DEF Ind
<1>3. HashesOK' /\ WakeupsOK' /\ BeforeProbing'
  BY <1>1 DEF Ind, HashesOK, WakeupsOK, BeforeProbing, Hash, Times, Probing, On
<1>4. /\ DOMAIN start_offcpu = {} /\ DOMAIN oncpu_ns = {} /\ DOMAIN offcpu_ns = {}
      /\ left = {} /\ \A t \in Tasks : onSince[t] = 0 /\ away[t] = 0
  BY DEF Ind, BeforeProbing
<1>5. OffOK' /\ RunsOK' /\ OffCpuExact'
  BY <1>1, <1>4 DEF Ind, OffOK, Off, RunsOK, OffCpuExact, OffTime, Value
<1>6. SharesOK'
  <2>1. \A t \in Tasks : Accounted(t)' = 0
    BY <1>1, <1>4 DEF Accounted, Value
  <2> QED  BY <1>1, <1>4, <2>1, Numbers DEF SharesOK
<1> QED  BY <1>2, <1>3, <1>5, <1>6 DEF Ind

(* A switch under the probe: the share of the task that leaves is measured *)
(* from its stamp in enqueue_ts, that of the one that comes from its stamp *)
(* in start_offcpu, and both stamps are gone or replaced.                  *)
LEMMA SeenSwitchKeeps ==
  ASSUME Ind, NEW c \in Cpus, NEW next \in Tasks \union {Idle},
         SchedSwitch(c, next), Probing
  PROVE  Ind'
<1> DEFINE prev == cur[c]
<1>1. /\ SwitchProbe(prev, next) /\ prev # next
      /\ UNCHANGED <<attached, clock, wakeups, reused, away>>
      /\ next # Idle => state[next] = "ready"
  BY DEF SchedSwitch, Probing
<1>2. /\ KernelOK' /\ prev \in Tasks \union {Idle} /\ Idle \notin Tasks
      /\ next # Idle => state[next] # "running" /\ state'[next] = "running"
      /\ prev # Idle => state[prev] = "running" /\ state'[prev] # "running"
      /\ \A t \in Tasks \ {next, prev} : state'[t] = state[t]
  BY SwitchKeepsKernel, CpuProfilerAssumption DEF Ind, KernelOK
<1>3. /\ Hash(oncpu_ns', Nat) /\ Hash(offcpu_ns', Nat)
      /\ DOMAIN enqueue_ts' = DOMAIN enqueue_ts \ {next}
      /\ \A t \in DOMAIN enqueue_ts' : enqueue_ts'[t] = enqueue_ts[t]
      /\ next \notin DOMAIN start_offcpu'
      /\ \A t \in Tasks \ {next, prev} :
           t \in DOMAIN start_offcpu' <=> t \in DOMAIN start_offcpu
      /\ prev # Idle => prev \in DOMAIN start_offcpu' <=> HasRoom(start_offcpu, prev)
      /\ DOMAIN start_offcpu' \subseteq Tasks
      /\ \A t \in DOMAIN start_offcpu' :
           start_offcpu'[t] = IF t = prev THEN clock ELSE start_offcpu[t]
      /\ \A t \in Tasks : Value(oncpu_ns', t) =
           IF t = prev /\ t \in DOMAIN enqueue_ts /\ HasRoom(oncpu_ns, t)
           THEN Value(oncpu_ns, t) + (clock - enqueue_ts[t]) ELSE Value(oncpu_ns, t)
      /\ \A t \in Tasks : Value(offcpu_ns', t) =
           IF t = next /\ t \in DOMAIN start_offcpu /\ HasRoom(offcpu_ns, t)
           THEN Value(offcpu_ns, t) + (clock - start_offcpu[t]) ELSE Value(offcpu_ns, t)
  BY <1>1, <1>2, SwitchProbeIs DEF Ind
<1>4. /\ onSince' = [t \in Tasks |-> IF t = next THEN clock ELSE onSince[t]]
      /\ left' = left \union ({prev} \ {Idle})
      /\ refused' = refused \union Refused(prev, next)
      /\ runq_lat' = IF next \in DOMAIN enqueue_ts THEN runq_lat + 1 ELSE runq_lat
  BY <1>1 DEF SwitchProbe
<1> HIDE DEF prev
<1>5. HashesOK'
  <2>1. Hash(enqueue_ts', BootTime .. clock) /\ Hash(start_offcpu', BootTime .. clock)
    <3>1. \A t \in DOMAIN start_offcpu' : t = prev \/ t \in DOMAIN start_offcpu
      BY <1>3
    <3> QED  BY <1>3, <3>1, Numbers DEF Ind, HashesOK, Hash
  <2>2. onSince' \in [Tasks -> (BootTime .. clock) \union {0}]
    <3>1. \A t \in Tasks : onSince'[t] \in (BootTime .. clock) \union {0}
      BY <1>4, Numbers DEF Ind, HashesOK
    <3> QED  BY <1>4, <3>1
  <2>3. /\ refused' \subseteq Tasks
        /\ reused' \subseteq left' /\ left' \subseteq Tasks
    BY <1>1, <1>2, <1>4 DEF Refused, Ind, HashesOK, Hash
  <2> QED  BY <1>1, <1>3, <2>1, <2>2, <2>3 DEF Ind, HashesOK, Hash, Times
<1>6. BeforeProbing'
  BY <1>1 DEF BeforeProbing, Probing, On
<1>7. WakeupsOK'
  <2>1. IsFiniteSet(DOMAIN enqueue_ts)
    BY CpuProfilerAssumption, FS_Subset DEF Ind, HashesOK, Hash
  <2>2. Cardinality(DOMAIN enqueue_ts') =
          IF next \in DOMAIN enqueue_ts THEN Cardinality(DOMAIN enqueue_ts) - 1
                                        ELSE Cardinality(DOMAIN enqueue_ts)
    BY <1>3, <2>1, FS_RemoveElement
  <2>3. Cardinality(DOMAIN enqueue_ts) \in Nat
    BY <2>1, FS_CardinalityType
  <2> QED  BY <1>1, <1>4, <2>2, <2>3 DEF Ind, WakeupsOK
<1>8. OffOK'
  <2> SUFFICES ASSUME NEW t \in Tasks
               PROVE  /\ t \in DOMAIN start_offcpu' => state'[t] # "running" /\ t \in left'
                      /\ t \notin refused' \union reused' /\ Off(t)' =>
                           t \in DOMAIN start_offcpu'
      BY DEF OffOK
  <2>1. CASE t = next
    BY <1>2, <1>3, <2>1 DEF Off
  <2>2. CASE t = prev
    <3>1. t \notin refused' => HasRoom(start_offcpu, t)
      BY <1>2, <1>4, <2>2 DEF Refused
    <3> QED  BY <1>2, <1>3, <1>4, <2>2, <3>1
  <2>3. CASE t \notin {next, prev}
    <3>1. Off(t)' = Off(t) /\ (t \in left => t \in left')
      BY <1>2, <1>4, <2>3 DEF Off
    <3> QED  BY <1>1, <1>2, <1>3, <1>4, <2>3, <3>1 DEF Ind, OffOK
  <2> QED  BY <2>1, <2>2, <2>3
<1>9. OffCpuExact'
  <2> SUFFICES ASSUME NEW t \in Tasks, t \notin reused
               PROVE  /\ OffTime(t)' <= away[t]
                      /\ t \notin refused' => OffTime(t)' = away[t]
      BY <1>1 DEF OffCpuExact
  <2>1. /\ t \notin refused' => t \notin refused /\ t \notin Refused(prev, next)
        /\ OffTime(t) <= away[t] /\ (t \notin refused => OffTime(t) = away[t])
    BY <1>4 DEF Ind, OffCpuExact
  <2>2. OffTime(t)' = Value(offcpu_ns', t)
          + (IF Off(t)' /\ t \in DOMAIN start_offcpu' THEN clock - start_offcpu'[t] ELSE 0)
    BY <1>1 DEF OffTime, Value
  <2>3. CASE t = next
    <3>1. t \notin refused' /\ t \in DOMAIN start_offcpu => HasRoom(offcpu_ns, t)
      BY <2>1, <2>3 DEF Refused
    <3>2. t \in DOMAIN start_offcpu => Off(t)
      BY <1>1, <1>2, <2>3 DEF Ind, OffOK, Off
    <3>3. OffTime(t)' = Value(offcpu_ns', t)
      BY <1>3, <2>2, <2>3, Numbers
    <3>4. OffTime(t) = Value(offcpu_ns, t)
            + (IF t \in DOMAIN start_offcpu THEN clock - start_offcpu[t] ELSE 0)
      BY <3>2 DEF OffTime
    <3>5. Value(offcpu_ns', t) =
            IF t \in DOMAIN start_offcpu /\ HasRoom(offcpu_ns, t)
            THEN Value(offcpu_ns, t) + (clock - start_offcpu[t]) ELSE Value(offcpu_ns, t)
      BY <1>3, <2>3
    <3> QED  BY <2>1, <3>1, <3>3, <3>4, <3>5, Numbers
  <2>4. CASE t = prev
    <3>1. ~Off(t) /\ t \notin DOMAIN start_offcpu
      BY <1>2, <2>4 DEF Ind, OffOK, Off
    <3>2. Value(offcpu_ns', t) = Value(offcpu_ns, t)
      BY <1>1, <1>3, <2>4
    <3>3. t \in DOMAIN start_offcpu' => start_offcpu'[t] = clock
      BY <1>3, <2>4
    <3>4. OffTime(t)' = OffTime(t)
      BY <2>2, <3>1, <3>2, <3>3, Numbers DEF OffTime
    <3> QED  BY <2>1, <3>4
  <2>5. CASE t \notin {next, prev}
    <3>1. Off(t)' = Off(t)
      BY <1>2, <1>4, <2>5 DEF Off
    <3>2. /\ Value(offcpu_ns', t) = Value(offcpu_ns, t)
          /\ t \in DOMAIN start_offcpu' <=> t \in DOMAIN start_offcpu
          /\ t \in DOMAIN start_offcpu' => start_offcpu'[t] = start_offcpu[t]
      BY <1>3, <2>5
    <3>3. OffTime(t)' = OffTime(t)
      BY <2>2, <3>1, <3>2 DEF OffTime
    <3> QED  BY <2>1, <3>3
  <2> QED  BY <2>3, <2>4, <2>5
<1>10. SharesOK'
  <2> SUFFICES ASSUME NEW t \in Tasks
               PROVE  /\ Accounted(t)' <= clock - BootTime
                      /\ t \in DOMAIN start_offcpu' =>
                           Accounted(t)' <= start_offcpu'[t] - BootTime
                      /\ t \in DOMAIN enqueue_ts' /\ state'[t] = "running" =>
                           Accounted(t)' <= enqueue_ts'[t] - BootTime
      BY <1>1 DEF SharesOK
  <2>1. /\ Accounted(t) = Value(oncpu_ns, t) + Value(offcpu_ns, t)
        /\ Accounted(t)' = Value(oncpu_ns', t) + Value(offcpu_ns', t)
    BY DEF Accounted, Value
  <2>2. /\ Accounted(t) <= clock - BootTime
        /\ t \in DOMAIN start_offcpu => Accounted(t) <= start_offcpu[t] - BootTime
        /\ t \in DOMAIN enqueue_ts /\ state[t] = "running" =>
             Accounted(t) <= enqueue_ts[t] - BootTime
    BY DEF Ind, SharesOK
  <2>3. CASE t = next
    <3>1. /\ t \notin DOMAIN start_offcpu' /\ t \notin DOMAIN enqueue_ts'
          /\ Value(oncpu_ns', t) = Value(oncpu_ns, t)
      BY <1>1, <1>3, <2>3 DEF prev
    <3>2. Accounted(t)' <= clock - BootTime
      BY <1>3, <2>1, <2>2, <2>3, <3>1, Numbers
    <3> QED  BY <3>1, <3>2
  <2>4. CASE t = prev
    <3>1. state[t] = "running" /\ state'[t] # "running"
      BY <1>2, <2>4
    <3>2. Value(offcpu_ns', t) = Value(offcpu_ns, t)
      BY <1>1, <1>3, <2>4 DEF prev
    <3>3. Accounted(t)' <= clock - BootTime
      BY <1>3, <2>1, <2>2, <2>4, <3>1, <3>2, Numbers
    <3>4. t \in DOMAIN start_offcpu' => start_offcpu'[t] = clock
      BY <1>3, <2>4
    <3> QED  BY <3>1, <3>3, <3>4
  <2>5. CASE t \notin {next, prev}
    <3>1. Accounted(t)' = Accounted(t)
      BY <1>3, <2>1, <2>5
    <3>2. state'[t] = state[t]
      BY <1>2, <2>5
    <3>3. /\ t \in DOMAIN start_offcpu' =>
               t \in DOMAIN start_offcpu /\ start_offcpu'[t] = start_offcpu[t]
          /\ t \in DOMAIN enqueue_ts' =>
               t \in DOMAIN enqueue_ts /\ enqueue_ts'[t] = enqueue_ts[t]
      BY <1>3, <2>5
    <3> QED  BY <2>2, <3>1, <3>2, <3>3
  <2> QED  BY <2>3, <2>4, <2>5
<1>11. RunsOK'
  <2> SUFFICES ASSUME NEW t \in Tasks, t \in DOMAIN enqueue_ts', state'[t] = "running",
                      onSince'[t] # 0
               PROVE  enqueue_ts'[t] >= onSince'[t]
      BY DEF RunsOK
  <2>1. t \notin {next, prev}
    BY <1>2, <1>3
  <2> QED  BY <1>2, <1>3, <1>4, <2>1 DEF Ind, RunsOK
<1> QED  BY <1>2, <1>5, <1>6, <1>7, <1>8, <1>9, <1>10, <1>11 DEF Ind

(* The invariant is inductive.                                             *)
THEOREM IndHolds == Spec => []Ind
<1>1. Ind /\ [Next]_vars => Ind'
  <2> SUFFICES ASSUME Ind, [Next]_vars PROVE Ind'
      OBVIOUS
  <2>1. CASE Attach
    BY <2>1, AttachKeeps
  <2>2. CASE Tick
    BY <2>2, TickKeeps
  <2>3. ASSUME NEW t \in Tasks, Wakeup(t) PROVE Ind'
    <3>1. state' = [state EXCEPT ![t] = IF state[t] = "asleep" THEN "ready" ELSE state[t]]
          /\ Enqueue(t, "sched_wakeup") /\ reused' = reused /\ left' = left
      BY <2>3 DEF Wakeup, Enqueue
    <3>2. /\ state' \in [Tasks -> {"free", "asleep", "ready", "running"}]
          /\ \A u \in Tasks : state'[u] = "running" <=> state[u] = "running"
      BY <3>1 DEF Ind, KernelOK
    <3>3. /\ reused \subseteq reused' /\ reused' \subseteq left
          /\ \A u \in Tasks \ reused' : Off(u)' = Off(u)
      BY <3>1 DEF Ind, KernelOK, HashesOK, Off
    <3> QED  BY <3>1, <3>2, <3>3, EnqueueKeeps
  <2>4. ASSUME NEW t \in Tasks, WakeupNew(t) PROVE Ind'
    <3>1. state' = [state EXCEPT ![t] = "ready"] /\ state[t] = "free"
          /\ Enqueue(t, "sched_wakeup_new") /\ left' = left
          /\ reused' = reused \union (left \intersect {t})
      BY <2>4 DEF WakeupNew, Enqueue
    <3>2. /\ state' \in [Tasks -> {"free", "asleep", "ready", "running"}]
          /\ \A u \in Tasks : state'[u] = "running" <=> state[u] = "running"
      BY <3>1 DEF Ind, KernelOK
    <3>3. /\ reused \subseteq reused' /\ reused' \subseteq left
          /\ \A u \in Tasks \ reused' : Off(u)' = Off(u)
      BY <3>1 DEF Ind, KernelOK, HashesOK, Off
    <3> QED  BY <3>1, <3>2, <3>3, EnqueueKeeps
  <2>5. ASSUME NEW c \in Cpus, NEW next \in Tasks \union {Idle}, SchedSwitch(c, next)
        PROVE  Ind'
    BY <2>5, SeenSwitchKeeps, UnseenSwitchKeeps
  <2>6. CASE UNCHANGED vars
    <3>1. UNCHANGED <<attached, clock, state, cur, enqueue_ts, start_offcpu, oncpu_ns,
                      offcpu_ns, runq_lat, wakeups, onSince, left, reused, away, refused>>
      BY <2>6 DEF vars, kernel, maps, history
    <3>2. KernelOK' /\ HashesOK' /\ WakeupsOK' /\ OffOK' /\ RunsOK' /\ BeforeProbing'
      BY <3>1 DEF Ind, KernelOK, HashesOK, WakeupsOK, OffOK, Off, RunsOK, Hash, Times,
                  BeforeProbing, Probing, On
    <3>3. OffCpuExact' /\ SharesOK'
      BY <3>1 DEF Ind, OffCpuExact, OffTime, Off, SharesOK, Accounted, Value
    <3> QED  BY <3>2, <3>3 DEF Ind
  <2> QED  BY <2>1, <2>2, <2>3, <2>4, <2>5, <2>6 DEF Next
<1> QED  BY <1>1, InitInd, PTL DEF Spec

(* Type correctness: no total exceeds the time the probes have been there. *)
THEOREM TypeCorrect == Spec => []TypeOK
<1>1. Ind => TypeOK
  <2> SUFFICES ASSUME Ind PROVE TypeOK
      OBVIOUS
  <2>1. \A t \in Tasks : /\ Value(oncpu_ns, t) \in Durations
                        /\ Value(offcpu_ns, t) \in Durations
    <3>1. \A t \in Tasks : Accounted(t) <= clock - BootTime
      BY DEF Ind, SharesOK
    <3> QED  BY <3>1, Numbers DEF Accounted, Durations
  <2>2. Hash(oncpu_ns, Durations) /\ Hash(offcpu_ns, Durations)
    BY <2>1 DEF Ind, HashesOK, Hash, Value
  <2>3. Hash(enqueue_ts, Times) /\ Hash(start_offcpu, Times)
    BY Numbers DEF Ind, HashesOK, Hash, Times
  <2>4. onSince \in [Tasks -> Times \union {0}] /\ away \in [Tasks -> Durations]
    <3>1. \A t \in Tasks : onSince[t] \in Times \union {0} /\ away[t] \in Durations
      BY Numbers DEF Ind, HashesOK, Times, Durations
    <3> QED  BY <3>1 DEF Ind, HashesOK
  <2> QED  BY <2>2, <2>3, <2>4 DEF TypeOK, Ind, KernelOK, HashesOK, WakeupsOK
<1> QED  BY <1>1, IndHolds, PTL

(* The off-CPU time of a task that has its pid to itself is the time it    *)
(* was off, and never more where a full hash has refused an entry.         *)
THEOREM OffCpuIsExact == Spec => []OffCpuExact
<1>1. Ind => OffCpuExact
  BY DEF Ind
<1> QED  BY <1>1, IndHolds, PTL

(* Nothing is accounted twice.                                             *)
THEOREM SharesAreDisjoint == Spec => []AccountedAtMostElapsed
<1>1. Ind => AccountedAtMostElapsed
  BY DEF Ind, SharesOK, Accounted, AccountedAtMostElapsed
<1> QED  BY <1>1, IndHolds, PTL

(* A wake-up is in the histogram once at most.                             *)
THEOREM WakeupsAreCountedOnce == Spec => []WakeupCountedOnce
<1>1. Ind => WakeupCountedOnce
  <2> SUFFICES ASSUME Ind PROVE WakeupCountedOnce
      OBVIOUS
  <2>1. IsFiniteSet(DOMAIN enqueue_ts)
    BY CpuProfilerAssumption, FS_Subset DEF Ind, HashesOK, Hash
  <2>2. Cardinality(DOMAIN enqueue_ts) \in Nat
    BY <2>1, FS_CardinalityType
  <2> QED  BY <2>2, CpuProfilerAssumption DEF Ind, WakeupsOK, WakeupCountedOnce
<1> QED  BY <1>1, IndHolds, PTL

(* A run is never credited with more than its length.                      *)
THEOREM RunsAreNotOverCredited == Spec => OnCpuNeverOver
<1>1. ASSUME Ind, [Next]_vars, NEW t \in Tasks, SwitchedOut(t)
      PROVE  Credit(t) <= clock - onSince[t]
  <2>1. state[t] = "running" /\ state'[t] # "running" /\ onSince[t] # 0
    BY <1>1 DEF SwitchedOut
  <2>2. PICK c \in Cpus, next \in Tasks \union {Idle} : SchedSwitch(c, next)
    BY <1>1, <2>1
       DEF Next, Attach, Tick, Wakeup, WakeupNew, kernel, vars, Ind, KernelOK
  <2>3. Probing
    BY <1>1, <2>1 DEF Ind, BeforeProbing
  <2>4. /\ KernelOK' /\ Idle \notin Tasks /\ cur[c] # next
        /\ next # Idle => state[next] # "running" /\ state'[next] = "running"
        /\ \A u \in Tasks \ {next, cur[c]} : state'[u] = state[u]
    BY <1>1, <2>2, SwitchKeepsKernel, CpuProfilerAssumption DEF Ind, SchedSwitch
  <2>5. t = cur[c]
    BY <2>1, <2>4
  <2>6. SwitchProbe(cur[c], next)
    BY <2>2, <2>3 DEF SchedSwitch, Probing
  <2>7. Value(oncpu_ns', t) =
          IF t \in DOMAIN enqueue_ts /\ HasRoom(oncpu_ns, t)
          THEN Value(oncpu_ns, t) + (clock - enqueue_ts[t]) ELSE Value(oncpu_ns, t)
    BY <1>1, <2>4, <2>5, <2>6, SwitchProbeIs DEF Ind
  <2>8. t \in DOMAIN enqueue_ts => enqueue_ts[t] >= onSince[t]
    BY <1>1, <2>1 DEF Ind, RunsOK
  <2> QED  BY <1>1, <2>7, <2>8, Numbers DEF Credit
<1>2. Ind /\ [Next]_vars => [\A t \in Tasks : SwitchedOut(t) => Credit(t) <= clock - onSince[t]]_vars
  BY <1>1
<1> QED  BY <1>2, IndHolds, PTL DEF Spec, OnCpuNeverOver

-----------------------------------------------------------------------------
(* Terminal.                                                               *)

(* Where a program may be: the dashboard alone hides the cursor, installs  *)
(* two handlers and renders; cpu_profiler.py alone reports, and polls      *)
(* nothing.  What is polled is loaded.                                     *)
PlaceOK ==
  /\ prog \in Progs /\ args \in Arguments
  /\ pc \in {"load", "open", "hide", "sigint", "sigterm", "loop", "poll",
             "polled", "render", "sleep", "report", "end"}
  /\ pc \in {"hide", "sigterm", "render"} => Dashboard
  /\ pc = "end" => ~Dashboard
  /\ pc = "sleep" => Dashboard \/ prog = "cpu"
  /\ pc = "report" => prog = "cpu"
  /\ pc \in {"poll", "polled"} => prog # "cpu" /\ at \in DOMAIN bpfs

(* The dashboard has loaded some of the programs it has tried, a tool the  *)
(* one program it is.                                                      *)
LoadedOK ==
  /\ bpfs \in Seq(Modules) /\ at \in 1 .. Len(Order) + 1
  /\ Dashboard => /\ Len(bpfs) <= Len(Order)
                  /\ pc = "load" => Len(bpfs) < at
  /\ ~Dashboard => /\ at = 1
                   /\ pc # "load" => bpfs = IF prog = "cpu" THEN <<>> ELSE <<prog>>

(* The rings hold events, and none more than its size.                     *)
RingsOK ==
  /\ ring \in [Modules -> Seq({"hit", "miss", "own"})]
  /\ \A m \in Modules : Len(ring[m]) <= RingSize

(* A callback runs inside a poll.                                          *)
PollingOK ==
  /\ RingsOK
  /\ cb \in {"none", "entered", "counted", "printed", "listed"}
  /\ cb # "none" => pc = "poll"

(* The handlers are those whose signal.signal has been passed, and every   *)
(* signal was answered, dropped or still waits.                            *)
Installed ==
  {s \in {"INT", "TERM"} :
     /\ pc \notin {"load", "open", "hide", "sigint"}
     /\ s = "TERM" => Dashboard /\ pc # "sigterm"}

Waiting(s) == IF s \in pending THEN 1 ELSE 0

SignalsOK ==
  /\ handlers = Installed /\ pending \subseteq {"INT", "TERM"}
  /\ sent \in 0 .. MaxSignals /\ swallowed \in Nat
  /\ swallowed + Waiting("INT") + Waiting("TERM") <= sent

(* The cursor is hidden between a render of the dashboard, after both      *)
(* handlers are installed, and its cleanup.                                *)
ScreenOK ==
  /\ buffer \in {"empty", "hide"} /\ cursor \in {"shown", "hidden"}
  /\ screen \in {"blank", "drawn", "stopped"}
  /\ buffer = "hide" \/ screen = "stopped" => Dashboard
  /\ exit = "no" /\ cursor = "hidden" => Dashboard /\ handlers = {"INT", "TERM"}
  /\ exit = "no" /\ screen = "stopped" => swallowed > 0

(* Only anomaly_detector.py keeps a log.  The summary was printed by       *)
(* handlers whose sys.exit was dropped, and once more by what ended it.    *)
SummariesOK ==
  /\ log \in {"none", "open", "closed"}
  /\ log # "none" => prog = "anomaly"
  /\ summaries \in 0 .. IF exit = "no" THEN swallowed ELSE swallowed + 1
  /\ exit = "no" /\ log = "closed" => swallowed > 0

(* What a running callback has counted and not yet shown, or the other way *)
(* about, is made up for at its end, or a handler cut it short.            *)
Ahead ==
  IF cb = "counted" /\ prog # "syscall" THEN 1
  ELSE IF cb = "listed" THEN -1 ELSE 0

CountsOK ==
  /\ {shown, count, logged} \subseteq Nat
  /\ count - shown - Ahead \in -swallowed .. swallowed
  /\ logged <= count
  /\ log = "open" => logged = IF cb \in {"counted", "printed"} THEN count - 1 ELSE count

(* A report is due every Interval.  cpu_profiler.py wakes when it is, or   *)
(* at the deadline, and goes to sleep only before the deadline.            *)
ReportsOK ==
  /\ now \in 0 .. Duration /\ reports \in Nat
  /\ next_report = (reports + 1) * Interval
  /\ next_report < Duration + Interval + Interval
  /\ now < Duration => next_report <= now + Interval
  /\ prog = "cpu" /\ pc \in {"sleep", "report"} => next_report < Duration + Interval
  /\ pc = "report" => now >= NextWake

(* How a program ended is what a user is left with.                        *)
ExitOK ==
  /\ exit \in {"no", "ok", "error", "interrupted", "killed"}
  /\ exit = "ok" => /\ Dashboard => cursor = "shown" /\ screen = "stopped"
                    /\ ~Dashboard => summaries > 0 /\ log # "open"
  /\ exit # "no" /\ cursor = "hidden" => exit = "interrupted" /\ handlers = {}

TerminalInd ==
  /\ PlaceOK /\ LoadedOK /\ PollingOK /\ SignalsOK /\ ScreenOK
  /\ SummariesOK /\ CountsOK /\ ReportsOK /\ ExitOK

-----------------------------------------------------------------------------
(* A program is what it was started as.                                    *)
LEMMA ConfigStays ==
  ASSUME TerminalNext
  PROVE  prog' = prog /\ args' = args /\ Dashboard' = Dashboard /\ Arguments' = Arguments
<1>1. prog' = prog /\ args' = args
  BY DEF TerminalNext, Program, config, Submit, Elapse, Signal, LoadTool, LoadBpf,
         DashboardLoaded, Open, HideCursor, Install, Loop, Take, PollReturns, PollDone,
         Callback, CpuLoop, CpuReport, DashboardLoop, Render, Sleep, LoopFails, Handle,
         Interrupted, End
<1> QED  BY <1>1 DEF Dashboard, Arguments

(* A step leads from a place of the program to a place of the program.     *)
LEMMA PlaceStep ==
  ASSUME TerminalAssumption, PlaceOK, LoadedOK, TerminalNext
  PROVE  PlaceOK'
<1>0. prog' = prog /\ args' = args /\ Dashboard' = Dashboard /\ Arguments' = Arguments
  BY ConfigStays
<1> USE <1>0
<1>1. prog' \in Progs /\ args' \in Arguments'
  BY DEF PlaceOK
<1>2. DOMAIN bpfs = 1 .. Len(bpfs)
  BY DEF LoadedOK
<1>3. prog \in Tools \union {"cpu", "dashboard"}
  BY DEF PlaceOK, TerminalAssumption
<1>4. CASE \/ \E m \in Modules : Submit(m)
           \/ Elapse \/ \E s \in {"INT", "TERM"} : Signal(s)
           \/ Take \/ Callback \/ LoopFails \/ Interrupted \/ End
  <2>1. UNCHANGED <<pc, at, bpfs>>
    BY <1>4 DEF Submit, Elapse, Signal, Take, Callback, LoopFails, Interrupted, End, control
  <2> QED  BY <1>1, <2>1 DEF PlaceOK
<1>5. CASE LoadTool
  BY <1>1, <1>5 DEF PlaceOK, LoadTool, At
<1>6. CASE LoadBpf \/ DashboardLoaded
  BY <1>1, <1>6 DEF PlaceOK, LoadBpf, DashboardLoaded, At
<1>7. CASE Open
  BY <1>1, <1>7 DEF PlaceOK, Open, At
<1>8. CASE HideCursor
  BY <1>1, <1>8 DEF PlaceOK, HideCursor, At
<1>9. CASE Install
  BY <1>1, <1>9 DEF PlaceOK, Install, At
<1>10. CASE Loop
  BY <1>1, <1>2, <1>10 DEF PlaceOK, LoadedOK, Loop, At, Tools, Dashboard
<1>11. CASE PollReturns
  BY <1>1, <1>11 DEF PlaceOK, PollReturns
<1>12. CASE PollDone
  BY <1>1, <1>2, <1>12 DEF PlaceOK, LoadedOK, PollDone, NextPoll, At
<1>13. CASE CpuLoop \/ CpuReport
  BY <1>1, <1>13 DEF PlaceOK, CpuLoop, CpuReport, At, Dashboard
<1>14. CASE DashboardLoop
  BY <1>1, <1>2, <1>14 DEF PlaceOK, LoadedOK, DashboardLoop, At, Dashboard
<1>15. CASE Render \/ Sleep
  BY <1>1, <1>15 DEF PlaceOK, Render, Sleep, At
<1>16. CASE \E s \in {"INT", "TERM"} : Handle(s)
  <2>1. \/ UNCHANGED <<pc, at>>
        \/ pc = "polled" /\ Dashboard /\ NextPoll
    BY <1>16 DEF Handle, control
  <2>2. bpfs' = bpfs
    BY <1>16 DEF Handle
  <2> QED  BY <1>1, <1>2, <2>1, <2>2 DEF PlaceOK, LoadedOK, NextPoll
<1> QED
  BY <1>4, <1>5, <1>6, <1>7, <1>8, <1>9, <1>10, <1>11, <1>12, <1>13, <1>14, <1>15, <1>16
     DEF TerminalNext, Program

(* The dashboard loads at most one program per step, a tool the one.       *)
LEMMA LoadedStep ==
  ASSUME TerminalAssumption, PlaceOK, LoadedOK, TerminalNext
  PROVE  LoadedOK'
<1>0. prog' = prog /\ args' = args /\ Dashboard' = Dashboard /\ Arguments' = Arguments
  BY ConfigStays
<1> USE <1>0
<1>1. prog \in Tools \union {"cpu", "dashboard"} /\ Tools \subseteq Modules
  BY DEF PlaceOK, TerminalAssumption, Modules
<1>2. Len(Order) \in Nat /\ \A i \in 1 .. Len(Order) : Order[i] \in Modules
  BY <1>1 DEF TerminalAssumption
<1>3. CASE LoadTool
  <2>1. pc = "load" /\ at' = at /\ ~Dashboard
    BY <1>3 DEF LoadTool, At
  <2>2. CASE bpfs' = (IF prog = "cpu" THEN <<>> ELSE <<prog>>)
    <3>1. bpfs' \in Seq(Modules)
      BY <1>1, <2>1, <2>2 DEF Dashboard
    <3> QED  BY <2>1, <2>2, <3>1 DEF LoadedOK
  <2>3. CASE UNCHANGED <<pc, bpfs>>
    BY <2>1, <2>3 DEF LoadedOK
  <2> QED  BY <1>3, <2>2, <2>3 DEF LoadTool
<1>4. CASE LoadBpf
  <2>1. Order[at] \in Modules /\ at \in 1 .. Len(Order)
    BY <1>2, <1>4 DEF LoadBpf, LoadedOK
  <2>2. /\ Append(bpfs, Order[at]) \in Seq(Modules)
        /\ Len(Append(bpfs, Order[at])) = Len(bpfs) + 1
        /\ Len(bpfs) \in Nat
    BY <2>1 DEF LoadedOK
  <2>3. Len(bpfs) < at /\ pc' = "load" /\ at' = at + 1 /\ Dashboard
    BY <1>4 DEF LoadBpf, At, LoadedOK
  <2>4. bpfs' \in Seq(Modules) /\ Len(bpfs') <= Len(bpfs) + 1
    BY <1>4, <2>2 DEF LoadBpf, LoadedOK
  <2>5. Len(bpfs') \in Nat
    BY <2>4
  <2> QED  BY <1>2, <2>1, <2>2, <2>3, <2>4, <2>5 DEF LoadedOK
<1>5. CASE PollDone \/ \E s \in {"INT", "TERM"} : Handle(s)
  <2>1. \/ UNCHANGED <<pc, at>>
        \/ pc = "polled" /\ NextPoll
    BY <1>5 DEF PollDone, Handle, control, At
  <2>2. bpfs' = bpfs
    BY <1>5 DEF PollDone, Handle
  <2>3. CASE UNCHANGED <<pc, at>>
    BY <2>2, <2>3 DEF LoadedOK
  <2>4. CASE pc = "polled" /\ NextPoll
    <3>1. pc' # "load"
      BY <2>4 DEF NextPoll
    <3>2. at' \in 1 .. Len(Order) + 1 /\ (~Dashboard => at' = 1)
      BY <1>2, <2>4 DEF NextPoll, LoadedOK
    <3> QED  BY <2>2, <2>4, <3>1, <3>2 DEF LoadedOK
  <2> QED  BY <2>1, <2>3, <2>4
<1>6. CASE DashboardLoaded \/ Open \/ HideCursor \/ Install \/ Loop \/ PollReturns
           \/ CpuLoop \/ CpuReport \/ Render \/ Sleep
  <2>1. UNCHANGED <<at, bpfs>> /\ pc' # "load" /\ (pc = "load" => Dashboard)
    BY <1>6 DEF DashboardLoaded, Open, HideCursor, Install, Loop, PollReturns, CpuLoop,
                CpuReport, Render, Sleep, At
  <2> QED  BY <2>1 DEF LoadedOK
<1>7. CASE DashboardLoop
  BY <1>2, <1>7 DEF LoadedOK, DashboardLoop, At
<1>8. CASE \/ \E m \in Modules : Submit(m)
           \/ Elapse \/ \E s \in {"INT", "TERM"} : Signal(s)
           \/ Take \/ Callback \/ LoopFails \/ Interrupted \/ End
  <2>1. UNCHANGED <<pc, at, bpfs>>
    BY <1>8 DEF Submit, Elapse, Signal, Take, Callback, LoopFails, Interrupted, End, control
  <2> QED  BY <2>1 DEF LoadedOK
<1> QED
  BY <1>3, <1>4, <1>5, <1>6, <1>7, <1>8 DEF TerminalNext, Program

(* A full ring drops what it is offered.                                   *)
LEMMA OfferKeepsRings ==
  ASSUME TerminalAssumption, RingsOK, NEW m \in Modules, NEW e \in {"hit", "miss", "own"},
         Offer(m, e)
  PROVE  RingsOK'
<1> DEFINE E == {"hit", "miss", "own"}
<1>1. ring[m] \in Seq(E) /\ ring' = [ring EXCEPT ![m] = ring'[m]]
  BY DEF RingsOK, Offer
<1>2. ring'[m] = IF Len(ring[m]) < RingSize THEN Append(ring[m], e) ELSE ring[m]
  BY DEF RingsOK, Offer
<1>3. Append(ring[m], e) \in Seq(E) /\ Len(Append(ring[m], e)) = Len(ring[m]) + 1
  BY <1>1
<1>4. Len(ring[m]) \in Nat /\ RingSize \in Nat
  BY <1>1 DEF TerminalAssumption
<1>5. Len(ring[m]) <= RingSize
  BY DEF RingsOK
<1>6. ring'[m] \in Seq(E) /\ Len(ring'[m]) <= RingSize
  <2>1. CASE Len(ring[m]) < RingSize
    BY <1>2, <1>3, <1>4, <2>1
  <2>2. CASE ~(Len(ring[m]) < RingSize)
    BY <1>1, <1>2, <1>5, <2>2
  <2> QED  BY <2>1, <2>2
<1>7. \A n \in Modules \ {m} : ring'[n] = ring[n]
  BY <1>1 DEF RingsOK
<1> QED  BY <1>1, <1>6, <1>7 DEF RingsOK

(* Neither does a line that is printed overfill the ring that is read.     *)
LEMMA OwnWriteKeepsRings ==
  ASSUME TerminalAssumption, RingsOK, OwnWrite
  PROVE  RingsOK'
<1>1. CASE UNCHANGED ring
  BY <1>1 DEF RingsOK
<1>2. CASE \E e \in {"own", "miss"} : Offer("syscall", e)
  <2>1. "syscall" \in Modules
    BY DEF Modules, Tools
  <2>2. PICK e \in {"own", "miss"} : Offer("syscall", e)
    BY <1>2
  <2> QED  BY <2>1, <2>2, OfferKeepsRings
<1> QED  BY <1>1, <1>2 DEF OwnWrite

(* A callback runs until it is done or cut short.                          *)
LEMMA PollingStep ==
  ASSUME TerminalAssumption, PlaceOK, LoadedOK, PollingOK, TerminalNext
  PROVE  PollingOK'
<1>1. RingsOK /\ (cb # "none" => pc = "poll")
  BY DEF PollingOK
<1>2. SUFFICES /\ RingsOK' /\ cb' \in {"none", "entered", "counted", "printed", "listed"}
               /\ cb' # "none" => pc' = "poll"
  BY DEF PollingOK
<1>3. CASE \E m \in Modules : Submit(m)
  <2>1. PICK m \in Modules, e \in {"hit", "miss"} : Offer(m, e)
    BY <1>3 DEF Submit
  <2>2. RingsOK'
    BY <1>1, <2>1, OfferKeepsRings
  <2> QED  BY <1>3, <2>2 DEF PollingOK, Submit, callback, control
<1>4. CASE Take
  <2>1. bpfs[at] \in Modules /\ pc' = "poll" /\ cb' = "entered"
    BY <1>4 DEF Take, control, PlaceOK, LoadedOK
  <2>2. ring' = [ring EXCEPT ![bpfs[at]] = Tail(ring[bpfs[at]])]
    BY <1>4 DEF Take, Polled
  <2>3. ring[bpfs[at]] \in Seq({"hit", "miss", "own"}) /\ ring[bpfs[at]] # <<>>
    BY <1>1, <1>4, <2>1 DEF RingsOK, Take, Polled
  <2>4. /\ Tail(ring[bpfs[at]]) \in Seq({"hit", "miss", "own"})
        /\ Len(Tail(ring[bpfs[at]])) = Len(ring[bpfs[at]]) - 1
        /\ Len(ring[bpfs[at]]) \in Nat
    BY <2>3
  <2>5. ring' \in [Modules -> Seq({"hit", "miss", "own"})]
    BY <1>1, <2>2, <2>4 DEF RingsOK
  <2>6. RingSize \in Nat
    BY DEF TerminalAssumption
  <2>7. ASSUME NEW n \in Modules PROVE Len(ring'[n]) <= RingSize
    <3>1. CASE n = bpfs[at]
      <4>1. ring'[n] = Tail(ring[bpfs[at]]) /\ Len(ring[bpfs[at]]) <= RingSize
        BY <1>1, <2>1, <2>2, <3>1 DEF RingsOK
      <4> QED  BY <4>1, <2>4, <2>6
    <3>2. CASE n # bpfs[at]
      BY <1>1, <2>2, <3>2 DEF RingsOK
    <3> QED  BY <3>1, <3>2
  <2> QED  BY <2>1, <2>5, <2>7 DEF RingsOK
<1>5. CASE Callback
  <2>1. cb # "none" /\ pc' = pc
    BY <1>5 DEF Callback, control, SyscallEvent, NetworkEvent, AlertEvent, DashboardEvent,
                Filtered
  <2>2. cb' \in {"none", "entered", "counted", "printed", "listed"}
    BY <1>5 DEF Callback, SyscallEvent, NetworkEvent, AlertEvent, DashboardEvent, Filtered,
                Step
  <2>3. OwnWrite
    BY <1>5 DEF Callback, SyscallEvent, OwnWrite
  <2> QED  BY <1>1, <2>1, <2>2, <2>3, OwnWriteKeepsRings
<1>6. CASE \E s \in {"INT", "TERM"} : Handle(s)
  <2>1. OwnWrite
    BY <1>6 DEF Handle, OwnWrite
  <2>2. \/ cb' = "none"
        \/ UNCHANGED <<cb, pc>>
    BY <1>6 DEF Handle, callback, control
  <2> QED  BY <1>1, <2>1, <2>2, OwnWriteKeepsRings DEF PollingOK
<1>7. CASE \/ LoadTool \/ LoadBpf \/ DashboardLoaded \/ Open \/ HideCursor \/ Install
           \/ Loop \/ PollReturns \/ PollDone \/ CpuLoop \/ CpuReport \/ DashboardLoop
           \/ Render \/ Sleep
  <2>1. cb = "none" /\ UNCHANGED <<cb, ring>>
    BY <1>7 DEF LoadTool, LoadBpf, DashboardLoaded, Open, HideCursor, Install, Loop,
                PollReturns, PollDone, CpuLoop, CpuReport, DashboardLoop, Render, Sleep, At,
                callback, events
  <2> QED  BY <1>1, <2>1 DEF RingsOK
<1>8. CASE \/ Elapse \/ \E s \in {"INT", "TERM"} : Signal(s)
           \/ LoopFails \/ Interrupted \/ End
  <2>1. UNCHANGED <<pc, cb, ring>>
    BY <1>8 DEF Elapse, Signal, LoopFails, Interrupted, End, control, callback, events
  <2> QED  BY <1>1, <2>1 DEF PollingOK, RingsOK
<1> QED
  BY <1>3, <1>4, <1>5, <1>6, <1>7, <1>8 DEF TerminalNext, Program

(* A handler is installed once its signal.signal is passed, and stays; a   *)
(* signal that is sent waits until it is answered or dropped.              *)
LEMMA SignalsStep ==
  ASSUME TerminalAssumption, PlaceOK, SignalsOK, TerminalNext
  PROVE  SignalsOK'
<1>0. Dashboard' = Dashboard
  BY ConfigStays
<1>1. MaxSignals \in Nat
  BY DEF TerminalAssumption
<1>2. /\ {Waiting("INT"), Waiting("TERM")} \subseteq 0 .. 1
      /\ sent \in 0 .. MaxSignals /\ swallowed \in Nat
  BY DEF Waiting, SignalsOK
<1>3. CASE \E s \in {"INT", "TERM"} : Signal(s)
  <2>1. PICK s \in {"INT", "TERM"} : Signal(s)
    BY <1>3
  <2>2. /\ UNCHANGED <<pc, handlers, swallowed>> /\ sent' = sent + 1 /\ sent < MaxSignals
        /\ pending' = pending \/ pending' = pending \union {s}
    BY <2>1 DEF Signal, control
  <2>3. handlers' = Installed'
    BY <1>0, <2>2 DEF SignalsOK, Installed
  <2>4. /\ Waiting("INT")' \in 0 .. 1 /\ Waiting("TERM")' \in 0 .. 1
        /\ Waiting("INT")' + Waiting("TERM")' <= Waiting("INT") + Waiting("TERM") + 1
        /\ pending' \subseteq {"INT", "TERM"}
    <3>1. pending' \subseteq {"INT", "TERM"} /\ pending' \subseteq pending \union {s}
      BY <2>2 DEF SignalsOK
    <3>2. CASE s = "INT"
      <4>1. "TERM" \in pending' => "TERM" \in pending
        BY <3>1, <3>2
      <4> QED  BY <3>1, <4>1 DEF Waiting
    <3>3. CASE s = "TERM"
      <4>1. "INT" \in pending' => "INT" \in pending
        BY <3>1, <3>3
      <4> QED  BY <3>1, <4>1 DEF Waiting
    <3> QED  BY <3>2, <3>3
  <2>5. swallowed' + Waiting("INT")' + Waiting("TERM")' <= sent'
    BY <1>1, <1>2, <2>2, <2>4 DEF SignalsOK
  <2> QED  BY <1>1, <1>2, <2>2, <2>3, <2>4, <2>5 DEF SignalsOK
<1>4. CASE \E s \in {"INT", "TERM"} : Handle(s)
  <2>1. PICK s \in {"INT", "TERM"} : Handle(s)
    BY <1>4
  <2>2. /\ handlers' = handlers /\ sent' = sent /\ s \in pending /\ pending' = pending \ {s}
        /\ swallowed' \in {swallowed, swallowed + 1}
    BY <2>1 DEF Handle
  <2>3. \/ UNCHANGED pc
        \/ pc = "polled" /\ pc' \in {"poll", "render", "loop"}
    BY <2>1 DEF Handle, control, NextPoll
  <2>4. handlers' = Installed'
    BY <1>0, <2>2, <2>3 DEF SignalsOK, Installed
  <2>5. /\ Waiting("INT")' \in 0 .. 1 /\ Waiting("TERM")' \in 0 .. 1
        /\ Waiting("INT")' + Waiting("TERM")' = Waiting("INT") + Waiting("TERM") - 1
        /\ pending' \subseteq {"INT", "TERM"}
    BY <2>2 DEF Waiting, SignalsOK
  <2>6. swallowed' + Waiting("INT")' + Waiting("TERM")' <= sent'
    BY <1>1, <1>2, <2>2, <2>5 DEF SignalsOK
  <2>7. swallowed' \in Nat
    BY <1>2, <2>2
  <2> QED  BY <1>1, <1>2, <2>2, <2>4, <2>5, <2>6, <2>7 DEF SignalsOK
<1>5. CASE Install
  <2>1. UNCHANGED <<pending, sent, swallowed>>
    BY <1>5 DEF Install
  <2>2. \/ pc = "sigint" /\ handlers' = {"INT"}
           /\ pc' = IF Dashboard THEN "sigterm" ELSE "loop"
        \/ pc = "sigterm" /\ handlers' = {"INT", "TERM"} /\ pc' = "loop"
    BY <1>5 DEF Install, At
  <2>3. handlers' = Installed'
    BY <1>0, <2>2 DEF Installed, PlaceOK
  <2> QED  BY <2>1, <2>3 DEF SignalsOK, Waiting
<1>6. CASE \/ LoadTool \/ LoadBpf \/ DashboardLoaded \/ Open \/ HideCursor
  <2>1. /\ UNCHANGED signals
        /\ pc \in {"load", "open", "hide"} /\ pc' \in {"load", "open", "hide", "sigint"}
    BY <1>6 DEF LoadTool, LoadBpf, DashboardLoaded, Open, HideCursor, At
  <2>2. handlers' = Installed'
    BY <1>0, <2>1 DEF SignalsOK, Installed, signals
  <2> QED  BY <2>1, <2>2 DEF SignalsOK, Waiting, signals
<1>7. CASE \/ Loop \/ PollReturns \/ PollDone \/ CpuLoop \/ CpuReport \/ DashboardLoop
           \/ Render \/ Sleep
  <2>1. /\ UNCHANGED signals
        /\ {pc, pc'} \subseteq {"loop", "poll", "polled", "sleep", "report", "render", "end"}
    BY <1>7 DEF Loop, PollReturns, PollDone, NextPoll, CpuLoop, CpuReport, DashboardLoop,
                Render, Sleep, At
  <2>2. handlers' = Installed'
    BY <1>0, <2>1 DEF SignalsOK, Installed, signals
  <2> QED  BY <2>1, <2>2 DEF SignalsOK, Waiting, signals
<1>8. CASE \/ \E m \in Modules : Submit(m)
           \/ Elapse \/ Take \/ Callback \/ LoopFails \/ Interrupted \/ End
  <2>1. UNCHANGED <<pc, signals>>
    BY <1>8 DEF Submit, Elapse, Take, Callback, LoopFails, Interrupted, End, control
  <2>2. handlers' = Installed'
    BY <1>0, <2>1 DEF SignalsOK, Installed, signals
  <2> QED  BY <2>1, <2>2 DEF SignalsOK, Waiting, signals
<1> QED
  BY <1>3, <1>4, <1>5, <1>6, <1>7, <1>8 DEF TerminalNext, Program

(* The cursor is hidden by a render and comes back with a cleanup.         *)
LEMMA ScreenStep ==
  ASSUME PlaceOK, SignalsOK, ScreenOK, TerminalNext
  PROVE  ScreenOK'
<1>0. Dashboard' = Dashboard
  BY ConfigStays
<1>1. CASE Render
  <2>1. Dashboard /\ exit = "no" /\ exit' = exit /\ UNCHANGED <<handlers, swallowed>>
    BY <1>1 DEF Render, At, PlaceOK, signals
  <2>2. handlers = {"INT", "TERM"}
    BY <1>1, <2>1 DEF Render, At, SignalsOK, Installed
  <2>3. /\ buffer' = "empty" /\ screen' = "drawn"
        /\ cursor' \in {"shown", "hidden"}
    BY <1>1 DEF Render, ScreenOK
  <2> QED  BY <1>0, <2>1, <2>2, <2>3 DEF ScreenOK
<1>2. CASE LoopFails
  <2>1. Dashboard /\ Cleanup /\ exit' = "ok"
    BY <1>2 DEF LoopFails, At, PlaceOK
  <2> QED  BY <1>0, <2>1 DEF ScreenOK, Cleanup
<1>3. CASE \E s \in {"INT", "TERM"} : Handle(s)
  <2>1. /\ handlers' = handlers
        /\ \/ ~Dashboard /\ UNCHANGED <<buffer, cursor, screen>>
           \/ Dashboard /\ Cleanup
        /\ exit' = "no" => swallowed' = swallowed + 1
        /\ exit = "no"
    BY <1>3 DEF Handle, Handler, Summary, CloseLog, Dashboard
  <2>2. swallowed \in Nat
    BY DEF SignalsOK
  <2> QED  BY <1>0, <2>1, <2>2 DEF ScreenOK, Cleanup
<1>4. CASE Interrupted
  <2>1. exit' = "interrupted" /\ buffer' = "empty" /\ cursor' \in {cursor, "hidden"}
        /\ screen' = screen
    BY <1>4 DEF Interrupted
  <2> QED  BY <1>0, <2>1 DEF ScreenOK
<1>5. CASE HideCursor
  <2>1. Dashboard /\ buffer' = "hide" /\ UNCHANGED <<cursor, screen, exit, handlers, swallowed>>
    BY <1>5 DEF HideCursor, At, PlaceOK, signals
  <2> QED  BY <1>0, <2>1 DEF ScreenOK
<1>6. CASE Install
  <2>1. UNCHANGED <<terminal, exit, swallowed>>
    BY <1>6 DEF Install
  <2>2. handlers # {"INT", "TERM"}
    BY <1>6 DEF Install, At, SignalsOK, Installed
  <2> QED  BY <1>0, <2>1, <2>2 DEF ScreenOK, terminal
<1>7. CASE \/ \E s \in {"INT", "TERM"} : Signal(s)
           \/ LoadTool \/ Open
  <2>1. UNCHANGED <<buffer, cursor, screen, handlers, swallowed>> /\ exit = "no"
    BY <1>7 DEF Signal, LoadTool, Open, At, terminal, signals
  <2> QED  BY <1>0, <2>1 DEF ScreenOK
<1>8. CASE End
  <2>1. UNCHANGED <<buffer, cursor, screen, handlers, swallowed>> /\ exit = "no" /\ exit' = "ok"
    BY <1>8 DEF End, At, CloseLog, Summary, signals
  <2> QED  BY <1>0, <2>1 DEF ScreenOK
<1>9. CASE \/ \E m \in Modules : Submit(m)
           \/ Elapse \/ LoadBpf \/ DashboardLoaded \/ Loop \/ Take \/ PollReturns
           \/ PollDone \/ Callback \/ CpuLoop \/ CpuReport \/ DashboardLoop \/ Sleep
  <2>1. UNCHANGED <<terminal, exit, signals>>
    BY <1>9 DEF Submit, Elapse, LoadBpf, DashboardLoaded, Loop, Take, PollReturns,
                PollDone, Callback, CpuLoop, CpuReport, DashboardLoop, Sleep
  <2> QED  BY <1>0, <2>1 DEF ScreenOK, terminal, signals
<1> QED
  BY <1>1, <1>2, <1>3, <1>4, <1>5, <1>6, <1>7, <1>8, <1>9 DEF TerminalNext, Program

(* The summary is printed by a handler or at the end, and only             *)
(* anomaly_detector.py closes a log.                                       *)
LEMMA SummariesStep ==
  ASSUME SignalsOK, SummariesOK, TerminalNext
  PROVE  SummariesOK'
<1>0. prog' = prog
  BY ConfigStays
<1>1. swallowed \in Nat
  BY DEF SignalsOK
<1>2. /\ summaries \in Nat /\ summaries <= swallowed + 1
      /\ exit = "no" => summaries <= swallowed
  BY <1>1 DEF SummariesOK
<1>3. CASE \E s \in {"INT", "TERM"} : Handle(s)
  <2>1. PICK s \in {"INT", "TERM"} : Handle(s)
    BY <1>3
  <2>2. /\ exit = "no"
        /\ \/ exit' = "no" /\ swallowed' = swallowed + 1
           \/ exit' = "ok" /\ swallowed' = swallowed
    BY <2>1 DEF Handle
  <2>3. /\ summaries' \in {summaries, summaries + 1}
        /\ log' # log => prog = "anomaly" /\ log' = "closed"
    BY <2>1 DEF Handle, Handler, Summary, CloseLog, Cleanup
  <2>4. summaries' \in Nat /\ summaries' <= swallowed + 1
    BY <1>1, <1>2, <2>2, <2>3
  <2> QED  BY <1>0, <1>1, <2>2, <2>3, <2>4 DEF SummariesOK
<1>4. CASE End
  <2>1. /\ exit = "no" /\ exit' = "ok" /\ swallowed' = swallowed
        /\ summaries' = summaries + 1
        /\ log' # log => prog = "anomaly" /\ log' = "closed"
    BY <1>4 DEF End, At, Summary, CloseLog, signals
  <2>2. summaries' \in Nat /\ summaries' <= swallowed + 1
    BY <1>1, <1>2, <2>1
  <2> QED  BY <1>0, <1>1, <2>1, <2>2 DEF SummariesOK
<1>5. CASE \/ \E s \in {"INT", "TERM"} : Signal(s)
           \/ LoadTool \/ Open \/ Interrupted \/ LoopFails
  <2>1. UNCHANGED <<summaries, log, swallowed>> /\ exit = "no"
    BY <1>5 DEF Signal, LoadTool, Open, Interrupted, LoopFails, Cleanup, At, terminal, records,
                signals
  <2> QED  BY <1>0, <1>1, <1>2, <2>1 DEF SummariesOK
<1>6. CASE \/ \E m \in Modules : Submit(m)
           \/ Elapse \/ LoadBpf \/ DashboardLoaded \/ HideCursor \/ Install \/ Loop
           \/ Take \/ PollReturns \/ PollDone \/ Callback \/ CpuLoop \/ CpuReport
           \/ DashboardLoop \/ Render \/ Sleep
  <2>1. UNCHANGED <<summaries, log, swallowed, exit>>
    BY <1>6 DEF Submit, Elapse, LoadBpf, DashboardLoaded, HideCursor, Install, Loop,
                Take, PollReturns, PollDone, Callback, CpuLoop, CpuReport, DashboardLoop,
                Render, Sleep, terminal, records, signals
  <2> QED  BY <1>0, <2>1 DEF SummariesOK
<1> QED
  BY <1>3, <1>4, <1>5, <1>6 DEF TerminalNext, Program

(* What a program has done when it ends.                                   *)
LEMMA ExitStep ==
  ASSUME PlaceOK, SignalsOK, ScreenOK, SummariesOK, ExitOK, TerminalNext
  PROVE  ExitOK'
<1>0. Dashboard' = Dashboard /\ prog' = prog
  BY ConfigStays
<1>1. summaries \in Nat
  BY DEF SummariesOK, SignalsOK
<1>2. CASE \E s \in {"INT", "TERM"} : Handle(s)
  <2>1. PICK s \in {"INT", "TERM"} : Handle(s)
    BY <1>2
  <2>2. exit = "no" /\ exit' \in {"no", "ok"}
    BY <2>1 DEF Handle
  <2>3. CASE Dashboard
    BY <1>0, <2>1, <2>2, <2>3 DEF Handle, Handler, Cleanup, Dashboard, ExitOK
  <2>4. CASE ~Dashboard
    <3>1. summaries' = summaries + 1 /\ cursor' = cursor /\ log' # "open"
      BY <2>1, <2>4 DEF Handle, Handler, Summary, CloseLog, SummariesOK
    <3>2. cursor' = "shown"
      BY <2>2, <2>4, <3>1 DEF ScreenOK
    <3> QED  BY <1>0, <1>1, <2>2, <2>4, <3>1, <3>2 DEF ExitOK
  <2> QED  BY <2>3, <2>4
<1>3. CASE End
  <2>1. ~Dashboard /\ exit = "no" /\ exit' = "ok"
    BY <1>3 DEF End, At, PlaceOK
  <2>2. summaries' = summaries + 1 /\ cursor' = cursor /\ log' # "open"
    BY <1>3 DEF End, Summary, CloseLog, SummariesOK
  <2>3. cursor' = "shown"
    BY <2>1, <2>2 DEF ScreenOK
  <2> QED  BY <1>0, <1>1, <2>1, <2>2, <2>3 DEF ExitOK
<1>4. CASE LoopFails
  <2>1. Dashboard /\ Cleanup /\ exit' = "ok"
    BY <1>4 DEF LoopFails, At, PlaceOK
  <2> QED  BY <1>0, <2>1 DEF ExitOK, Cleanup
<1>5. CASE Interrupted
  <2>1. /\ exit' = "interrupted" /\ "INT" \in {"INT", "TERM"} \ handlers
        /\ handlers' = handlers
    BY <1>5 DEF Interrupted, SignalsOK, signals
  <2>2. handlers = {}
    BY <2>1 DEF SignalsOK, Installed
  <2> QED  BY <2>1, <2>2 DEF ExitOK
<1>6. CASE \E s \in {"INT", "TERM"} : Signal(s)
  <2>1. /\ exit = "no" /\ cursor' = cursor
        /\ \/ exit' = "no"
           \/ exit' = "killed" /\ "TERM" \notin handlers
    BY <1>6 DEF Signal, terminal
  <2>2. exit' = "killed" => cursor' # "hidden"
    BY <2>1 DEF ScreenOK
  <2> QED  BY <2>1, <2>2 DEF ExitOK
<1>7. CASE LoadTool \/ Open
  <2>1. /\ exit' \in {"no", "error"} /\ cursor' = cursor /\ exit = "no"
        /\ pc \in {"load", "open"}
    BY <1>7 DEF LoadTool, Open, At, terminal
  <2>2. cursor # "hidden"
    BY <2>1 DEF ScreenOK, SignalsOK, Installed
  <2> QED  BY <2>1, <2>2 DEF ExitOK
<1>8. CASE \/ \E m \in Modules : Submit(m)
           \/ Elapse \/ LoadBpf \/ DashboardLoaded \/ HideCursor \/ Install \/ Loop
           \/ Take \/ PollReturns \/ PollDone \/ Callback \/ CpuLoop \/ CpuReport
           \/ DashboardLoop \/ Render \/ Sleep
  <2>1. exit = "no" /\ exit' = "no"
    BY <1>8 DEF Submit, Elapse, LoadBpf, DashboardLoaded, HideCursor, Install, Loop,
                Take, PollReturns, PollDone, Callback, CpuLoop, CpuReport, DashboardLoop,
                Render, Sleep, At
  <2> QED  BY <2>1 DEF ExitOK
<1> QED
  BY <1>2, <1>3, <1>4, <1>5, <1>6, <1>7, <1>8 DEF TerminalNext, Program

(* A callback counts and shows alike, and logs what it counts.             *)
LEMMA CountsStep ==
  ASSUME SignalsOK, SummariesOK, CountsOK, TerminalNext
  PROVE  CountsOK'
<1>0. prog' = prog
  BY ConfigStays
<1>1. shown \in Nat /\ count \in Nat /\ logged \in Nat /\ swallowed \in Nat
  BY DEF CountsOK, SignalsOK
<1>2. Ahead \in {-1, 0, 1}
  BY DEF Ahead
<1>3. CASE Callback
  <2>1. UNCHANGED <<log, swallowed>>
    BY <1>3 DEF Callback, signals
  <2>2. CASE prog = "syscall" /\ SyscallEvent
    <3>1. UNCHANGED <<shown, count, logged>> /\ Ahead' = 0 /\ Ahead = 0 /\ log # "open"
      BY <1>0, <2>2 DEF SyscallEvent, Step, Ahead, SummariesOK
    <3> QED  BY <1>1, <2>1, <3>1 DEF CountsOK
  <2>3. CASE prog = "network" /\ NetworkEvent
    <3>1. log # "open"
      BY <2>3 DEF SummariesOK
    <3>2. CASE Filtered
      <4>1. Ahead = 0 /\ logged' = logged /\ shown' = shown
        BY <3>2 DEF Filtered, Step, Ahead
      <4>2. \/ Ahead' = 1 /\ count' = count + 1
            \/ Ahead' = 0 /\ count' = count
        BY <1>0, <2>3, <3>2 DEF Filtered, Step, Ahead
      <4> QED  BY <1>1, <2>1, <3>1, <4>1, <4>2 DEF CountsOK
    <3>3. CASE cb = "counted" /\ Step("none", shown + 1, count, logged)
      <4>1. /\ Ahead = 1 /\ Ahead' = 0
            /\ shown' = shown + 1 /\ count' = count /\ logged' = logged
        BY <2>3, <3>3 DEF Step, Ahead
      <4> QED  BY <1>1, <2>1, <3>1, <4>1 DEF CountsOK
    <3> QED  BY <2>3, <3>2, <3>3 DEF NetworkEvent
  <2>4. CASE prog = "anomaly" /\ AlertEvent
    <3>1. CASE Filtered
      <4>1. Ahead = 0 /\ logged' = logged /\ shown' = shown /\ cb = "entered"
        BY <3>1 DEF Filtered, Step, Ahead
      <4>2. \/ cb' = "counted" /\ Ahead' = 1 /\ count' = count + 1
            \/ cb' = "none" /\ Ahead' = 0 /\ count' = count
        BY <1>0, <2>4, <3>1 DEF Filtered, Step, Ahead
      <4> QED  BY <1>1, <2>1, <4>1, <4>2 DEF CountsOK
    <3>2. CASE cb = "counted" /\ Step(IF log = "none" THEN "none" ELSE "printed",
                                      shown + 1, count, logged)
      <4>1. /\ Ahead = 1 /\ Ahead' = 0
            /\ shown' = shown + 1 /\ count' = count /\ logged' = logged
            /\ log = "open" => cb' = "printed"
        BY <2>4, <3>2 DEF Step, Ahead
      <4> QED  BY <1>1, <2>1, <3>2, <4>1 DEF CountsOK
    <3>3. CASE /\ cb = "printed"
               /\ Step("none", shown, count, IF log = "open" THEN logged + 1 ELSE logged)
      <4>1. /\ Ahead = 0 /\ Ahead' = 0 /\ cb' = "none"
            /\ shown' = shown /\ count' = count
            /\ logged' = IF log = "open" THEN logged + 1 ELSE logged
        BY <3>3 DEF Step, Ahead
      <4> QED  BY <1>1, <2>1, <3>3, <4>1 DEF CountsOK
    <3> QED  BY <2>4, <3>1, <3>2, <3>3 DEF AlertEvent
  <2>5. CASE Dashboard /\ DashboardEvent
    <3>1. log # "open"
      BY <2>5 DEF SummariesOK, Dashboard
    <3>2. CASE cb = "entered" /\ Step("listed", shown + 1, count, logged)
      <4>1. /\ Ahead = 0 /\ Ahead' = -1
            /\ shown' = shown + 1 /\ count' = count /\ logged' = logged
        BY <3>2 DEF Step, Ahead
      <4> QED  BY <1>1, <2>1, <3>1, <4>1 DEF CountsOK
    <3>3. CASE cb = "listed" /\ Step("none", shown, count + 1, logged)
      <4>1. /\ Ahead = -1 /\ Ahead' = 0
            /\ shown' = shown /\ count' = count + 1 /\ logged' = logged
        BY <3>3 DEF Step, Ahead
      <4> QED  BY <1>1, <2>1, <3>1, <4>1 DEF CountsOK
    <3> QED  BY <2>5, <3>2, <3>3 DEF DashboardEvent
  <2> QED  BY <1>3, <2>2, <2>3, <2>4, <2>5 DEF Callback
<1>4. CASE \E s \in {"INT", "TERM"} : Handle(s)
  <2>1. PICK s \in {"INT", "TERM"} : Handle(s)
    BY <1>4
  <2>2. UNCHANGED <<shown, count, logged>> /\ log' # "open"
    BY <2>1 DEF Handle, Handler, Summary, CloseLog, Cleanup, SummariesOK, Dashboard
  <2>3. \/ Ahead' = Ahead /\ swallowed' \in {swallowed, swallowed + 1}
        \/ Ahead' = 0 /\ swallowed' = swallowed + 1
    BY <1>0, <2>1 DEF Handle, Ahead, callback
  <2> QED  BY <1>1, <1>2, <2>2, <2>3 DEF CountsOK
<1>5. CASE Take
  <2>1. /\ UNCHANGED <<shown, count, logged, log, swallowed>>
        /\ Ahead = 0 /\ Ahead' = 0 /\ cb = "none" /\ cb' = "entered"
    BY <1>5 DEF Take, Ahead, records, signals
  <2> QED  BY <2>1 DEF CountsOK
<1>6. CASE End
  <2>1. /\ UNCHANGED <<shown, count, logged, cb, swallowed>>
        /\ log' # "open" \/ log' = log
    BY <1>6 DEF End, Summary, CloseLog, callback, signals
  <2>2. Ahead' = Ahead
    BY <1>0, <2>1 DEF Ahead
  <2> QED  BY <2>1, <2>2 DEF CountsOK
<1>7. CASE \/ \E m \in Modules : Submit(m)
           \/ \E s \in {"INT", "TERM"} : Signal(s)
           \/ Elapse \/ LoadTool \/ LoadBpf \/ DashboardLoaded \/ Open \/ HideCursor
           \/ Install \/ Loop \/ PollReturns \/ PollDone \/ CpuLoop \/ CpuReport
           \/ DashboardLoop \/ Render \/ Sleep \/ LoopFails \/ Interrupted
  <2>1. UNCHANGED <<records, cb, swallowed>>
    BY <1>7 DEF Submit, Signal, Elapse, LoadTool, LoadBpf, DashboardLoaded, Open,
                HideCursor, Install, Loop, PollReturns, PollDone, CpuLoop, CpuReport,
                DashboardLoop, Render, Sleep, LoopFails, Interrupted, Cleanup, callback,
                signals, records
  <2>2. Ahead' = Ahead
    BY <1>0, <2>1 DEF Ahead
  <2> QED  BY <2>1, <2>2 DEF CountsOK, records
<1> QED
  BY <1>3, <1>4, <1>5, <1>6, <1>7 DEF TerminalNext, Program

(* A report moves the next one by an interval, and is made when it is due. *)
LEMMA ReportsStep ==
  ASSUME TerminalAssumption, PlaceOK, ReportsOK, TerminalNext
  PROVE  ReportsOK'
<1>0. prog' = prog /\ args' = args
  BY ConfigStays
<1>1. Duration \in Nat /\ Interval \in Nat /\ now \in Nat /\ reports \in Nat
  BY DEF TerminalAssumption, ReportsOK
<1>2. (reports + 1 + 1) * Interval = next_report + Interval /\ next_report \in Nat
  <2>1. \A i \in Nat : (i + 1) * Interval = i * Interval + Interval /\ i * Interval \in Nat
    BY <1>1
  <2>2. next_report = (reports + 1) * Interval
    BY DEF ReportsOK
  <2> QED  BY <1>1, <2>1, <2>2
<1>3. CASE CpuReport
  <2>1. /\ reports' = reports + 1 /\ next_report' = next_report + Interval
        /\ now' = now /\ pc = "report" /\ pc' = "loop"
    BY <1>3 DEF CpuReport, At
  <2>2. /\ next_report < Duration + Interval
        /\ now < Duration => next_report <= now
        /\ now <= Duration
    BY <1>1, <1>2, <2>1 DEF ReportsOK, PlaceOK, NextWake
  <2>3. /\ next_report' < Duration + Interval + Interval
        /\ now < Duration => next_report' <= now + Interval
    BY <1>1, <1>2, <2>1, <2>2
  <2>4. next_report' = (reports' + 1) * Interval /\ reports' \in Nat
    BY <1>1, <1>2, <2>1
  <2> QED  BY <1>1, <2>1, <2>2, <2>3, <2>4 DEF ReportsOK
<1>4. CASE CpuLoop
  <2>1. UNCHANGED times /\ prog = "cpu"
    BY <1>4 DEF CpuLoop
  <2>2. CASE pc' = "end"
    BY <2>1, <2>2 DEF ReportsOK, times
  <2>3. CASE At("loop") /\ ~Expired /\ pc' = "sleep"
    <3>1. now < Duration
      BY <1>1, <2>1, <2>3 DEF Expired, PlaceOK, Arguments
    <3>2. next_report < Duration + Interval
      BY <1>1, <1>2, <3>1 DEF ReportsOK
    <3> QED  BY <2>1, <2>3, <3>2 DEF ReportsOK, times
  <2>4. CASE At("sleep") /\ now >= NextWake /\ pc' = "report"
    <3>1. next_report < Duration + Interval
      BY <2>1, <2>4 DEF ReportsOK, At
    <3>2. now' >= NextWake'
      BY <2>1, <2>4 DEF NextWake, times
    <3> QED  BY <2>1, <2>4, <3>1, <3>2 DEF ReportsOK, times
  <2> QED  BY <1>4, <2>2, <2>3, <2>4 DEF CpuLoop
<1>5. CASE Elapse
  <2>1. UNCHANGED <<pc, next_report, reports>> /\ now' = now + 1 /\ now < Duration
    BY <1>5 DEF Elapse, control
  <2>2. NextWake' = NextWake /\ NextWake \in Nat
    BY <1>1, <1>2, <2>1 DEF NextWake
  <2>3. now' \in 0 .. Duration
    BY <1>1, <2>1
  <2>4. now' < Duration => next_report' <= now' + Interval
    BY <1>1, <1>2, <2>1 DEF ReportsOK
  <2>5. pc' = "report" => now' >= NextWake'
    BY <1>1, <2>1, <2>2 DEF ReportsOK
  <2> QED  BY <1>0, <2>1, <2>3, <2>4, <2>5 DEF ReportsOK
<1>6. CASE \/ LoadTool \/ LoadBpf \/ DashboardLoaded \/ Open \/ HideCursor \/ Install
           \/ Loop \/ PollReturns \/ PollDone \/ DashboardLoop \/ Render \/ Sleep
           \/ \E s \in {"INT", "TERM"} : Handle(s)
  <2>1. UNCHANGED times
    BY <1>6 DEF LoadTool, LoadBpf, DashboardLoaded, Open, HideCursor, Install, Loop,
                PollReturns, PollDone, DashboardLoop, Render, Sleep, Handle
  <2>2. pc' # pc => ~(prog = "cpu" /\ pc' = "sleep") /\ pc' # "report"
    BY <1>6 DEF LoadTool, LoadBpf, DashboardLoaded, Open, HideCursor, Install, Loop,
                PollReturns, PollDone, NextPoll, DashboardLoop, Render, Sleep, Handle,
                At, PlaceOK, Dashboard, control
  <2>3. NextWake' = NextWake
    BY <2>1 DEF NextWake, times
  <2> QED  BY <1>0, <2>1, <2>2, <2>3 DEF ReportsOK, times
<1>7. CASE \/ \E m \in Modules : Submit(m)
           \/ \E s \in {"INT", "TERM"} : Signal(s)
           \/ Take \/ Callback \/ LoopFails \/ Interrupted \/ End
  <2>1. UNCHANGED <<pc, times>>
    BY <1>7 DEF Submit, Signal, Take, Callback, LoopFails, Interrupted, End, control
  <2>2. NextWake' = NextWake
    BY <2>1 DEF NextWake, times
  <2> QED  BY <1>0, <2>1, <2>2 DEF ReportsOK, times
<1> QED
  BY <1>3, <1>4, <1>5, <1>6, <1>7 DEF TerminalNext, Program

(* A program starts before everything the invariant speaks of.             *)
LEMMA TerminalStarts ==
  ASSUME TerminalAssumption, TerminalInit
  PROVE  TerminalInd
<1>1. /\ Duration \in Nat \ {0} /\ Interval \in Nat \ {0} /\ RingSize \in Nat \ {0}
      /\ MaxSignals \in Nat /\ Len(Order) \in Nat
  BY DEF TerminalAssumption
<1>2. PlaceOK /\ LoadedOK
  BY <1>1 DEF TerminalInit, PlaceOK, LoadedOK
<1>3. PollingOK
  <2>1. <<>> \in Seq({"hit", "miss", "own"}) /\ Len(<<>>) = 0
    OBVIOUS
  <2> QED  BY <1>1, <2>1 DEF TerminalInit, PollingOK, RingsOK
<1>4. SignalsOK
  BY <1>1 DEF TerminalInit, SignalsOK, Installed, Waiting
<1>5. ScreenOK /\ ExitOK
  BY DEF TerminalInit, ScreenOK, ExitOK
<1>6. SummariesOK
  BY DEF TerminalInit, SummariesOK, Arguments
<1>7. CountsOK
  BY DEF TerminalInit, CountsOK, Ahead
<1>8. ReportsOK
  <2>1. (0 + 1) * Interval = Interval
    BY <1>1
  <2> QED  BY <1>1, <2>1 DEF TerminalInit, ReportsOK
<1> QED  BY <1>2, <1>3, <1>4, <1>5, <1>6, <1>7, <1>8 DEF TerminalInd

(* No step of a program, of the system or of the user leaves it.           *)
LEMMA TerminalSteps ==
  ASSUME TerminalAssumption, TerminalInd, [TerminalNext]_terminalVars
  PROVE  TerminalInd'
<1>1. CASE TerminalNext
  BY <1>1, PlaceStep, LoadedStep, PollingStep, SignalsStep, ScreenStep, SummariesStep,
     CountsStep, ReportsStep, ExitStep DEF TerminalInd
<1>2. CASE UNCHANGED terminalVars
  <2>1. PlaceOK' /\ LoadedOK'
    BY <1>2 DEF TerminalInd, terminalVars, config, control, PlaceOK, LoadedOK, Dashboard,
                Arguments
  <2>2. PollingOK' /\ SignalsOK'
    BY <1>2 DEF TerminalInd, terminalVars, config, control, callback, events, signals,
                PollingOK, RingsOK, SignalsOK, Installed, Waiting, Dashboard
  <2>3. ScreenOK' /\ SummariesOK' /\ ExitOK'
    BY <1>2 DEF TerminalInd, terminalVars, config, signals, records, terminal, ScreenOK,
                SummariesOK, ExitOK, Dashboard
  <2>4. CountsOK'
    BY <1>2 DEF TerminalInd, terminalVars, config, callback, signals, records, CountsOK, Ahead
  <2>5. ReportsOK'
    BY <1>2 DEF TerminalInd, terminalVars, config, control, times, ReportsOK, NextWake
  <2> QED  BY <2>1, <2>2, <2>3, <2>4, <2>5 DEF TerminalInd
<1> QED  BY <1>1, <1>2

(* The invariant of the programs of the terminal, whichever is run and     *)
(* however it was called.                                                  *)
THEOREM TerminalInvariant == TerminalSpec => []TerminalInd
<1>1. TerminalInit => TerminalInd
  BY TerminalAssumption, TerminalStarts
<1>2. TerminalInd /\ [TerminalNext]_terminalVars => TerminalInd'
  BY TerminalAssumption, TerminalSteps
<1> QED  BY <1>1, <1>2, PTL DEF TerminalSpec

(* The states of a program keep their types: a callback runs only inside a *)
(* poll of a ring that was opened, no ring overfills, and no more handlers *)
(* run than signals were sent.                                             *)
THEOREM TerminalTypeCorrect == TerminalSpec => []TerminalTypeOK
<1>1. TerminalInd => TerminalTypeOK
  <2> SUFFICES ASSUME TerminalInd PROVE TerminalTypeOK
    OBVIOUS
  <2>1. ToSet(bpfs) \subseteq Modules
    BY DEF TerminalInd, LoadedOK, ToSet
  <2>2. /\ MaxSignals \in Nat /\ sent \in 0 .. MaxSignals /\ swallowed \in Nat
        /\ Waiting("INT") \in Nat /\ Waiting("TERM") \in Nat
        /\ swallowed + Waiting("INT") + Waiting("TERM") <= sent
    BY TerminalAssumption DEF TerminalAssumption, TerminalInd, SignalsOK, Waiting
  <2>3. swallowed \in 0 .. sent /\ sent <= MaxSignals
    BY <2>2
  <2>4. summaries \in 0 .. MaxSignals + 1
    BY <2>2, <2>3 DEF TerminalInd, SummariesOK
  <2>5. handlers \subseteq {"INT", "TERM"}
    BY DEF TerminalInd, SignalsOK, Installed
  <2>6. \A m \in Modules : /\ ring[m] \in Seq({"hit", "miss", "own"})
                           /\ Len(ring[m]) <= RingSize
    BY DEF TerminalInd, PollingOK, RingsOK
  <2>7. logged <= count
    BY DEF TerminalInd, CountsOK
  <2> QED
    BY <2>1, <2>3, <2>4, <2>5, <2>6, <2>7
       DEF TerminalTypeOK, TerminalInd, PlaceOK, LoadedOK, PollingOK, SignalsOK, ScreenOK,
           SummariesOK, ReportsOK, ExitOK
<1> QED  BY <1>1, TerminalInvariant, PTL

(* What a user is left with when a program of the terminal ends, and what  *)
(* it means that one goes on after a signal.                               *)
THEOREM EndsAreExplained == TerminalSpec => []EndsExplained
<1>1. TerminalInd => EndsExplained
  <2> SUFFICES ASSUME TerminalInd PROVE EndsExplained
    OBVIOUS
  <2>1. exit = "no" /\ (summaries > 0 \/ log = "closed" \/ screen = "stopped") =>
          swallowed > 0
    BY DEF TerminalInd, ScreenOK, SummariesOK, SignalsOK
  <2>2. cb = "none" => /\ count - shown \in -swallowed .. swallowed
                       /\ log = "open" => logged = count
    <3>1. cb = "none" => Ahead = 0
      BY DEF Ahead
    <3> QED  BY <3>1 DEF TerminalInd, CountsOK, SignalsOK
  <2>3. (reports - 1) * Interval < Duration
    <3>1. Duration \in Nat /\ Interval \in Nat /\ reports \in Nat
      BY TerminalAssumption DEF TerminalAssumption, TerminalInd, ReportsOK
    <3>2. \A i \in Int : /\ (i + 1) * Interval = i * Interval + Interval
                         /\ i * Interval \in Int
      BY <3>1
    <3>3. /\ reports * Interval = (reports - 1) * Interval + Interval
          /\ (reports + 1) * Interval = reports * Interval + Interval
      <4>1. reports - 1 \in Int /\ (reports - 1) + 1 = reports /\ reports \in Int
        BY <3>1
      <4> QED  BY <3>2, <4>1
    <3>4. (reports + 1) * Interval < Duration + Interval + Interval
      BY DEF TerminalInd, ReportsOK
    <3>5. (reports - 1) * Interval \in Int /\ reports * Interval \in Int
      BY <3>1, <3>2
    <3> QED  BY <3>1, <3>3, <3>4, <3>5
  <2> QED  BY <2>1, <2>2, <2>3 DEF EndsExplained, TerminalInd, ExitOK
<1> QED  BY <1>1, TerminalInvariant, PTL
=============================================================================
