------------------------------ MODULE CpuProfiler ------------------------------
(***************************************************************************)
(* src/src/cpu_profiler.c: the raw tracepoints sched_wakeup,               *)
(* sched_wakeup_new and sched_switch, and the hashes they keep per task.   *)
(* The scheduler they watch is external: tasks sleep, are woken, run and   *)
(* exit, and a pid that is free is given to a new task.                    *)
(*                                                                         *)
(* sched_switch runs with the run queue locked, so a handler run is a step:*)
(* nobody wakes or picks the tasks it is about.  Time passes in Tick.      *)
(***************************************************************************)
EXTENDS Integers, Sequences, FiniteSets, Functions

CONSTANTS
  Tasks,     \* the pids; the handlers leave out 0, the idle task
  Cpus,      \* the processors
  Idle,      \* what a processor without a task runs
  MapSize,   \* max_entries of a hash (BPF_HASH: 10240)
  BootTime,  \* the kernel clock when the first probe is attached
  MaxTime,   \* bound: last value of the clock
  MaxWakeups \* bound: number of wake-ups

ASSUME CpuProfilerAssumption ==
  /\ IsFiniteSet(Tasks) /\ Idle \notin Tasks
  /\ {MapSize, MaxTime, MaxWakeups} \subseteq Nat
  /\ BootTime \in 1 .. MaxTime

VARIABLES
  attached,      \* how many of the Probes are attached
  clock,         \* bpf_ktime_get_ns
  state,         \* kernel: "free" (no such task), "asleep", "ready", "running"
  cur,           \* kernel: per processor the task it runs
  enqueue_ts,    \* the hashes, each a function on the tasks it has an entry of
  start_offcpu,
  oncpu_ns,
  offcpu_ns,
  runq_lat,      \* the number of latencies put into the histogram
  wakeups,       \* history: the number of wake-ups
  onSince,       \* history: when the task was last switched in under the
                 \*   probe, 0 when it was not
  left,          \* history: the pids seen to leave a processor
  reused,        \* history: those of them given to another task since
  away,          \* history: the time the tasks of such a pid have been off
                 \*   the processors since then; a free pid has no task
  refused        \* history: the tasks that a full hash has refused an entry

kernel == <<state, cur>>
maps == <<enqueue_ts, start_offcpu, oncpu_ns, offcpu_ns, runq_lat>>
history == <<wakeups, onSince, left, reused, away, refused>>
vars == <<attached, clock, kernel, maps, history>>

(* BCC attaches raw tracepoints in the order of the source.                *)
Probes == <<"sched_wakeup", "sched_wakeup_new", "sched_switch">>

On(probe) == \E i \in 1 .. attached : Probes[i] = probe

HasRoom(map, t) == t \in DOMAIN map \/ Cardinality(DOMAIN map) < MapSize

(* The update of a hash: a new entry is refused when the hash is full.     *)
Put(map, t, value) ==
  IF HasRoom(map, t)
  THEN [u \in DOMAIN map \union {t} |-> IF u = t THEN value ELSE map[u]]
  ELSE map

Value(map, t) == IF t \in DOMAIN map THEN map[t] ELSE 0

(* lookup_or_try_init and lock_xadd.                                       *)
Add(map, t, delta) == Put(map, t, Value(map, t) + delta)

Delete(map, t) == Restrict(map, DOMAIN map \ {t})

-----------------------------------------------------------------------------
(* The probes are attached to a system that runs.                          *)
Init ==
  /\ attached = 0
  /\ clock = BootTime
  /\ cur \in [Cpus -> Tasks \union {Idle}]
  /\ \A c, d \in Cpus : cur[c] = cur[d] /\ cur[c] # Idle => c = d
  /\ state \in [Tasks -> {"free", "asleep", "ready", "running"}]
  /\ \A t \in Tasks : state[t] = "running" <=> \E c \in Cpus : cur[c] = t
  /\ enqueue_ts = <<>> /\ start_offcpu = <<>>
  /\ oncpu_ns = <<>> /\ offcpu_ns = <<>>
  /\ runq_lat = 0 /\ wakeups = 0
  /\ onSince = [t \in Tasks |-> 0]
  /\ left = {} /\ reused = {}
  /\ away = [t \in Tasks |-> 0]
  /\ refused = {}

Attach ==
  /\ attached < Len(Probes)
  /\ attached' = attached + 1
  /\ UNCHANGED <<clock, kernel, maps, history>>

(* A task is off the processors after one of its pid was seen to leave.    *)
Off(t) == t \in left /\ state[t] \in {"asleep", "ready"}

Tick ==
  /\ clock < MaxTime
  /\ clock' = clock + 1
  /\ away' = [t \in Tasks |-> IF Off(t) THEN away[t] + 1 ELSE away[t]]
  /\ UNCHANGED <<attached, kernel, maps, wakeups, onSince, left, reused, refused>>

(* The handlers of the two wake-ups: enqueue_ts.update.                    *)
Enqueue(t, probe) ==
  /\ wakeups < MaxWakeups
  /\ wakeups' = wakeups + 1
  /\ enqueue_ts' = IF On(probe) THEN Put(enqueue_ts, t, clock) ELSE enqueue_ts
  /\ UNCHANGED <<attached, clock, cur, start_offcpu, oncpu_ns, offcpu_ns,
                 runq_lat, onSince, left, away, refused>>

(* A sleeping task becomes ready.  A task that was about to sleep, and is  *)
(* still running or was preempted, is woken too and stays as it is.        *)
Wakeup(t) ==
  /\ state[t] # "free"
  /\ state' = [state EXCEPT ![t] = IF @ = "asleep" THEN "ready" ELSE @]
  /\ Enqueue(t, "sched_wakeup")
  /\ UNCHANGED reused

WakeupNew(t) ==
  /\ state[t] = "free"
  /\ state' = [state EXCEPT ![t] = "ready"]
  /\ Enqueue(t, "sched_wakeup_new")
  /\ reused' = reused \union (left \intersect {t})

-----------------------------------------------------------------------------
(* The outgoing task: its on-CPU time is measured from enqueue_ts.         *)
Left(prev) == IF prev = Idle THEN start_offcpu ELSE Put(start_offcpu, prev, clock)

OnCpu(prev) ==
  IF prev \in DOMAIN enqueue_ts
  THEN Add(oncpu_ns, prev, clock - enqueue_ts[prev]) ELSE oncpu_ns

(* The incoming task: its entries in enqueue_ts and start_offcpu are used  *)
(* and deleted.                                                            *)
DequeuedNot(next) == enqueue_ts \* mutant: enqueue_ts.delete is forgotten

Dequeued(next) == Delete(enqueue_ts, next)

Returned(prev, next) == Delete(Left(prev), next)

OffCpuOfLast(next) == \* mutant: update for lookup_or_try_init and add
  IF next \in DOMAIN start_offcpu
  THEN Put(offcpu_ns, next, clock - start_offcpu[next]) ELSE offcpu_ns

OffCpu(next) ==
  IF next \in DOMAIN start_offcpu
  THEN Add(offcpu_ns, next, clock - start_offcpu[next]) ELSE offcpu_ns

Refused(prev, next) ==
  {t \in {prev} \ {Idle} : ~HasRoom(start_offcpu, t)}
    \union {t \in {next} : t \in DOMAIN start_offcpu /\ ~HasRoom(offcpu_ns, t)}

SwitchProbe(prev, next) ==
  /\ oncpu_ns' = OnCpu(prev)
  /\ runq_lat' = IF next \in DOMAIN enqueue_ts THEN runq_lat + 1 ELSE runq_lat
  /\ enqueue_ts' = Dequeued(next)
  /\ offcpu_ns' = OffCpu(next)
  /\ start_offcpu' = Returned(prev, next)
  /\ onSince' = [t \in Tasks |-> IF t = next THEN clock ELSE onSince[t]]
  /\ left' = left \union ({prev} \ {Idle})
  /\ refused' = refused \union Refused(prev, next)

(* A processor goes from one task to another.  The one that leaves sleeps, *)
(* stays ready (it is preempted) or exits.                                 *)
SchedSwitch(c, next) ==
  LET prev == cur[c]
  IN /\ prev # next
     /\ next # Idle => state[next] = "ready"
     /\ \E s \in IF prev = Idle THEN {"ready"} ELSE {"asleep", "ready", "free"} :
          state' = [t \in Tasks |-> CASE t = next -> "running"
                                      [] t = prev -> s
                                      [] OTHER -> state[t]]
     /\ cur' = [cur EXCEPT ![c] = next]
     /\ IF On("sched_switch") THEN SwitchProbe(prev, next)
                              ELSE UNCHANGED <<maps, onSince, left, refused>>
     /\ UNCHANGED <<attached, clock, wakeups, reused, away>>

Next ==
  \/ Attach \/ Tick
  \/ \E t \in Tasks : Wakeup(t) \/ WakeupNew(t)
  \/ \E c \in Cpus, next \in Tasks \union {Idle} : SchedSwitch(c, next)

Spec == Init /\ [][Next]_vars

-----------------------------------------------------------------------------
Hash(map, Values) == DOMAIN map \subseteq Tasks /\ \A t \in DOMAIN map : map[t] \in Values
Times == BootTime .. MaxTime
Durations == 0 .. MaxTime - BootTime

TypeOK ==
  /\ attached \in 0 .. Len(Probes)
  /\ clock \in Times
  /\ state \in [Tasks -> {"free", "asleep", "ready", "running"}]
  /\ cur \in [Cpus -> Tasks \union {Idle}]
  /\ \A t \in Tasks : state[t] = "running" <=> \E c \in Cpus : cur[c] = t
  /\ Hash(enqueue_ts, Times) /\ Hash(start_offcpu, Times)
  /\ Hash(oncpu_ns, Durations) /\ Hash(offcpu_ns, Durations)
  /\ runq_lat \in Nat /\ wakeups \in 0 .. MaxWakeups
  /\ onSince \in [Tasks -> Times \union {0}]
  /\ reused \subseteq left /\ left \subseteq Tasks
  /\ away \in [Tasks -> Durations]
  /\ refused \subseteq Tasks

(* What the two hashes say of the time a task has been off: the time added *)
(* up, and the time since it left when it is off.                          *)
OffTime(t) ==
  Value(offcpu_ns, t)
    + (IF Off(t) /\ t \in DOMAIN start_offcpu THEN clock - start_offcpu[t] ELSE 0)

(* "Off-CPU time accumulator: pid -> total ns off CPU": of a task that has *)
(* its pid to itself the hashes hold the time it has been off since it     *)
(* first left, however it is preempted, woken and moved, and where a full  *)
(* hash has refused it an entry never more than that.                      *)
OffCpuExact ==
  \A t \in Tasks \ reused :
    /\ OffTime(t) <= away[t]
    /\ t \notin refused => OffTime(t) = away[t]

(* On-CPU and off-CPU time are never counted twice over: together they are *)
(* at most the time since the first probe was attached, even for a pid     *)
(* that is used again and one woken before sched_switch is attached.       *)
AccountedAtMostElapsed ==
  \A t \in Tasks :
    Value(oncpu_ns, t) + Value(offcpu_ns, t) <= clock - BootTime

(* "Scheduler run-queue latency": a wake-up puts at most one latency into  *)
(* the histogram, however often the task is preempted afterwards.          *)
WakeupCountedOnce == runq_lat <= wakeups

(* What a switch out under the probes adds to the on-CPU time, relative to *)
(* the time since the switch in.                                           *)
SwitchedOut(t) ==
  state[t] = "running" /\ state'[t] # "running" /\ onSince[t] # 0

Credit(t) == Value(oncpu_ns', t) - Value(oncpu_ns, t)

(* A run adds at most its length.                                          *)
OnCpuNeverOver ==
  [][\A t \in Tasks : SwitchedOut(t) => Credit(t) <= clock - onSince[t]]_vars

(* The comment "Compute how long it was running (on-CPU delta)": a run     *)
(* adds its length, as long as oncpu_ns has room for the task.             *)
OnCpuIsRunTime ==
  [][\A t \in Tasks : SwitchedOut(t) /\ HasRoom(oncpu_ns, t) =>
       Credit(t) = clock - onSince[t]]_vars
=============================================================================
