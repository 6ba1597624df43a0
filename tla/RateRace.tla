------------------------------- MODULE RateRace -------------------------------
(***************************************************************************)
(* The rate rules of src/src/anomaly_detector.c with their memory accesses *)
(* apart: the threads of a process run sys_enter_openat (or sys_enter_clone*)
(* on several CPUs at once, on the entry of one process and without a lock.*)
(* The two probes run the same code on a hash each, so one rule is enough. *)
(*                                                                         *)
(* The accesses race.  What a build makes of them is chosen at the start:  *)
(*   "register"  clang at -O2, as BCC runs it: the count is loaded once    *)
(*               (or known to be 0 after a reset), stored once, and the    *)
(*               comparison uses the value that was stored;                *)
(*   "memory"    every access of the source goes to the entry.             *)
(*                                                                         *)
(* A handler run is not preempted on its CPU, and perf_submit ends it.     *)
(***************************************************************************)
EXTENDS Integers, Sequences, FiniteSets, SequencesExt, FiniteSetsExt

CONSTANTS
  Threads,   \* the threads that make the system calls
  Pids,      \* the processes (tgid)
  ProcOf,    \* the process of each thread
  Thresh,    \* OPEN_RATE_THRESH, FORK_RATE_THRESH
  Window,    \* WINDOW_NS
  MapSize,   \* max_entries of the hash
  ClockMod,  \* 2^64
  BootTime,  \* the kernel clock when the probe is attached
  Builds,    \* the builds considered: "register", "memory"
  MaxTime,   \* bound: last value of the clock
  MaxCalls,  \* bound: calls made by a process
  MaxRun     \* bound: clock ticks between the start and the end of a run

ASSUME RaceAssumption ==
  /\ IsFiniteSet(Pids) /\ IsFiniteSet(Threads)
  /\ ProcOf \in [Threads -> Pids]
  /\ Thresh \in Nat \ {0, 1}
  /\ Window \in Nat /\ MapSize \in Nat /\ MaxCalls \in Nat /\ MaxRun \in Nat
  /\ BootTime \in Nat /\ BootTime > Window
  /\ MaxTime \in Nat /\ MaxTime >= BootTime
  /\ ClockMod \in Nat /\ ClockMod > MaxTime + Window
  /\ Builds \subseteq {"register", "memory"}

VARIABLES
  build,        \* the build that runs, an element of Builds
  clock,        \* bpf_ktime_get_ns: the last time read
  tracked,      \* the processes that have an entry
  count,        \* rate_val_t.count
  windowStart,  \* rate_val_t.window_start
  pc,           \* per thread: the next access of its handler run
  now,          \* per thread: the local now
  reg,          \* per thread: the register that holds rv->count
  made,         \* per thread: history, the number of its call in its process
  calls,        \* history: the times of the counted calls of a process
  ignored,      \* history: the times of the calls that found the hash full
  alerts        \* history: the alerts submitted

vars == <<build, clock, tracked, count, windowStart, pc, now, reg, made,
          calls, ignored, alerts>>

entry == <<tracked, count, windowStart>>
history == <<calls, ignored>>

(* The u64 difference now - window_start: it wraps when window_start is    *)
(* the later one.                                                          *)
Elapsed(t, s) == IF t >= s THEN t - s ELSE ClockMod - (s - t)

ExpiredEarly(t, s) == Elapsed(t, s) >= Window \* mutant: one tick early

Expired(t, s) == Elapsed(t, s) > Window

HasRoom == Cardinality(tracked) < MapSize

Running(th) == pc[th] # "idle"

-----------------------------------------------------------------------------
Init ==
  /\ build \in Builds
  /\ clock = BootTime
  /\ tracked = {}
  /\ count = [p \in Pids |-> 0]
  /\ windowStart = [p \in Pids |-> 0]
  /\ pc = [th \in Threads |-> "idle"]
  /\ now = [th \in Threads |-> 0]
  /\ reg = [th \in Threads |-> 0]
  /\ made = [th \in Threads |-> 0]
  /\ calls = [p \in Pids |-> <<>>]
  /\ ignored = [p \in Pids |-> <<>>]
  /\ alerts = {}

(* The time is read, then the entry looked up or inserted; a full hash     *)
(* ends the run.                                                           *)
Enter(th) ==
  LET p == ProcOf[th]
  IN /\ ~Running(th)
     /\ Len(calls[p]) + Len(ignored[p]) < MaxCalls
     /\ \E t \in clock .. MaxTime :
          /\ \A o \in Threads : Running(o) => t - now[o] <= MaxRun
          /\ clock' = t
          /\ IF p \in tracked \/ HasRoom
             THEN /\ tracked' = tracked \union {p}
                  /\ calls' = [calls EXCEPT ![p] = Append(@, t)]
                  /\ now' = [now EXCEPT ![th] = t]
                  /\ made' = [made EXCEPT ![th] = Len(calls[p]) + 1]
                  /\ pc' = [pc EXCEPT ![th] = "check"]
                  /\ UNCHANGED ignored
             ELSE /\ ignored' = [ignored EXCEPT ![p] = Append(@, t)]
                  /\ UNCHANGED <<tracked, calls, now, made, pc>>
     /\ UNCHANGED <<build, count, windowStart, reg, alerts>>

(* if (now - rv->window_start > WINDOW_NS)                                 *)
Check(th) ==
  /\ pc[th] = "check"
  /\ pc' = [pc EXCEPT ![th] =
       CASE ~Expired(now[th], windowStart[ProcOf[th]]) -> "load"
         [] OTHER -> IF build = "memory" THEN "reset_count" ELSE "reset_start"]
  /\ UNCHANGED <<build, clock, entry, now, reg, made, history, alerts>>

(* rv->count = 0: a dead store in the register build.                      *)
ResetCount(th) ==
  /\ pc[th] = "reset_count"
  /\ count' = [count EXCEPT ![ProcOf[th]] = 0]
  /\ pc' = [pc EXCEPT ![th] = "reset_start"]
  /\ UNCHANGED <<build, clock, tracked, windowStart, now, reg, made, history,
                 alerts>>

(* rv->window_start = now                                                  *)
ResetStart(th) ==
  /\ pc[th] = "reset_start"
  /\ windowStart' = [windowStart EXCEPT ![ProcOf[th]] = now[th]]
  /\ reg' = [reg EXCEPT ![th] = 0]
  /\ pc' = [pc EXCEPT ![th] = IF build = "memory" THEN "load" ELSE "store"]
  /\ UNCHANGED <<build, clock, tracked, count, now, made, history, alerts>>

LoadTwice(th) == \* mutant: the increment is applied at the load as well
  /\ pc[th] = "load"
  /\ reg' = [reg EXCEPT ![th] = count[ProcOf[th]] + 1]
  /\ pc' = [pc EXCEPT ![th] = "store"]
  /\ UNCHANGED <<build, clock, entry, now, made, history, alerts>>

(* rv->count++, the load and the store.                                    *)
Load(th) ==
  /\ pc[th] = "load"
  /\ reg' = [reg EXCEPT ![th] = count[ProcOf[th]]]
  /\ pc' = [pc EXCEPT ![th] = "store"]
  /\ UNCHANGED <<build, clock, entry, now, made, history, alerts>>

AlertingEarly(th, c) == \* mutant: one call early
  alerts' = IF c >= Thresh - 1
            THEN alerts \union {[pid |-> ProcOf[th], call |-> made[th]]}
            ELSE alerts

(* if (rv->count == OPEN_RATE_THRESH), and the alert.                      *)
Alerting(th, c) ==
  alerts' = IF c = Thresh
            THEN alerts \union {[pid |-> ProcOf[th], call |-> made[th]]}
            ELSE alerts

Store(th) ==
  /\ pc[th] = "store"
  /\ count' = [count EXCEPT ![ProcOf[th]] = reg[th] + 1]
  /\ IF build = "memory"
     THEN /\ pc' = [pc EXCEPT ![th] = "compare"]
          /\ UNCHANGED alerts
     ELSE /\ pc' = [pc EXCEPT ![th] = "idle"]
          /\ Alerting(th, reg[th] + 1)
  /\ UNCHANGED <<build, clock, tracked, windowStart, now, reg, made, history>>

(* The comparison loads the count again.                                   *)
Compare(th) ==
  /\ pc[th] = "compare"
  /\ Alerting(th, count[ProcOf[th]])
  /\ pc' = [pc EXCEPT ![th] = "idle"]
  /\ UNCHANGED <<build, clock, entry, now, reg, made, history>>

Step(th) == Enter(th) \/ Check(th) \/ ResetCount(th) \/ ResetStart(th)
            \/ Load(th) \/ Store(th) \/ Compare(th)

Next == \E th \in Threads : Step(th)

Spec == Init /\ [][Next]_vars

-----------------------------------------------------------------------------
TypeOK ==
  /\ build \in Builds
  /\ clock \in BootTime .. MaxTime
  /\ tracked \subseteq Pids
  /\ count \in [Pids -> 0 .. MaxCalls]
  /\ windowStart \in [Pids -> 0 .. MaxTime]
  /\ pc \in [Threads -> {"idle", "check", "reset_count", "reset_start",
                         "load", "store", "compare"}]
  /\ now \in [Threads -> 0 .. MaxTime]
  /\ reg \in [Threads -> 0 .. MaxCalls]
  /\ made \in [Threads -> 0 .. MaxCalls]
  /\ calls \in [Pids -> Seq(BootTime .. MaxTime)]
  /\ ignored \in [Pids -> Seq(BootTime .. MaxTime)]
  /\ alerts \subseteq [pid : Pids, call : 1 .. MaxCalls]

AlertsOf(p) == {a \in alerts : a.pid = p}

(* What survives the races: a process that alerts has made Thresh calls,   *)
(* and in the register build each alert takes a call of its own beyond     *)
(* them, so a storm of n calls raises at most n - Thresh + 1 alerts.       *)
AlertsBounded ==
  \A p \in Pids :
    LET n == Len(calls[p])
    IN AlertsOf(p) # {} =>
         /\ n >= Thresh
         /\ build = "register" => Cardinality(AlertsOf(p)) <= n - Thresh + 1

-----------------------------------------------------------------------------
(* A process of one thread is served as RateWindow says, whatever the      *)
(* build and however its runs overlap with those of other processes: a run *)
(* takes effect at its first step, because nobody else changes the entry,  *)
(* so what it will write is known then.  RateWindow is instantiated for    *)
(* the processes of one thread; the windows of a process follow from the   *)
(* times of its calls, and the clock is the time of the last of them.  The *)
(* others share their hash, so it must have room for every process: what   *)
(* happens when it has not is RateWindow's own subject.                    *)
Solo == {p \in Pids : Cardinality({th \in Threads : ProcOf[th] = p}) = 1}

SoloClock ==
  Max({BootTime} \union UNION {ToSet(calls[p] \o ignored[p]) : p \in Solo})

Heads(ts) ==
  LET head[i \in 1 .. Len(ts)] ==
        IF i = 1 THEN 1
        ELSE IF ts[i] - ts[head[i - 1]] > Window THEN i ELSE head[i - 1]
  IN [i \in 1 .. Len(ts) |-> [ts |-> ts[i], head |-> head[i]]]

Runner(p) == CHOOSE th \in Threads : ProcOf[th] = p

WillReset(p) ==
  LET th == Runner(p)
  IN \/ pc[th] = "check" /\ Expired(now[th], windowStart[p])
     \/ pc[th] \in {"reset_count", "reset_start"}

WillCount(p) ==
  LET th == Runner(p)
  IN CASE WillReset(p) -> 1
       [] pc[th] \in {"check", "load"} /\ ~WillReset(p) -> count[p] + 1
       [] pc[th] = "store" -> reg[th] + 1
       [] OTHER -> count[p]

WillStart(p) == IF WillReset(p) THEN now[Runner(p)] ELSE windowStart[p]

WillAlert(p) ==
  IF Running(Runner(p)) /\ WillCount(p) = Thresh THEN {made[Runner(p)]} ELSE {}

Rule == "rate"
SoloKeys == {Rule} \X Solo

W == INSTANCE RateWindow WITH
  Rules <- {Rule},
  Pids <- Solo,
  Thresh <- [r \in {Rule} |-> Thresh],
  MaxCalls <- MaxCalls * Cardinality(Solo),
  clock <- SoloClock,
  tracked <- SoloKeys \intersect ({Rule} \X tracked),
  count <- [k \in SoloKeys |-> WillCount(k[2])],
  windowStart <- [k \in SoloKeys |-> WillStart(k[2])],
  calls <- [k \in SoloKeys |-> Heads(calls[k[2]])],
  ignored <- [k \in SoloKeys |-> ignored[k[2]]],
  alerts <- UNION {{[key |-> <<Rule, p>>, call |-> n] :
                      n \in {a.call : a \in AlertsOf(p)} \union WillAlert(p)} :
                     p \in Solo}

ImplementsRateWindow == W!Spec
=============================================================================
