------------------------------ MODULE RateWindow ------------------------------
(***************************************************************************)
(* The two rate rules of src/src/anomaly_detector.c: the file open storm   *)
(* (sys_enter_openat, open_rate) and the fork bomb (sys_enter_clone,       *)
(* fork_rate).  Both probes run the same code on a hash of their own: one  *)
(* entry per process, holding the number of calls counted in the current   *)
(* window and the time the window started.                                 *)
(*                                                                         *)
(* Here a handler run is one step, which is what happens to a process      *)
(* whose calls do not overlap: a probe is not preempted on its CPU and     *)
(* nobody else writes the entry of that process.  RateRace has the same    *)
(* handlers access by access and implements this module when every process *)
(* is single-threaded.                                                     *)
(***************************************************************************)
EXTENDS Integers, Sequences, FiniteSets

CONSTANTS
  Rules,     \* the rules: openat and clone
  Pids,      \* the processes (tgid, the upper half of pid_tgid)
  Thresh,    \* OPEN_RATE_THRESH and FORK_RATE_THRESH, one per rule
  Window,    \* WINDOW_NS
  MapSize,   \* max_entries of the hash of a rule (BPF_HASH: 10240)
  ClockMod,  \* 2^64: the subtraction of two u64 times wraps there
  BootTime,  \* the kernel clock when the probes are attached
  MaxTime,   \* bound: last value of the clock
  MaxCalls   \* bound: calls made by all processes under all rules

(* A rule needs at least two calls; the kernel has been up for longer than *)
(* a window before a BCC program is loaded; the clock stays far from 2^64. *)
ASSUME RateAssumption ==
  /\ IsFiniteSet(Pids)
  /\ Thresh \in [Rules -> Nat \ {0, 1}]
  /\ Window \in Nat
  /\ MapSize \in Nat
  /\ BootTime \in Nat /\ BootTime > Window
  /\ MaxTime \in Nat
  /\ ClockMod \in Nat /\ ClockMod > MaxTime + Window
  /\ MaxCalls \in Nat

Keys == Rules \X Pids

T(k) == Thresh[k[1]]

VARIABLES
  clock,        \* bpf_ktime_get_ns: the last time read, the same on every CPU
  tracked,      \* the keys that have an entry in the hash of their rule
  count,        \* rate_val_t.count
  windowStart,  \* rate_val_t.window_start
  calls,        \* history: the counted calls, each with its time and head,
                \*   the index of the first call of the window it fell in
  ignored,      \* history: the times of the calls that found the hash full
  alerts        \* history: the alerts submitted, each by its key and call

vars == <<clock, tracked, count, windowStart, calls, ignored, alerts>>

Call == [ts : Nat, head : Nat]
Alert == [key : Keys, call : Nat]

(* The u64 difference now - window_start. *)
Elapsed(t, s) == IF t >= s THEN t - s ELSE ClockMod - (s - t)

ExpiredEarly(t, s) == Elapsed(t, s) >= Window \* mutant: one tick early

Expired(t, s) == Elapsed(t, s) > Window

(* open_rate and fork_rate are separate hashes. *)
HasRoom(k) == Cardinality({p \in Pids : <<k[1], p>> \in tracked}) < MapSize

NewCountTwice(k, t) == \* mutant: a call counts twice
  IF Expired(t, windowStart[k]) THEN 1 ELSE count[k] + 2

NewCountNoReset(k, t) == count[k] + 1 \* mutant: the count is never reset

(* rv->count after the increment, for a call at time t. *)
NewCount(k, t) == IF Expired(t, windowStart[k]) THEN 1 ELSE count[k] + 1

NewStartNoReset(k, t) == windowStart[k] \* mutant: the start is never reset

NewStart(k, t) == IF Expired(t, windowStart[k]) THEN t ELSE windowStart[k]

-----------------------------------------------------------------------------
Init ==
  /\ clock = BootTime
  /\ tracked = {}
  /\ count = [k \in Keys |-> 0]
  /\ windowStart = [k \in Keys |-> 0]
  /\ calls = [k \in Keys |-> <<>>]
  /\ ignored = [k \in Keys |-> <<>>]
  /\ alerts = {}

FiresFrom(k, c) == c >= T(k) \* mutant: every call from the Thresh-th on

(* rv->count == OPEN_RATE_THRESH, rv->count == FORK_RATE_THRESH            *)
Fires(k, c) == c = T(k)

(* A call at time t whose process has an entry or gets one. *)
Count(k, t) ==
  LET n == Len(calls[k]) + 1
      c == NewCount(k, t)
  IN /\ k \in tracked \/ HasRoom(k)
     /\ clock' = t
     /\ tracked' = tracked \union {k}
     /\ windowStart' = [windowStart EXCEPT ![k] = NewStart(k, t)]
     /\ count' = [count EXCEPT ![k] = c]
     /\ calls' = [calls EXCEPT ![k] = Append(@, [ts |-> t, head |-> n - c + 1])]
     /\ alerts' = IF Fires(k, c) THEN alerts \union {[key |-> k, call |-> n]}
                                  ELSE alerts
     /\ UNCHANGED ignored

(* lookup_or_try_init fails: the hash is full, the probe returns at once. *)
TurnAway(k, t) ==
  /\ k \notin tracked
  /\ ~HasRoom(k)
  /\ clock' = t
  /\ ignored' = [ignored EXCEPT ![k] = Append(@, t)]
  /\ UNCHANGED <<tracked, count, windowStart, calls, alerts>>

Made == UNION {{k} \X DOMAIN (calls[k] \o ignored[k]) : k \in Keys}

SysEnter(k) ==
  /\ Cardinality(Made) < MaxCalls
  /\ \E t \in clock .. MaxTime : Count(k, t) \/ TurnAway(k, t)

Next == \E k \in Keys : SysEnter(k)

Spec == Init /\ [][Next]_vars

-----------------------------------------------------------------------------
TypeOK ==
  /\ clock \in Nat
  /\ tracked \subseteq Keys
  /\ count \in [Keys -> Nat]
  /\ windowStart \in [Keys -> Nat]
  /\ calls \in [Keys -> Seq(Call)]
  /\ ignored \in [Keys -> Seq(Nat)]
  /\ alerts \subseteq Alert

(* Calls i to n of a key were made within one window length. *)
Within(k, i, n) == i >= 1 /\ calls[k][n].ts - calls[k][i].ts <= Window

(* An alert is never unfounded: the call that raised it is the last of     *)
(* Thresh calls of that process made within one window length.             *)
AlertJustified ==
  \A a \in alerts : /\ a.call \in 1 .. Len(calls[a.key])
                    /\ Within(a.key, a.call - T(a.key) + 1, a.call)

(* The comment "fire once per window": two alerts of a process are at      *)
(* least Thresh calls apart, so no call is counted towards both.           *)
AlertsDisjoint ==
  \A a, b \in alerts :
    a.key = b.key /\ a.call < b.call => b.call - a.call >= T(a.key)

(* The reach of tumbling windows: a watched process that makes 2*Thresh-2  *)
(* calls within one window length has raised an alert, at the latest with  *)
(* the last of them and at most a window length before the first.          *)
StormCaught ==
  \A k \in Keys : \A n \in 1 .. Len(calls[k]) :
    LET i == n - (2 * T(k) - 2) + 1
    IN Within(k, i, n) =>
         \E a \in alerts :
           /\ a.key = k
           /\ a.call \in 1 .. n
           /\ calls[k][i].ts - calls[k][a.call].ts <= Window

-----------------------------------------------------------------------------
(* What the entry of a key says about its calls: the current window is the *)
(* one of the last call, count is how many calls it holds and windowStart  *)
(* the time of its first.                                                  *)
EntryOK(k) ==
  LET c == calls[k] n == Len(c)
  IN IF n = 0 THEN count[k] = 0 /\ windowStart[k] = 0
     ELSE /\ count[k] = n - c[n].head + 1
          /\ windowStart[k] = c[c[n].head].ts

(* The calls of a key are in time order.                                   *)
Sorted(c) == \A i, j \in 1 .. Len(c) : i <= j => c[i].ts <= c[j].ts

(* A window is a run of calls with the same head, none more than Window    *)
(* after it.                                                               *)
Windows(c) ==
  \A j \in 1 .. Len(c) :
    /\ c[j].head \in 1 .. j
    /\ \A m \in c[j].head .. j : c[m].head = c[j].head
    /\ c[j].ts - c[c[j].head].ts <= Window

(* A call that starts a window comes more than Window after the head of    *)
(* the window before.                                                      *)
Apart(c) ==
  \A j \in 2 .. Len(c) :
    c[j].head = j => c[j].ts - c[c[j - 1].head].ts > Window

(* The alerts of a key are exactly the calls that were the Thresh-th of    *)
(* their window.                                                           *)
AlertsOK(k) ==
  LET c == calls[k]
  IN \A n \in 1 .. Len(c) : [key |-> k, call |-> n] \in alerts <=>
                             n = c[n].head + T(k) - 1

(* A process is turned away only while it has no entry and the hash of its *)
(* rule is full, which it then stays.                                      *)
IgnoredOK(k) ==
  /\ calls[k] # <<>> => k \in tracked
  /\ ignored[k] # <<>> => k \notin tracked /\ ~HasRoom(k)

(* The clock has not gone back.                                            *)
ClockOK ==
  /\ clock > Window
  /\ \A k \in Keys : \A i \in 1 .. Len(calls[k]) : calls[k][i].ts <= clock

KeyOK(k) ==
  /\ EntryOK(k)
  /\ Sorted(calls[k]) /\ Windows(calls[k]) /\ Apart(calls[k])
  /\ AlertsOK(k)
  /\ IgnoredOK(k)

(* The inductive invariant behind the properties above.                    *)
WindowInv ==
  /\ TypeOK
  /\ ClockOK
  /\ \A a \in alerts : a.call \in 1 .. Len(calls[a.key])
  /\ \A k \in Keys : KeyOK(k)

=============================================================================
