# eBPF Sentinel: formal verification

TLA+ specifications of the eBPF Sentinel monitor, model-checked with TLC, and
theorems about them checked by the TLA+ proof system. Source paths are relative
to the repository root, as `src/app.py` (the backend) or
`src/src/anomaly_detector.c` (a kernel program).

## 1. The system

Four eBPF programs run inside the kernel, on the CPU and in the context of
whatever they observe. They keep their state in BPF hashes of limited size
(`BPF_HASH`, 10240 entries) and report through perf ring buffers. A Python
process loads them, polls the rings and serves what it got to a web page. A
terminal dashboard and four command-line tools load the same programs.

| Part | Source | State | Operations |
| --- | --- | --- | --- |
| Rate rules | `src/src/anomaly_detector.c` 112-187 | `open_rate`, `fork_rate`: per process a count and a window start | `sys_enter_openat`, `sys_enter_clone` |
| New destination rule | `src/src/anomaly_detector.c` 189-232 | `sock_store_ad` (thread to socket), `seen_ips` | `trace_connect_entry`, `trace_connect_return` |
| Single-call rules | `src/src/anomaly_detector.c` 52-109, 237-249 | none | setuid, setreuid, ptrace, memfd_create, mprotect |
| Network monitor | `src/src/network_monitor.c` | `sock_store`, `conn_start`, `tx_bytes`, `rx_bytes` | six probes on connect, accept, send, recv |
| Syscall tracer | `src/src/syscall_tracer.c` | `infotbl` (thread to call), `read_bytes`, `write_bytes` | entry and exit of openat and execve, exit of read and write |
| CPU profiler | `src/src/cpu_profiler.c` | `enqueue_ts`, `start_offcpu`, `oncpu_ns`, `offcpu_ns`, `runq_lat`, `counts` | wake-ups, `sched_switch`, 99 Hz sample |
| Backend | `src/app.py` | the dictionary `state`, `bpfs` | `load_bpf`, `bpf_worker`, three callbacks, `/api/metrics`, `/api/debug` |
| Frontend | `src/dashboard/ui/app.js` | sets of shown events, connection status, timers | `fetchMetrics`, status changes, visibility |
| Terminal dashboard | `src/dashboard/dashboard.py` | counters, recent events | load, callbacks, render, signal handler |
| Command-line tools | `src/tools/*.py` | display counters | load, print, signal handler |

How they interact. `bpf_worker` compiles a program, attaches its probes one
after the other, loads the next program, opens the rings when all are loaded,
and then polls for ever. A probe runs to its end on its CPU but races with
probes on others for shared hash entries. An entry probe and the return probe
of a call meet in a hash under the id of the thread. `perf_submit` fails when
the ring is full or not open, and no probe looks at its result. Callbacks write
`state` in the worker thread while request threads read it. The page polls
`/api/metrics`.

What is hard: races on hash entries between CPUs; look-up and update as two
steps; entries that outlive what they describe; ids that change or are reused
between an entry and its exit; hashes, rings and kretprobes at their limit;
calls in flight while probes are attached; a clock read before the state it is
compared with; a dictionary shared by threads without a lock; answers that
overtake each other; signals whose exception is raised inside a callback or a
bare `except`. `PROJECT.json` lists each hazard with its line, and the
properties aimed at it.

What makes each part correct:

* Rate rules: an alert is founded on enough calls within one window length, no
  call counts towards two alerts, a storm is caught.
* New destination rule: an alert names the right address, a contact is
  alerted, a repeat is not.
* Network monitor, syscall tracer: an event describes the call that raised it,
  a call has its event, totals agree with events.
* CPU profiler: the times of a task are exact, or at least never too much.
* Backend: the status tells what runs; what a request sees is consistent,
  whatever other requests do.
* Frontend: an event is shown once, the status follows the connection, the
  polling stops while the page is hidden.
* Terminal programs: they end when they should, and leave the terminal, the log
  and the summary as they should.

## 2. Modules

| Module | Models | State in the model |
| --- | --- | --- |
| `RateWindow` | both rate rules; a handler run is a step | `tracked`, `count`, `windowStart` are the hash (`rate_val_t`); `calls`, `ignored`, `alerts` are histories |
| `<module>Proofs` | the theorems about a module (section 4): `RateWindow`, `RateRace`, `NewDest`, `NetworkMonitor`, `SyscallTracer`, `Backend`, `Frontend` | |
| `CpuTerminalProofs` | the theorems about `CpuProfiler`, the kernel's half of `cpu_profiler.py`, and about `Terminal`, which runs the other half | |
| `RateRace` | the handler of a rule access by access on several CPUs | the hash, and per thread the next access (`pc`), `now` and the register of `rv->count` |
| `PerfBuffer` | the channel (BCC, external) | per CPU a ring; `delivered`, `lost` |
| `NewDest` | the new destination rule, its attachment and the poll loop; extends `PerfBuffer` | `store` is `sock_store_ad`, `seen` is `seen_ips`, `pc` the thread's place in its connect call and in the return probe |
| `NetworkMonitor` | all probes of the network monitor; extends `PerfBuffer` | `store`, `conn_start`, `tx_bytes`, `rx_bytes` are the hashes; `ops`, `op`, `hooked`, `open`, `sent`, `made` are the kernel's calls and sockets |
| `SyscallTracer` | all tracepoints of the syscall tracer | `infotbl`, `read_bytes`, `write_bytes`; the kernel's threads (`alive`) and calls (`ops`, `op`) |
| `CpuProfiler` | the scheduler tracepoints | the hashes by their names; the kernel's tasks (`state`, `cur`) |
| `Feed` | abstract: what the lists of `/api/metrics` promise the page | per stream the log of events (`feed`), per request its phase and how much of each log it is known to show (`call`) |
| `Backend` | `app.py`: `bpf_worker`, callbacks and requests as threads; implements `Feed`, uses `PerfBuffer` | `bpfs`, `active` and the fields of the dictionary `state` by name; `pc`, `at`, `pending` the worker's place; `route`, `reading` the requests |
| `Frontend` | `app.js`, against a server that behaves as `Feed` promises | `call` (of `Feed`) and `told` the polls in flight, `seen` the sets of keys, `log` the entries, `text` the status line, `timers` and `pollTimer` the intervals |
| `Terminal` | the terminal dashboard and the four tools | `pc`, `at`, `bpfs` the main program, `cb` and `evt` the callback, `handlers` and `pending` the signals, `buffer`, `cursor`, `screen` and `log` what the user is left with |

`MC<module>` holds the definitions that give constants their values. A
definition whose comment begins "mutant" is a plausible bug in the code; it is
used by no action and serves to see that a property can fail.

Correspondence in detail:

* `RateWindow`. `SysEnter(k)` is a run of `sys_enter_openat` or
  `sys_enter_clone` (a key is a rule and a process) at a time of its choice:
  `Count` when `lookup_or_try_init` returns an entry, `TurnAway` when the hash
  is full. `Expired` is the test of `now - rv->window_start`, in unsigned
  arithmetic (`Elapsed`); `NewCount` and `NewStart` are the reset and the
  increment; `Fires` the test for equality with the threshold. A new entry is
  `{0, 0}`, so the first call resets the window as in the code.
* `RateRace`. `Enter` (clock and look-up), `Check`, `ResetCount`, `ResetStart`,
  `Load`, `Store`, `Compare` are the accesses of lines 133 to 140. The race is
  undefined behaviour, so the model covers two builds: one that keeps
  `rv->count` in a register between its load and the comparison, and one that
  goes to memory each time. `WillCount`, `WillStart` and `WillAlert` are the
  refinement mapping: what the entry will be, and whether an alert will come,
  when the run under way ends, which is certain at its first access if the
  process has no other thread.
* `NewDest`. The return probe is the steps `ConnectReturns` (look-up in
  `sock_store_ad`), `Lookup`, `Update`, `Submit`, `Delete`. `ConnectFails` is
  its return at line 203, which leaves the entry. `AttachEntry`,
  `AttachReturn` and `OpenBuffer` are the order of `bpf_worker`.
* `NetworkMonitor`. A probe run is a step, because it touches only its own
  thread's entry and adds atomically; other threads run between the entry and
  the return of a call. Return probes run only for calls a kretprobe follows
  (`hooked`). Leftovers of failed connects and empty receives stay in `store`.
* `SyscallTracer`. `Exit(n, id)` is the exit probe of call n under the id the
  thread then has; `Exec` is an execve that succeeds and exits under the id of
  the leader.
* `CpuProfiler`. `SchedSwitch(c, next)` is `sched_switch`, first the outgoing,
  then the incoming task, `Wakeup` and `WakeupNew` the other two. A task may be
  woken while it runs or after it was preempted; one that exits frees its pid,
  and time for which a pid is free is no task's (`Off`).
* `Feed`. `Publish` is the `append` of a callback. `Ask` notes how long each log
  is when the request is made; `Answer` gives of every stream the window
  (`maxlen` of the deque) of a beginning of its log that lacks nothing noted. The
  server has a thread per request, so requests overlap, and of two answers the
  one that comes last may be the one that was read first.
* `Backend`. The interpreter makes one read, one append or one assignment
  atomic, so every such access of the shared dictionary is a step: `Callback`
  appends and `CountEvent` counts; `Decide` and `FailReason`, `Crash` and
  `CrashReason` are the two assignments of a status and its error; `Load` is
  `load_bpf` up to `bpfs[name] = b` and `Register` its append to
  `loaded_modules`; `ReadField(q)` reads one field of the answer to request q, and
  all `Requests` are served at once (`threaded=True`). `LoadFails` may leave probes
  attached, `NotOpened` is a program that is missing or whose ring did not open,
  `PollReturns` an empty ring or an exception. What ends `bpf_worker` is an
  exception of one of its prints (`Crash`), those that tell of a load, an opening
  or a poll that failed included. `Promise` instantiates `Feed` with the refinement
  mapping that finds in an answer how much of the log it has seen (`Seen`).
* `Frontend`. A handler runs to its end, so `StartFetch` is `fetchMetrics` up to
  its first `await`, `Serve` the making of the answer and the arrival of its
  head in time (which clears the timeout), `Apply` all that follows the body, `Fail` the `catch`. `Merge` and `Trimmed`
  are the key sets, `SetConnected` the status, `Hide` and `Show` the two
  branches of `visibilitychange`. An event is its key; two events of one second
  may have the same.
* `Terminal`. One main loop serves five programs; `prog` says which is run and
  a guard which of them an action belongs to. Python answers a signal between
  two steps, so every step has `At`, which needs that none is pending, and
  `Handle` runs the handler. Inside `perf_buffer_poll` only a callback is such a
  place, and ctypes drops the exception of `sys.exit` there (`swallowed`); so
  does the bare `except` of the dashboard at `"polled"`. `OwnWrite` is the
  event that the program's own print raises when `syscall_tracer.py` traces it,
  which its filter may let pass or not. `Open` may fail and end the program.

How the modules compose. `PerfBuffer` is the channel below: `NewDest`,
`NetworkMonitor` and `Backend` extend or instantiate it. `Feed` is the contract
above: `Backend` implements it (`ImplementsFeed`), each poll of the page being one
of its requests, and `Frontend` extends it as its server, so what is shown of the
page holds for the backend's answers without exploring both at once.

Abstractions. Names, addresses, ports and time stamps in events are left out or
are the identity of the call or socket they are read from. A thread is its id.
`runq_lat` is the number of its latencies. A hash refuses a new key when it is
full, and an update of a present key succeeds. Where `app.py` leaves the attachment
to BCC, for the tracepoints of the syscall tracer and the CPU profiler, the order
is that of the source, which is an assumption about BCC. The runs of the two
modules find the same with the probes in alphabetical order; in both orders the
entry of a call is traced before its exit, which `EventNamesItsCall` and
`ReturnedIsReported` of `SyscallTracer` need (the mutant `ProbesExitFirst`).

## 3. Runs

Passing runs:

| Run | Question | Bounds, and why they are enough |
| --- | --- | --- |
| `rate_windows` | Are alerts founded, disjoint, and storms caught? | two rules with thresholds 3 and 2, two processes, one entry in each hash, window of 2 ticks, 5 ticks, 6 calls: several windows, a burst over a boundary, two alerts of a process, both hashes full |
| `race_served` | What can races do at most, and is a single-threaded process served as specified while another races? | two threads and a third of another process, threshold 2, 3 calls per process, runs of up to 2 ticks: late `now`, lost updates, counts that survive a reset, for both builds. The hash has room for both processes; a full one is the subject of `rate_windows` |
| `newdest_rule` | Does an alert name the right address, is every contact alerted and finally delivered or lost, are repeats explained? | two threads, two addresses, two connections each, room for one in `seen_ips`, two CPUs with rings of one: both races for an address, full map, full ring, leftovers |
| `net_events` | Does an event describe its own call, is no connection missing, do totals agree? | two processes, two sockets, 3 calls, room for one process in the byte tables and one socket in `conn_start`, one accept followed at a time, every order of attachment and calls |
| `syscalls` | The same for the syscall tracer; what may stay in `infotbl`? | a process of two threads and one of a single thread, 2 calls, room for one process in the byte tables: a leftover and the call that could read it, an exec that changes an id, an id that is reused |
| `cpu_times` | Is the off-CPU time of a task exact, is no time or wake-up counted twice, does a run add at most its length? | two tasks, two CPUs, 3 ticks, 2 wake-ups, hashes with room for one: preemption, wake-up while running, exit and reuse of a pid, tasks that ran before attachment |
| `backend` | What can an answer mix? Does "running" mean that events arrive? Do the lists keep what `Feed` promises although requests overlap? | two programs, lists and rings of one, two events, two requests at once: every failure of either program, an event pushed out before it is served, requests across a callback and across each other, a crash at any print. A third program, and `cpu` that has no ring, are left to the theorems |
| `frontend` | Is an event shown once, what can the status line say, does a page that is shown poll, is a lasting outage or recovery noticed? | one stream, an answer of one event, two events, a key set of one, two polls in flight, a server that goes and comes back at will: answers out of order, keys that repeat, trimming at its limit, three failures in a row, a page loaded in the background. The streams are independent and the constants keep the relations of the code (100 <= 100 <= 200, 50 <= 50 <= 100) |
| `terminal` | In what state can each program end, and does it end? | all five programs with every combination of arguments, two programs in the dashboard, a deadline of three ticks, an interval of two, rings of two, three events, two signals: a signal at every step, a second one in the handler's wake, a report after the deadline's tick |

Runs that show where the program does something else than its text says:

| Run | What it shows |
| --- | --- |
| `newdest_startup` | an address whose alert is lost before the ring is open counts as seen for ever, so the user is never told |
| `cpu_oncpu` | a run adds nothing to the on-CPU time unless the task was woken while it ran, because the entry is deleted at the switch in |
| `term_duration` | `syscall_tracer.py` on a terminal feeds its own ring: every printed line is a write it traces, `perf_buffer_poll` need not return, and `--duration` has no effect ("Stop after N seconds") |

Deadlock is not checked: the histories and the clock are bounded, so a
behaviour of the model ends when its calls are used up. The bounds are
`MaxTime`, `MaxCalls`, `MaxRun`, `MaxConns`, `MaxOps`, `MaxBytes`, `MaxWakeups`,
`MaxEvents`, `MaxFeed`, `MaxSignals` and, for what is under way at once, `Requests`;
every other constant is a parameter of the system. `SYMMETRY` is used only in runs
without liveness.

Fairness.

* `NewDest`: each probe runs on to its end once the call has returned (weak
  fairness of `Probe`: the verifier admits no loop and a probe is not
  preempted), and a ring with events is read (weak fairness of `Poll`: the loop
  of `bpf_worker` never ends and catches what a poll raises; that no other
  ring is refilled without end is part of this assumption). None of
  applications, of attachment or of opening rings.
* `Frontend`: the interval fires while there is one (the event loop), and a poll
  ends: the server answers, or the `AbortController` of line 260 ends it, and
  once the head has come the body comes or its connection breaks (weak fairness
  of the three outcomes together; a body that is late for ever, which nothing in the
  code ends, is left out by it). None of the server or the user.
* `Terminal`: the program is scheduled and time passes. None of signals or of
  the rest of the system.

What the code does otherwise than its text says, read from the code beside the three
runs above, with the definition or the exemption of a property where it appears:

* "> 100 `open()` calls/sec" and "> 50 children/sec" (`src/README.md` 99 and 97):
  the alert comes with the call that reaches the threshold, not the one above it
  (`Fires`); up to 2*Thresh-3 calls within a second that two windows share raise
  none (`StormCaught` has the limit); and a process that comes when the hash holds
  10240 others is never counted and never alerts (`TurnAway`, `IgnoredOK`);
* "Connection to an IP never seen by this host" (`src/README.md` 98) and "Full
  visibility into TCP `connect()` and `accept()` events" (40): failed connects, and
  empty receives, leave their entries in `sock_store_ad` and `sock_store`; once 10240
  threads have left one, connections of other threads are not seen
  (`EveryContactAlerted` and `FollowedIsReported` need room for every thread);
* "Per-process CPU on/off-CPU time" (`cpu_profiler.c` 13): nobody deletes what a
  task that exits left in `start_offcpu`, and the next task with its pid is
  accounted the time since it died (`OffCpuExact` exempts a pid that is reused);
* "Poll perf buffers and BPF maps indefinitely" (`app.py` 242): `perf_buffer_poll`
  drains its ring until it is empty, so one that is refilled as fast as its
  callback drains it keeps the only worker thread, and no other ring is polled;
* "Visibility-aware polling (pause when tab hidden)" (`app.js` 394): a page loaded
  in a background tab starts a second interval when it is first shown, forgets the
  first, and goes on polling while it is hidden (`PollsWhileShown` exempts it);
* "mark offline if no data in 5s" (`app.js` 10): `STALE_TIMEOUT_MS` is read nowhere
  and `lastPollTime` only written; a page is offline after the third poll that
  failed, so a hidden one, which does not poll, says "Live" for ever.

What else follows from the code:

* two threads of a process can both alert in one window, and a thread whose
  `now` is older than the window makes the unsigned difference wrap and resets a
  window that has just begun (`AlertsBounded` says how far that can go);
* an execve by a thread that does not lead its process has no event
  (`LeftoversExplained` names the entry it leaves);
* `tx_bytes` counts what was asked for; `conn_start` is written and never read;
  an accept beyond the instances of its kretprobe is not seen;
* an answer that is overtaken by a later one is applied all the same, and shows
  again what the set of keys has forgotten since (`ShownOnce` exempts it);
* the page may go on to say "Reconnecting..." after the server is back, for
  `setReconnecting` leaves `isConnected` set and `setConnected` writes "Live"
  only when it was not (`StatusExplained`);
* Ctrl-C that arrives while the dashboard polls is swallowed; so is one that
  arrives in a callback of a tool, which prints its summary and goes on;
  `SIGTERM` ends a tool without a summary (`EndsExplained`).

## 4. Theorems

Each theorem holds for every value of the constants that satisfies the
assumption of its module. Where a run checks the same property, the run is the
small instance.

| Theorem | Statement |
| --- | --- |
| *in* `RateWindowProofs` | |
| `WindowInvariant` | `Spec => []WindowInv` |
| `TypeCorrect` | `Spec => []TypeOK` |
| `AlertsAreJustified` | an alert comes with the last of Thresh calls within one window length |
| `AlertsAreDisjoint` | two alerts of a process are at least Thresh calls apart |
| `StormsAreCaught` | 2*Thresh-2 calls within one window length include or follow closely an alert |
| *in* `RateRaceProofs` | |
| `RaceCorrect` | `Spec => []RaceOK` |
| `TypeCorrect` | `Spec => []TypeOK` |
| `AlertsAreBounded` | a process that alerts has made Thresh calls; in the register build n calls raise at most n - Thresh + 1 alerts |
| `RateWindowIsImplemented` | processes of one thread are served as `RateWindow` specifies, in both builds, if the hash has room for every process |
| `SoloAlertsAreRight` | hence the alerts for such a process are founded and apart, and its storms are caught, whatever other processes do |
| *in* `NewDestProofs` | |
| `TypeCorrect` | `Spec => []TypeOK` |
| `AlertsNameTheConnection` | an alert names the destination of the connection it is raised for |
| `ContactsAreAlerted` | a destination that is contacted under both probes is alerted or about to be, if `sock_store_ad` has room for every thread |
| `RepeatsNeedFullMap` | a thread is alerted twice for a destination only when `seen_ips` is full and lacks it |
| *in* `NetworkMonitorProofs` | |
| `TypeCorrect` | `Spec => []TypeOK` |
| `EventsNameTheirCall` | an event describes the call that raised it |
| `FollowedCallsAreReported` | a connection whose call a kretprobe follows has its event, if `sock_store` has room for every thread |
| `TotalsAreCovering` | the byte totals of a process that has entries agree with its events and cover what the stack took |
| *in* `SyscallTracerProofs` | |
| `IndHolds` | `Spec => []Ind` |
| `TypeCorrect` | `Spec => []TypeOK` |
| `EventsNameTheirCall` | an exit probe takes the entry of the call that returns, or of one that was not traced |
| `LeftoversAreExplained` | what stays in `infotbl` is of an untraced call or of the execve of a thread that is not the leader |
| `ReturnedCallsAreReported` | a traced call that returned under its own id has its event, if `infotbl` has room for every thread |
| `TotalsAreTheEvents` | the byte totals of a process that has entries are the sums of its events |
| *in* `CpuTerminalProofs`, of `CpuProfiler` | |
| `IndHolds` | `Spec => []Ind` |
| `TypeCorrect` | `Spec => []TypeOK` |
| `OffCpuIsExact` | the off-CPU time of a pid that was not given to another task is the time its task was away, and never more if it was refused an entry |
| `SharesAreDisjoint` | a task is not accounted more time than has passed |
| `WakeupsAreCountedOnce` | a wake-up has at most one latency in the histogram |
| `RunsAreNotOverCredited` | a run adds at most its length to the on-CPU time (an action property) |
| *in* `CpuTerminalProofs`, of `Terminal` | |
| `TerminalInvariant` | `TerminalSpec => []TerminalInd` |
| `TerminalTypeCorrect` | `TerminalSpec => []TerminalTypeOK` |
| `EndsAreExplained` | in what state a program of the terminal ends, and what it means that one goes on after a signal |
| *in* `BackendProofs` | |
| `TypeCorrect` | `Spec => []TypeOK` |
| `AnswersDoAgree` | what the fields of one answer may say of each other |
| `FeedIsImplemented` | `Spec => ImplementsFeed`: the lists of an answer lack nothing logged before its request, however many requests are served at once |
| `RunningIsServed` | "running" means that a ring is open and every open ring is polled |
| *in* `FrontendProofs` | |
| `TypeCorrect` | `Spec => []TypeOK` |
| `OnceCorrect` | `Spec => []OnceOK` |
| `IsShownOnce` | an event is shown and counted once while answers arrive in order and keys do not repeat |
| `StatusIsExplained` | what the status line tells of the polls |
| `ShownPagePolls` | a page that is shown polls, with one interval if it was loaded in the foreground, and then with none while it is hidden |

### Rate rules

Assumptions (`RateAssumption`): a threshold is at least 2, the machine has been
up for longer than a window when the probes are attached, and the clock plus a
window stays below 2^64. Under the last two the unsigned difference of a single
thread's times is the difference (`ElapsedIsDifference`).

The argument. The properties talk about windows, which the hash does not
remember: it holds only the current count and start. `WindowInv` relates the
hash to the history of calls, each of which carries the index of the first call
of its window (`head`): the entry describes the window of the last call
(`EntryOK`); calls are in time order (`Sorted`); a window is a run of calls with
one head, none later than its length (`Windows`); a window begins only when the
one before has expired (`Apart`); the alerts are exactly the Thresh-th calls of
windows (`AlertsOK`); whoever was turned away has no entry and the hash is full
(`IgnoredOK`). `Count` and `TurnAway` preserve it. A founded alert is then the
Thresh-th call of its window, and two alerts are in different windows or the
same call. For a storm of 2*Thresh-2 calls: if the window of the last one holds
Thresh of them, its alert is the one wanted; otherwise the window before began
before the storm, holds the other Thresh-1 calls of it and its own head, and so
raised an alert.

### Races on the entries

Assumptions (`RaceAssumption`): those of the rate rules, finitely many threads
and processes, and a bound of the clock not before the time of attachment.

`AlertsBounded` counts interleavings, so its invariant counts threads. `Stored`
is the number of calls of a process whose count was stored: its calls without
the threads between entering and storing (`Active`). A count, in the entry or in
a register on its way there, never exceeds it (`CountsOK`): an update that is
lost makes the count less, a reset sets it back, and the one store that adds one
takes a thread out of `Active`. In the register build the comparison uses the
value that was stored, so each stored call is counted towards the next alert, or
raised one, or neither, but never two of these: the alerts and what the count
contributes to the next (`Towards`) sum to no more than `Stored` (`AlertsOK`).
In the memory build the comparison reads a value that another thread stored, and
no such bound holds; there an alert means only that the calls were made.

The refinement. `SoloOK` says that what the entry of a single-threaded process
is, or will be when the run under way ends, describes the window of its last
call (`Served`), and that the times its runs have read are not later than the
clock. Three kinds of step preserve it. The first access of a run settles how
the call is counted: it is the step `Count` of `RateWindow` (`EnterBegins`,
`BeginsCounts`). Every later access does what was to be expected and changes
nothing that `RateWindow` sees (`RunGoesOn`). A step of another thread does not
touch the entry (`OthersDoNotMove`). The windows in the history of `RateWindow`
are a recursive function of the times of the calls (`Heads`); that it exists,
and that another call adds one element to it (`HeadsAppend`), is by induction.
The condition `Cardinality(Pids) <= MapSize` is needed: the processes that are
not single-threaded share the hash, and `RateWindow` does not know them.

What is proved of `RateWindow` then holds under the mapping: `RateRaceProofs`
instantiates `RateWindowProofs` with it, shows that the constants satisfy
`RateAssumption` (`MappingFits`), and restates the three results for the calls
and alerts of `RateRace` (`SoloAlertsRight`), where an alert that the run under
way is certain to raise counts as raised.

### New destination rule and network monitor

Assumptions: finitely many threads, sizes and bounds that are numbers;
`ContactsAreAlerted` needs `Cardinality(Threads) <= StoreSize`, the same
condition is part of `FollowedIsReported`. What is missed without it is told at
the end of section 3.

Why an event may be trusted is not visible in one state: the hash under a thread
id may hold the socket of an earlier call, because a call that fails leaves its
entry. `ThreadsOK` and `CallsOK` say when it does not: a kretprobe that follows
a call was attached before the call was made, and the kprobe, which is attached
before the kretprobe, has then overwritten what was left. This is where the
order of attachment enters. `Named` lifts it to the alerts raised so far.
`Promised` adds that with room for every thread the overwriting succeeds, so an
address in `seen_ips` is alerted or about to be. `Remembered` says that an
alerted address stays in `seen_ips` unless that is full, and that the second
alert of a thread proves it was.

Rings enter only by lemmas that stand at the start of both modules: submitting
adds one event to what was submitted (or to what was lost), and delivering and
opening a ring move events and forget none. What a probe submitted is then a set
that only grows, whatever the rings do.

### Totals

`TotalsCoverEvents` and `TotalsMatchEvents` compare a counter in the kernel with
a sum over a set of events. The invariant has two sides, because the hash may be
full: a process whose first bytes found no room never gets an entry, for entries
are not deleted and the hash stays full; a process that has one, or has sent
nothing yet, has every event counted. Each event adds its bytes to the sum once,
since no event is raised twice for a call. That a sum grows by what a new
element brings is proved where it is used. Sums are folds, which choose the
order of their elements, so the lemmas show by induction on the number of
elements that the function a fold chooses exists (by levels of cardinality),
that any element may come first (`AnyFirst`), and that two sums of the same set
agree (`SumsAgree`).

### Syscall tracer

Assumptions (`SyscallTracerAssumption`): finitely many processes and ids, and
the leader of a process is one of its threads. `Ind` says of every entry of
`infotbl` that a call of that id stored it, under an attached entry probe, and
that while the id is inside a call the entry is that call's or of one that is
not traced (`TableOK`). That is not inductive alone: `Exec` ends a call under
the id of another thread, so the entry of an execve stays behind, and it must
be known that the next call of its id overwrites it. It does, because an entry
of an execve means that both probes of openat were attached before
(`LeftoversExplained` with the order of `Probes`). `Filled` adds that with room
for every thread a traced call under way has its entry, which makes its report
certain.

### CPU profiler

Assumptions (`CpuProfilerAssumption`): finitely many tasks, and the time of the
first observation lies within the bound of the clock. `SharesOK` is the heart of
`Ind`: what has been accounted for a task lies before the time stamp that its
next share is measured from, so shares cannot overlap. It needs that no time
stamp lies in the future (`HashesOK`), that only a task off the processors has
its time of leaving (`OffOK`), that a processor runs one task (`KernelOK`), that
`sched_switch` wrote nothing before it was attached (`BeforeProbing`), and that
the entry of a running task in `enqueue_ts` is of this run (`RunsOK`).

`OffCpuExact` compares the hashes with the time for which the tasks themselves were
off the processors (`away`), which the program does not see: it counts from the
first time a task of the pid was seen to leave (`left`), and not while the pid is
free. The two agree until the pid is given to another task (`reused`).

### Terminal programs

Assumptions (`TerminalAssumption`): a deadline, an interval and a ring are at
least one, and the dashboard loads programs it has a callback for, each once, as
`dashboard.py` does. `Order` is any such list, so the theorems hold for the three
programs of the code where the run has two. `TerminalSpec` is without fairness.

`EndsExplained` says what a user is left with; what it needs is where the program
was when the signal came. `PlaceOK` says which program may be at which place, so
that only the dashboard ever hides the cursor, and that what is polled was loaded
(with `LoadedOK`, which counts what `load_bpf` has tried). `SignalsOK` gives the
handlers that are installed at every place (`Installed`): none until
`signal.signal` is reached, then SIGINT, in the dashboard SIGTERM as well. From
this and `ScreenOK` (a hidden cursor means that a render came after both
handlers) it follows that SIGTERM cannot kill the dashboard while the cursor is
hidden, and that a KeyboardInterrupt can leave it hidden only before the first
handler, by the flush of what `hide_cursor` wrote.

A handler that ends the program and one whose `sys.exit` is dropped do the same
until their last line. `SignalsOK` counts: the dropped ones and the signals that
wait are no more than were sent. `SummariesOK` allows one summary for each dropped
handler and one more to a program that has ended, so a run that goes on after its
summary, or with a closed log, had one dropped.

`CountsOK` is about the callback that a handler cuts short. `count` and `shown`
are not updated in one step, so their difference is `Ahead`, what the callback
that runs still owes, and at most one for every dropped handler; the log has every
alert but that of the callback under way, as long as it is open. `ReportsOK` bounds
the reports of `cpu_profiler.py`: it goes to sleep only before the deadline, and
until then the next report is at most an interval away.

### Backend

Assumptions (`BackendAssumption`): each program and each stream is listed once,
and sizes are numbers, that of the lists at least one.

`ServedOK` adds to `RunningMeansServed` what the worker remembers:
`ebpf_active` is set only when a ring was opened, `bpfs` never shrinks, and
`worker_status` becomes "running" on the word of `ebpf_active`.

An answer is read field by field while the worker writes, so what it holds was
never the state at one time. The invariants say what it is instead. `LogsOK`:
what a stream went through and what waits in its ring are events in the order of
the probes, so a position in the log can be told from an event. `ListsOK`: a
list is the window that ends at the log's end, and its counter has counted every
event but at most the one appended last (`PlaceOK` knows when that one is
pending). `ReadOK` says it
of each request alone: what `asked` notes is a length of each log, every list that
was read is the window of a beginning of its log that is no shorter, and a counter
misses at most one event of the list read before it. Nothing is said of two
requests together, for nothing holds. `AnswersAgree` follows, and so does the
refinement: its mapping (`Seen`) finds in a list the length of the beginning it is
a window of, which is unique because the events are numbered (`SeenIs`). A
callback is then `Publish`, `Request` is `Ask` (or `Drop`, for `/api/debug`), the
end of a request for the lists `Answer`, and every other step a stutter.

### Frontend

Assumptions (`FrontendAssumption`): the relations of the constants that the code
keeps, an answer is no longer than what trimming leaves in the set of keys
(`Size <= SeenKeep <= SeenMax`).

`PollsOK` says that a poll carries a status the server can send, which
`StatusExplained` needs when the answer is applied; `TimersOK` relates the number
of intervals to the id that the page remembers. For the types, `ShownOK` says
that a poll in flight shows no more of a log than there is, and bounds the keys,
the entries on the page and what was applied.

`ShownOnce` needs `OnceOK`: while answers arrive in order and keys do not repeat,
the keys of a stream end with those of the last `Size` events that were applied,
or of all of them (`Remembers`), and the log descends from the last one applied
(`Descends`). An answer that begins at or before the end of what was applied
repeats at most `Size` events of it, which the keys remember; one that begins
later leaves a gap, and none of its events was seen. In both cases the events
that are taken for new are exactly those beyond what was applied. This is where
the relations of the constants enter: trimming leaves as many keys as an answer
is long. `Merge` adds the keys one after the other; what it returns is proved by
induction over them.

### Induction, and what is only model-checked

Induction over the natural numbers is done from the well-foundedness of their
order, with a set in place of the property that the library's induction theorems
take as an operator; so it is available for the recursive functions and folds of
the modules with theorems.

Every safety property that a passing run checks is a theorem, the action
properties and the two refinements included. Only model-checked: liveness
(`ContactSettles`, `StatusFollows`, `Stops`) and whatever needs
ENABLED, which the prover does not reach.

## 5. Not modelled

* Single-call rules, scripts, page and style sheet have no state of their own.
* The sampling handler of the CPU profiler (`do_perf_event`), which only the
  command-line profiler attaches: the lost update that `RateRace` has already,
  on a counter that nothing but a printed table reads.
* Figures and formatting: the contents of the histogram, of the top senders and
  of the summaries of the tools, which are copied from kernel hashes; charts,
  filters and animation of the page; what the dashboard draws. Its third program,
  the network monitor, differs from the two of the run only in the totals its
  callback adds up.
* A request of the page that outlives the page, and several pages at once, which
  share nothing but the server: to `Backend` a request is a request, whoever made it.
* How fast events come. So nothing is said of how soon `bpf_worker` polls a ring, or
  whether it does while another is refilled.

## 6. Plan

Left are the hazards without a property. The samples that `do_perf_event` loses are
those of `RateRace`, in a counter that is only printed. What a kretprobe does not
follow, and whom a full `open_rate` turns away, runs no code of the program. The
starving of a ring in `bpf_worker` could be stated once something is known of how
fast events come. `EveryContactAlerted` and `FollowedIsReported` could say which
connections are missed when a hash is full, in place of their condition.
