------------------------------- MODULE Backend --------------------------------
(***************************************************************************)
(* src/app.py: the thread bpf_worker, which loads the programs, opens      *)
(* their rings and polls them for ever, the callbacks it runs, and the     *)
(* threads that serve /api/metrics and /api/debug, one per request and     *)
(* many at once (threaded=True).  They share the dictionary "state"        *)
(* without a lock: the interpreter makes one read, one append or one       *)
(* assignment atomic, and nothing more.                                    *)
(*                                                                         *)
(* Each stream has one ring (PerfBuffer with a stream for a processor).    *)
(* An exception stands for the output of the process being gone: every     *)
(* print of bpf_worker can raise one.                                      *)
(***************************************************************************)
EXTENDS Integers, Sequences, FiniteSets, SequencesExt

CONSTANTS
  Order,      \* the programs in the order they are loaded; "cpu" has no ring
  StreamOrder, \* the others in the order in which /api/metrics lists them
  Size,       \* maxlen of the deques
  RingSize,   \* events that fit in a ring
  Requests,   \* bound: the requests that may be under way at once
  MaxEvents   \* bound: events the probes submit

Programs == ToSet(Order)
Streams == Programs \ {"cpu"}
Events == [src : Streams, n : 1 .. MaxEvents, counted : BOOLEAN]

ASSUME BackendAssumption ==
  /\ Order \in Seq(Programs) /\ IsInjective(Order)
  /\ StreamOrder \in Seq(Streams) /\ ToSet(StreamOrder) = Streams
  /\ IsInjective(StreamOrder)
  /\ Size \in Nat \ {0}
  /\ {RingSize, MaxEvents} \subseteq Nat

VARIABLES
  pc,              \* where bpf_worker is
  at,              \* the program it is at, as a position in Order or bpfs
  pending,         \* the event of a callback that has not counted it
  active,          \* ebpf_active
  bpfs,            \* the programs loaded, in insertion order
  list, count,     \* per stream: sc_events, net_events, alerts and
                   \*   sc_counts, net_conns, alert_count
  worker_status, worker_error, loaded_modules,
  live,            \* the programs with probes that run and submit events
  submitted,       \* how many events the probes submitted
  opened, ring, delivered, lost,  \* PerfBuffer
  route,           \* per request: what its thread serves; "answered" once an
                   \*   answer of /api/metrics is complete
  reading,         \* per request: the fields read so far
  feed,            \* history: per stream the events appended
  asked            \* history: how many there were when a request was made

worker == <<pc, at, pending, active>>
streams == <<list, count, feed>>
status == <<worker_status, worker_error>>
modules == <<bpfs, loaded_modules, live>>
perf == <<opened, ring, delivered, lost>>
request == <<route, reading, asked>>
env == <<submitted, request>>
vars == <<worker, streams, status, modules, perf, env>>

Perf == INSTANCE PerfBuffer WITH Cpus <- Streams

Init ==
  /\ pc = "start" /\ at = 1 /\ pending = <<>> /\ active = FALSE
  /\ bpfs = <<>> /\ loaded_modules = <<>> /\ live = {}
  /\ list = [s \in Streams |-> <<>>]
  /\ count = [s \in Streams |-> 0]
  /\ feed = [s \in Streams |-> <<>>]
  /\ worker_status = "starting" /\ worker_error = "none"
  /\ submitted = 0
  /\ Perf!PerfInit
  /\ route = [q \in Requests |-> "none"]
  /\ reading = [q \in Requests |-> <<>>]
  /\ asked = [q \in Requests |-> [s \in Streams |-> 0]]

-----------------------------------------------------------------------------
(* A probe of a program submits an event.                                  *)
Submit(s) ==
  /\ s \in live
  /\ submitted < MaxEvents
  /\ submitted' = submitted + 1
  /\ \E counted \in IF s = "network" THEN BOOLEAN ELSE {TRUE} :
       Perf!PerfSubmit(s, [src |-> s, n |-> submitted + 1, counted |-> counted])
  /\ UNCHANGED <<worker, streams, status, modules, request>>

-----------------------------------------------------------------------------
Start ==
  /\ pc = "start"
  /\ worker_status' = "loading"
  /\ pc' = "load"
  /\ UNCHANGED <<at, pending, active, streams, worker_error, modules, perf,
                 env>>

(* load_bpf up to bpfs[name] = b.  The constructor and extra_attach attach *)
(* the probes, and may fail when some of them are attached: the program is *)
(* not in bpfs then, and those probes stay.                                *)
Load ==
  /\ pc = "load" /\ at <= Len(Order)
  /\ bpfs' = Append(bpfs, Order[at])
  /\ live' = live \union ({Order[at]} \intersect Streams)
  /\ pc' = "register"
  /\ UNCHANGED <<at, pending, active, streams, status, loaded_modules, perf,
                 env>>

LoadFails ==
  /\ pc = "load" /\ at <= Len(Order)
  /\ live' \in {live, live \union ({Order[at]} \intersect Streams)}
  /\ at' = at + 1
  /\ UNCHANGED <<pc, pending, active, streams, status, bpfs, loaded_modules,
                 perf, env>>

Register ==
  /\ pc = "register"
  /\ loaded_modules' = Append(loaded_modules, Order[at])
  /\ pc' = "load" /\ at' = at + 1
  /\ UNCHANGED <<pending, active, streams, status, bpfs, live, perf, env>>

Loaded ==
  /\ pc = "load" /\ at > Len(Order)
  /\ pc' = "open" /\ at' = 1
  /\ UNCHANGED <<pending, active, streams, status, modules, perf, env>>

(* open_perf_buffer of each program that was loaded and has a ring; it may *)
(* fail.                                                                   *)
HasBuffer(p) == p \in Streams /\ p \in ToSet(bpfs)

Open ==
  /\ pc = "open" /\ at <= Len(Order) /\ HasBuffer(Order[at])
  /\ Perf!OpenRing(Order[at])
  /\ active' = TRUE
  /\ at' = at + 1
  /\ UNCHANGED <<pc, pending, streams, status, modules, env>>

NotOpenedActive == \* mutant: ebpf_active is set after the try, not in it
  /\ pc = "open" /\ at <= Len(Order)
  /\ active' = (active \/ HasBuffer(Order[at]))
  /\ at' = at + 1
  /\ UNCHANGED <<pc, pending, streams, status, modules, perf, env>>

NotOpened ==
  /\ pc = "open" /\ at <= Len(Order)
  /\ at' = at + 1
  /\ UNCHANGED <<pc, pending, active, streams, status, modules, perf, env>>

(* if not ebpf_active: the status and the error are two assignments.       *)
Decide ==
  /\ pc = "open" /\ at > Len(Order)
  /\ worker_status' = IF active THEN "running" ELSE "failed"
  /\ pc' = IF active THEN "loop" ELSE "failing"
  /\ UNCHANGED <<at, pending, active, streams, worker_error, modules, perf,
                 env>>

FailReason ==
  /\ pc = "failing"
  /\ worker_error' = "No eBPF programs loaded successfully"
  /\ pc' = "failed"
  /\ UNCHANGED <<at, pending, active, streams, worker_status, modules, perf,
                 env>>

Return ==
  /\ pc = "failed"
  /\ pc' = "dead"
  /\ UNCHANGED <<at, pending, active, streams, status, modules, perf, env>>
-----------------------------------------------------------------------------
(* perf_buffer_poll of the program at hand runs its callback for every     *)
(* event in the ring: cb_syscall, cb_net, cb_alert.  The event is appended *)
(* to a deque, which forgets its oldest, and is then counted.              *)
Polled == bpfs[at]

ListedUnbounded(s, e) == Append(list[s], e) \* mutant: a list without maxlen

Listed(s, e) ==
  IF Len(list[s]) = Size THEN Append(Tail(list[s]), e) ELSE Append(list[s], e)

Callback(s) ==
  /\ pc = "poll" /\ at <= Len(bpfs) /\ Polled = s /\ pending = <<>>
  /\ Perf!Deliver(s)
  /\ list' = [list EXCEPT ![s] = Listed(s, Head(ring[s]))]
  /\ feed' = [feed EXCEPT ![s] = Append(@, Head(ring[s]))]
  /\ pending' = <<Head(ring[s])>>
  /\ UNCHANGED <<pc, at, active, count, status, modules, env>>

CountEvent(s) ==
  /\ pending # <<>> /\ Polled = s
  /\ count' = [count EXCEPT ![s] = IF Head(pending).counted THEN @ + 1 ELSE @]
  /\ pending' = <<>>
  /\ UNCHANGED <<pc, at, active, list, feed, status, modules, perf, env>>

(* The poll returns when the ring is empty, or raises and is caught.  It   *)
(* looks at the ring again after every event, so it need not return while  *)
(* events keep coming: nothing is claimed of whom the loop serves in time. *)
PollReturns ==
  /\ pc = "poll" /\ at <= Len(bpfs) /\ pending = <<>>
  /\ at' = at + 1
  /\ UNCHANGED <<pc, pending, active, streams, status, modules, perf, env>>

(* The histogram and the top senders are built from the hashes of the      *)
(* kernel and replace what is shown, in one assignment each; an exception  *)
(* leaves the old ones.  Their values are left out.                        *)
ReadMaps ==
  /\ pc = "poll" /\ at > Len(bpfs)
  /\ pc' = "loop"
  /\ UNCHANGED <<at, pending, active, streams, status, modules, perf, env>>

Again ==
  /\ pc = "loop"
  /\ pc' = "poll" /\ at' = 1
  /\ UNCHANGED <<pending, active, streams, status, modules, perf, env>>

(* A print raises, be it the one that tells of a poll that failed: the last *)
(* resort of bpf_worker, and the thread ends.                              *)
Crash ==
  /\ \/ pc \in {"start", "load", "open", "failed", "loop"}
     \/ pc = "poll" /\ pending = <<>>
  /\ worker_status' = "crashed"
  /\ pc' = "crashing"
  /\ UNCHANGED <<at, pending, active, streams, worker_error, modules, perf,
                 env>>

CrashReason ==
  /\ pc = "crashing"
  /\ worker_error' = "exception"
  /\ pc' = "dead"
  /\ UNCHANGED <<at, pending, active, streams, worker_status, modules, perf,
                 env>>

-----------------------------------------------------------------------------
(* A request reads the dictionary field by field, in the order in which    *)
(* the routes metrics and debug list them; fields that stand for           *)
(* themselves (status, error, histogram, top senders) are left out, and so *)
(* are the counters in /api/debug, which has no list to compare them with. *)
(* loaded_modules is the list itself, which is turned to text when the     *)
(* answer is complete.                                                     *)
Each(part) == [i \in 1 .. Len(StreamOrder) |-> <<part, StreamOrder[i]>>]

FieldsCountFirst(r) == \* mutant: the counters are read before the lists
  IF r = "debug" THEN <<<<"bpf_instances">>>> ELSE Each("count") \o Each("list")

Fields(r) ==
  IF r = "debug" THEN <<<<"bpf_instances">>>> ELSE Each("list") \o Each("count")

Read(f) ==
  CASE f[1] = "list" -> list[f[2]]
    [] f[1] = "count" -> count[f[2]]
    [] f[1] = "bpf_instances" -> bpfs

Request(q, r) ==
  /\ route[q] \in {"none", "answered"}
  /\ route' = [route EXCEPT ![q] = r]
  /\ reading' = [reading EXCEPT ![q] = <<>>]
  /\ asked' = [asked EXCEPT ![q] = [s \in Streams |-> Len(feed[s])]]
  /\ UNCHANGED <<worker, streams, status, modules, submitted, perf>>

Complete(q) == Len(reading[q]) = Len(Fields(route[q]))

ReadField(q) ==
  /\ route[q] \in {"metrics", "debug"} /\ ~Complete(q)
  /\ reading' = [reading EXCEPT ![q] =
                   Append(@, Read(Fields(route[q])[Len(@) + 1]))]
  /\ UNCHANGED <<worker, streams, status, modules, submitted, perf, route,
                 asked>>

Respond(q) ==
  /\ Complete(q)
  /\ \/ /\ route[q] = "metrics"
        /\ route' = [route EXCEPT ![q] = "answered"] /\ UNCHANGED reading
     \/ /\ route[q] = "debug"
        /\ route' = [route EXCEPT ![q] = "none"]
        /\ reading' = [reading EXCEPT ![q] = <<>>]
  /\ asked' = [asked EXCEPT ![q] = [s \in Streams |-> 0]]
  /\ UNCHANGED <<worker, streams, status, modules, submitted, perf>>

Part(q, f) == reading[q][CHOOSE i \in DOMAIN reading[q] : Fields(route[q])[i] = f]
HasPart(q, f) == \E i \in DOMAIN reading[q] : Fields(route[q])[i] = f

-----------------------------------------------------------------------------
Poll ==
  \/ \E s \in Streams : Callback(s) \/ CountEvent(s)
  \/ PollReturns \/ ReadMaps \/ Again

Worker ==
  \/ Start \/ Load \/ LoadFails \/ Register \/ Loaded
  \/ Open \/ NotOpened \/ Decide \/ FailReason \/ Return \/ CrashReason
  \/ Poll

Serve(q) ==
  Request(q, "metrics") \/ Request(q, "debug") \/ ReadField(q) \/ Respond(q)

Next ==
  \/ \E s \in Streams : Submit(s)
  \/ Worker \/ Crash
  \/ \E q \in Requests : Serve(q)

Spec == Init /\ [][Next]_vars

-----------------------------------------------------------------------------
TypeOK ==
  /\ pc \in {"start", "load", "register", "open", "failing", "failed", "poll",
             "loop", "crashing", "dead"}
  /\ at \in 1 .. Len(Order) + 1
  /\ pending \in Seq(Events) /\ Len(pending) <= 1
  /\ active \in BOOLEAN
  /\ ToSet(bpfs) \intersect Streams \subseteq live /\ live \subseteq Streams
  /\ IsPrefix(loaded_modules, bpfs) /\ Len(bpfs) <= Len(loaded_modules) + 1
  /\ \A s \in Streams : /\ list[s] \in Seq(Events) /\ Len(list[s]) <= Size
                        /\ count[s] \in Nat
  /\ worker_status \in {"starting", "loading", "running", "failed", "crashed"}
  /\ worker_error \in {"none", "No eBPF programs loaded successfully",
                       "exception"}
  /\ submitted \in 0 .. MaxEvents
  /\ Perf!PerfTypeOK(Events)
  /\ \A q \in Requests :
       /\ route[q] \in {"none", "metrics", "debug", "answered"}
       /\ Len(reading[q]) <= Len(Fields(route[q]))
       /\ \A s \in Streams : asked[q][s] \in 0 .. Len(feed[s])

(* "running" is never claimed when nothing can arrive: a ring is open, and *)
(* every ring that is open belongs to a program the loop polls.  Which     *)
(* programs failed before does not matter.                                 *)
RunningMeansServed ==
  worker_status = "running" => opened # {} /\ opened \subseteq ToSet(bpfs)

(* What a request sees while the worker goes on.  The counter of a stream  *)
(* it reads misses at most one event of the list it read before, and every *)
(* program /api/debug read from bpfs, but for the one that is being        *)
(* loaded, is among the loaded modules of its answer.                      *)
CountersAgree(q) ==
  \A s \in Streams :
    HasPart(q, <<"list", s>>) /\ HasPart(q, <<"count", s>>) =>
      LET seen == Part(q, <<"list", s>>)
          before == {i \in DOMAIN feed[s] :
                       /\ seen # <<>> /\ feed[s][i].counted
                       /\ feed[s][i].n <= Last(seen).n}
      IN Cardinality(before) <= Part(q, <<"count", s>>) + 1

ModulesAgree(q) ==
  LET instances == Part(q, <<"bpf_instances">>)
  IN HasPart(q, <<"bpf_instances">>) =>
       \A i \in 1 .. Len(instances) - 1 : instances[i] \in ToSet(loaded_modules)

AnswersAgree == \A q \in Requests : CountersAgree(q) /\ ModulesAgree(q)

(* How many events a log had when what is shown of it was read: -1 when    *)
(* that is no window of the log.                                           *)
Shows(part, log, n) ==
  part = SubSeq(log, IF n > Size THEN n - Size + 1 ELSE 1, n)

SeenOf(part, log) ==
  IF \E n \in 0 .. Len(log) : Shows(part, log, n)
  THEN CHOOSE n \in 0 .. Len(log) : Shows(part, log, n) ELSE -1

Seen(q, s) == SeenOf(Part(q, <<"list", s>>), feed[s])

(* The lists behave as Feed promises the page: what an answer shows is a   *)
(* window of what was appended, and lacks nothing that was appended before *)
(* the request, however many are served meanwhile.                         *)
CallOf(q) ==
  CASE route[q] = "metrics" -> [phase |-> "asked", upto |-> asked[q]]
    [] route[q] = "answered" -> [phase |-> "answered",
                                 upto |-> [s \in Streams |-> Seen(q, s)]]
    [] OTHER -> [phase |-> "idle", upto |-> [s \in Streams |-> 0]]

Promise == INSTANCE Feed WITH call <- [q \in Requests |-> CallOf(q)]

ImplementsFeed == Promise!FeedSpec
=============================================================================
