------------------------------- MODULE Terminal -------------------------------
(***************************************************************************)
(* The programs of the terminal: src/dashboard/dashboard.py and the four   *)
(* tools of src/tools.  Each loads its eBPF programs, installs a signal    *)
(* handler and polls its rings until a deadline or for ever; they differ   *)
(* in what they do with an event, how they end and where a signal may      *)
(* reach them.                                                             *)
(*                                                                         *)
(* A signal that has a handler is answered by the interpreter between two  *)
(* steps of Python code, and the handler ends in sys.exit, an exception.   *)
(* Inside the C code that drains a ring there is no such step but in the   *)
(* callbacks, and an exception that leaves a callback is dropped (ctypes). *)
(* Ring, timeouts and signals are modelled from this use of them.          *)
(***************************************************************************)
EXTENDS Integers, Sequences, SequencesExt

CONSTANTS
  Progs,      \* the programs that may be run
  Order,      \* what the dashboard loads, in this order
  Duration,   \* --duration, when it is given
  Interval,   \* --interval of cpu_profiler.py
  RingSize,   \* events that fit in a ring
  MaxEvents,  \* bound: events of the rest of the system
  MaxSignals  \* bound: signals sent

Tools == {"syscall", "network", "anomaly"}
Modules == Tools \union ToSet(Order)

ASSUME TerminalAssumption ==
  /\ Progs \subseteq Tools \union {"cpu", "dashboard"}
  /\ Order \in Seq(Tools) /\ IsInjective(Order)
  /\ {Duration, Interval, RingSize} \subseteq Nat \ {0}
  /\ {MaxEvents, MaxSignals} \subseteq Nat

VARIABLES
  prog, args,        \* what is run, and its arguments
  pc, at, bpfs,      \* where it is; the program at hand, of those loaded
  cb, evt,           \* the step of the callback that runs, and its event
  ring,              \* per program: the events not yet read
  submitted,         \* how many events came from the rest of the system
  now,               \* time since start_time, up to the deadline
  next_report, reports, \* cpu_profiler.py: when the next is due; how many
  handlers, pending, \* signals with a handler; signals to be answered
  sent,              \* how many signals were sent
  shown, count,      \* events printed or listed; event_count, alert_count
  log, logged,       \* anomaly_detector.py: log_fh, and its records
  buffer, cursor, screen, \* stdout before a flush; what the terminal shows
  summaries,         \* how often the closing summary was printed
  exit,              \* "no", or how the program ended
  swallowed          \* history: handlers whose sys.exit was dropped

config == <<prog, args>>
control == <<pc, at>>
callback == <<cb, evt>>
events == <<ring, submitted>>
times == <<now, next_report, reports>>
signals == <<handlers, pending, sent, swallowed>>
records == <<shown, count, log, logged>>
terminal == <<buffer, cursor, screen, summaries>>
terminalVars == <<config, control, bpfs, callback, events, times, signals,
                  records, terminal, exit>>

Dashboard == prog = "dashboard"

(* Arguments: whether --duration is given (cpu_profiler.py has a default), *)
(* whether a filter is (--pid, --comm, --failed, --no-send-recv, --quiet), *)
(* whether there is a --log; and whether stdout is a terminal, so that     *)
(* every line that is printed is a write of its own.                       *)
Arguments ==
  {a \in [timed : BOOLEAN, filter : BOOLEAN, log : BOOLEAN, tty : BOOLEAN] :
     /\ prog = "cpu" => a.timed
     /\ Dashboard => ~a.timed /\ a.tty
     /\ a.filter => prog \in Tools
     /\ a.log => prog = "anomaly"}

TerminalInit ==
  /\ prog \in Progs /\ args \in Arguments
  /\ pc = "load" /\ at = 1 /\ bpfs = <<>>
  /\ cb = "none" /\ evt = "none"
  /\ ring = [m \in Modules |-> <<>>] /\ submitted = 0
  /\ now = 0 /\ next_report = Interval /\ reports = 0
  /\ handlers = {} /\ pending = {} /\ sent = 0
  /\ shown = 0 /\ count = 0
  /\ log = (IF args.log THEN "open" ELSE "none") /\ logged = 0
  /\ buffer = "empty" /\ cursor = "shown" /\ screen = "blank"
  /\ summaries = 0
  /\ exit = "no" /\ swallowed = 0

-----------------------------------------------------------------------------
(* The rest of the system.  A ring takes events once it is open.           *)
Opened(m) == m \in ToSet(bpfs) /\ pc \notin {"load", "open"}

Offer(m, e) ==
  ring' = [ring EXCEPT ![m] = IF Len(@) < RingSize THEN Append(@, e) ELSE @]

Submit(m) ==
  /\ exit = "no" /\ Opened(m) /\ submitted < MaxEvents
  /\ submitted' = submitted + 1
  /\ \E e \in {"hit"} \union (IF args.filter THEN {"miss"} ELSE {}) : Offer(m, e)
  /\ UNCHANGED <<config, control, bpfs, callback, times, signals, records,
                 terminal, exit>>

Elapse ==
  /\ exit = "no" /\ args.timed /\ now < Duration
  /\ now' = now + 1
  /\ UNCHANGED <<config, control, bpfs, callback, events, next_report, reports,
                 signals, records, terminal, exit>>

(* Ctrl-C, kill or timeout.  SIGTERM without a handler ends the process at *)
(* once; SIGINT without one raises KeyboardInterrupt like a handler.       *)
Signal(s) ==
  /\ exit = "no" /\ sent < MaxSignals
  /\ sent' = sent + 1
  /\ IF s = "TERM" /\ s \notin handlers
     THEN exit' = "killed" /\ UNCHANGED pending
     ELSE pending' = pending \union {s} /\ UNCHANGED exit
  /\ UNCHANGED <<config, control, bpfs, callback, events, times, handlers,
                 swallowed, records, terminal>>

-----------------------------------------------------------------------------
(* Python code runs its next step when no signal waits to be answered.     *)
At(p) == exit = "no" /\ pc = p /\ cb = "none" /\ pending = {}

(* BPF(...) and the attach calls of a tool: sys.exit when they fail.       *)
LoadTool ==
  /\ At("load") /\ ~Dashboard
  /\ \/ /\ bpfs' = IF prog = "cpu" THEN <<>> ELSE <<prog>>
        /\ pc' = "open" /\ UNCHANGED exit
     \/ exit' = "error" /\ UNCHANGED <<pc, bpfs>>
  /\ UNCHANGED <<config, at, callback, events, times, signals, records,
                 terminal>>

(* load_bpf: a program whose source is missing or that fails is skipped.   *)
LoadBpf ==
  /\ At("load") /\ Dashboard /\ at <= Len(Order)
  /\ bpfs' \in {bpfs, Append(bpfs, Order[at])}
  /\ at' = at + 1
  /\ UNCHANGED <<config, pc, callback, events, times, signals, records,
                 terminal, exit>>

DashboardLoaded ==
  /\ At("load") /\ Dashboard /\ at > Len(Order)
  /\ pc' = "open"
  /\ UNCHANGED <<config, at, bpfs, callback, events, times, signals, records,
                 terminal, exit>>

(* open_perf_buffer is not tried: what it raises ends the program.         *)
Open ==
  /\ At("open")
  /\ \/ pc' = (IF Dashboard THEN "hide" ELSE "sigint") /\ UNCHANGED exit
     \/ bpfs # <<>> /\ exit' = "error" /\ UNCHANGED pc
  /\ UNCHANGED <<config, at, bpfs, callback, events, times, signals, records,
                 terminal>>

(* hide_cursor writes to stdout, which the first render flushes.           *)
HideCursor ==
  /\ At("hide")
  /\ buffer' = "hide"
  /\ pc' = "sigint"
  /\ UNCHANGED <<config, at, bpfs, callback, events, times, signals, records,
                 cursor, screen, summaries, exit>>

Install ==
  /\ \/ At("sigint") /\ handlers' = {"INT"}
        /\ pc' = IF Dashboard THEN "sigterm" ELSE "loop"
     \/ At("sigterm") /\ handlers' = {"INT", "TERM"} /\ pc' = "loop"
  /\ UNCHANGED <<config, at, bpfs, callback, events, times, pending, sent,
                 swallowed, records, terminal, exit>>

-----------------------------------------------------------------------------
(* while time.time() < deadline of the tools, and what follows it.         *)
Expired == args.timed /\ now >= Duration

LoopForever == \* mutant: the deadline is not looked at
  /\ At("loop") /\ prog \in Tools
  /\ pc' = "poll"
  /\ UNCHANGED <<config, at, bpfs, callback, events, times, signals, records,
                 terminal, exit>>

Loop ==
  /\ At("loop") /\ prog \in Tools
  /\ pc' = IF Expired THEN "end" ELSE "poll"
  /\ UNCHANGED <<config, at, bpfs, callback, events, times, signals, records,
                 terminal, exit>>

(* perf_buffer_poll hands the events to the callback until the ring at     *)
(* hand is empty, what came meanwhile included.                            *)
Polled == bpfs[at]

Take ==
  /\ exit = "no" /\ pc = "poll" /\ cb = "none" /\ ring[Polled] # <<>>
  /\ cb' = "entered" /\ evt' = Head(ring[Polled])
  /\ ring' = [ring EXCEPT ![Polled] = Tail(@)]
  /\ UNCHANGED <<config, control, bpfs, submitted, times, signals, records,
                 terminal, exit>>

PollReturns ==
  /\ exit = "no" /\ pc = "poll" /\ cb = "none" /\ ring[Polled] = <<>>
  /\ pc' = "polled"
  /\ UNCHANGED <<config, at, bpfs, callback, events, times, signals, records,
                 terminal, exit>>

NextPollPastEnd == \* mutant: one program too many
  IF Dashboard /\ at <= Len(bpfs)
  THEN at' = at + 1 /\ pc' = "poll"
  ELSE at' = 1 /\ pc' = IF Dashboard THEN "render" ELSE "loop"

(* The end of the round of perf_buffer_poll that has just returned.        *)
NextPoll ==
  IF Dashboard /\ at < Len(bpfs)
  THEN at' = at + 1 /\ pc' = "poll"
  ELSE at' = 1 /\ pc' = IF Dashboard THEN "render" ELSE "loop"

PollDone ==
  /\ At("polled")
  /\ NextPoll
  /\ UNCHANGED <<config, bpfs, callback, events, times, signals, records,
                 terminal, exit>>

-----------------------------------------------------------------------------
(* Callbacks, one step between any two points where a signal may be        *)
(* answered.  event_count of syscall_tracer.py is left out: its own events *)
(* have no bound.                                                          *)
Passes(e) == e # "miss"

Step(c, sh, co, lo) ==
  /\ cb' = c /\ evt' = IF c = "none" THEN "none" ELSE evt
  /\ shown' = sh /\ count' = co /\ logged' = lo

(* A line on a terminal is a write, and sys_exit_write submits an event of *)
(* it to the ring of this processor, which may be the one that is read.    *)
(* The filters look at the tracer's events as at any other.                *)
OwnWrite ==
  \/ prog = "syscall" /\ args.tty /\ Opened("syscall")
     /\ \E e \in {"own"} \union (IF args.filter THEN {"miss"} ELSE {}) :
          Offer("syscall", e)
  \/ UNCHANGED ring

SyscallEvent ==
  \/ /\ cb = "entered" /\ UNCHANGED ring
     /\ Step(IF Passes(evt) THEN "counted" ELSE "none", shown, count, logged)
  \/ cb = "counted" /\ OwnWrite /\ Step("none", shown, count, logged)

Filtered ==
  /\ cb = "entered"
  /\ IF Passes(evt) THEN Step("counted", shown, count + 1, logged)
     ELSE Step("none", shown, count, logged)

NetworkEvent ==
  \/ Filtered
  \/ cb = "counted" /\ Step("none", shown + 1, count, logged)

AlertEvent ==
  \/ Filtered
  \/ /\ cb = "counted"
     /\ Step(IF log = "none" THEN "none" ELSE "printed", shown + 1, count, logged)
  \/ /\ cb = "printed"  \* a write to a closed file raises: dropped as well
     /\ Step("none", shown, count, IF log = "open" THEN logged + 1 ELSE logged)

DashboardEvent ==
  \/ cb = "entered" /\ Step("listed", shown + 1, count, logged)
  \/ cb = "listed" /\ Step("none", shown, count + 1, logged)

Callback ==
  /\ exit = "no" /\ pending = {}
  /\ \/ prog = "syscall" /\ SyscallEvent
     \/ prog = "network" /\ NetworkEvent /\ UNCHANGED ring
     \/ prog = "anomaly" /\ AlertEvent /\ UNCHANGED ring
     \/ Dashboard /\ DashboardEvent /\ UNCHANGED ring
  /\ UNCHANGED <<config, control, bpfs, submitted, times, signals, log,
                 terminal, exit>>

-----------------------------------------------------------------------------
(* The loops of cpu_profiler.py, which polls nothing, and of the dashboard.*)
NextWake == IF next_report < Duration THEN next_report ELSE Duration

CpuLoop ==
  /\ prog = "cpu"
  /\ \/ At("loop") /\ pc' = (IF Expired THEN "end" ELSE "sleep")
     \/ At("sleep") /\ now >= NextWake /\ pc' = "report"
  /\ UNCHANGED <<config, at, bpfs, callback, events, times, signals, records,
                 terminal, exit>>

CpuReport ==
  /\ At("report")
  /\ reports' = reports + 1 /\ next_report' = next_report + Interval
  /\ pc' = "loop"
  /\ UNCHANGED <<config, at, bpfs, callback, events, now, signals, records,
                 terminal, exit>>

CleanupNoCursor == \* mutant: show_cursor is forgotten
  /\ buffer' = "empty" /\ screen' = "stopped"
  /\ UNCHANGED <<cursor, summaries, log>>

(* cleanup: the cursor is back and the screen says "Dashboard stopped."    *)
Cleanup ==
  /\ buffer' = "empty" /\ cursor' = "shown" /\ screen' = "stopped"
  /\ UNCHANGED <<summaries, log>>

DashboardLoop ==
  /\ At("loop") /\ Dashboard
  /\ at' = 1 /\ pc' = IF bpfs = <<>> THEN "render" ELSE "poll"
  /\ UNCHANGED <<config, bpfs, callback, events, times, signals, records,
                 terminal, exit>>

Render ==
  /\ At("render")
  /\ buffer' = "empty" /\ screen' = "drawn"
  /\ cursor' = IF buffer = "hide" THEN "hidden" ELSE cursor
  /\ pc' = "sleep"
  /\ UNCHANGED <<config, at, bpfs, callback, events, times, signals, records,
                 summaries, exit>>

Sleep ==
  /\ At("sleep") /\ Dashboard
  /\ pc' = "loop"
  /\ UNCHANGED <<config, at, bpfs, callback, events, times, signals, records,
                 terminal, exit>>

(* except Exception: cleanup exits with status 0.                          *)
LoopFails ==
  /\ \/ At("render")
     \/ At("sleep") /\ Dashboard
  /\ Cleanup /\ exit' = "ok"
  /\ UNCHANGED <<config, control, bpfs, callback, events, times, signals,
                 shown, count, logged>>

-----------------------------------------------------------------------------
(* What a handler does before its sys.exit(0).                             *)
Summary ==
  /\ summaries' = summaries + 1
  /\ UNCHANGED <<log, buffer, cursor, screen>>

CloseLog ==
  /\ summaries' = summaries + 1
  /\ log' = IF log = "open" THEN "closed" ELSE log
  /\ UNCHANGED <<buffer, cursor, screen>>

Handler ==
  \/ prog \in {"syscall", "network", "cpu"} /\ Summary
  \/ prog = "anomaly" /\ CloseLog
  \/ Dashboard /\ Cleanup

(* sys.exit is dropped when it leaves a callback, which is cut short, and  *)
(* caught by the bare except around the poll of the dashboard.             *)
Handle(s) ==
  /\ exit = "no" /\ s \in pending \intersect handlers
  /\ pc = "poll" => cb # "none"
  /\ pending' = pending \ {s}
  /\ Handler
  /\ \/ /\ cb # "none"
        /\ cb' = "none" /\ evt' = "none" /\ OwnWrite
        /\ swallowed' = swallowed + 1 /\ UNCHANGED <<control, exit>>
     \/ /\ cb = "none" /\ Dashboard /\ pc = "polled"
        /\ NextPoll
        /\ swallowed' = swallowed + 1 /\ UNCHANGED <<callback, ring, exit>>
     \/ /\ cb = "none" /\ ~(Dashboard /\ pc = "polled")
        /\ exit' = "ok"
        /\ UNCHANGED <<control, callback, ring, swallowed>>
  /\ UNCHANGED <<config, bpfs, submitted, times, handlers, sent, shown, count,
                 logged>>

(* KeyboardInterrupt before signal.signal; stdout is flushed at exit.      *)
Interrupted ==
  /\ exit = "no" /\ "INT" \in pending \ handlers
  /\ exit' = "interrupted"
  /\ buffer' = "empty" /\ cursor' = IF buffer = "hide" THEN "hidden" ELSE cursor
  /\ UNCHANGED <<config, control, bpfs, callback, events, times, signals,
                 records, screen, summaries>>

(* Past the deadline.  A run of syscall_tracer.py gets there only with     *)
(* --duration; anomaly_detector.py calls its own handler.                  *)
End ==
  /\ At("end")
  /\ IF prog = "anomaly" THEN CloseLog ELSE Summary
  /\ exit' = "ok"
  /\ UNCHANGED <<config, control, bpfs, callback, events, times, signals,
                 shown, count, logged>>

Program ==
  \/ LoadTool \/ LoadBpf \/ DashboardLoaded \/ Open \/ HideCursor \/ Install
  \/ Loop \/ Take \/ PollReturns \/ PollDone \/ Callback
  \/ CpuLoop \/ CpuReport \/ DashboardLoop \/ Render \/ Sleep \/ LoopFails
  \/ (\E s \in {"INT", "TERM"} : Handle(s)) \/ Interrupted \/ End

TerminalNext ==
  \/ \E m \in Modules : Submit(m)
  \/ Elapse \/ \E s \in {"INT", "TERM"} : Signal(s)
  \/ Program

TerminalSpec == TerminalInit /\ [][TerminalNext]_terminalVars

(* The program is scheduled and time passes.                               *)
Fairness == WF_terminalVars(Program) /\ WF_terminalVars(Elapse)

FairSpec == TerminalSpec /\ Fairness

-----------------------------------------------------------------------------
TerminalTypeOK ==
  /\ prog \in Progs /\ args \in Arguments
  /\ pc \in {"load", "open", "hide", "sigint", "sigterm", "loop", "poll",
             "polled", "render", "sleep", "report", "end"}
  /\ ToSet(bpfs) \subseteq Modules /\ at \in 1 .. Len(Order) + 1
  /\ pc \in {"poll", "polled"} => at \in DOMAIN bpfs
  /\ cb \in {"none", "entered", "counted", "printed", "listed"}
  /\ cb # "none" => pc = "poll"
  /\ \A m \in Modules : /\ ring[m] \in Seq({"hit", "miss", "own"})
                        /\ Len(ring[m]) <= RingSize
  /\ now \in 0 .. Duration
  /\ pending \subseteq {"INT", "TERM"} /\ handlers \subseteq {"INT", "TERM"}
  /\ log \in {"none", "open", "closed"} /\ logged <= count
  /\ summaries \in 0 .. MaxSignals + 1
  /\ buffer \in {"empty", "hide"} /\ cursor \in {"shown", "hidden"}
  /\ screen \in {"blank", "drawn", "stopped"}
  /\ exit \in {"no", "ok", "error", "interrupted", "killed"}
  /\ swallowed \in 0 .. sent /\ sent <= MaxSignals

(* What a user is left with.  A run that ends as it should has given the   *)
(* cursor back, printed its summary and closed its log; a cursor stays     *)
(* hidden only when Ctrl-C comes before the handler is installed.  A run   *)
(* that goes on after a summary, a closed log or "Dashboard stopped." had  *)
(* its sys.exit swallowed.  A callback that was not cut short is counted   *)
(* and shown alike; as long as the log is open, it holds every alert; and  *)
(* cpu_profiler.py never reports more often than its intervals begin.      *)
EndsExplained ==
  /\ exit = "ok" => /\ Dashboard => cursor = "shown" /\ screen = "stopped"
                    /\ ~Dashboard => summaries > 0 /\ log # "open"
  /\ exit # "no" /\ cursor = "hidden" => exit = "interrupted" /\ handlers = {}
  /\ exit = "no" /\ (summaries > 0 \/ log = "closed" \/ screen = "stopped") =>
       swallowed > 0
  /\ cb = "none" => /\ count - shown \in -swallowed .. swallowed
                    /\ log = "open" => logged = count
  /\ (reports - 1) * Interval < Duration

OwnOutput == evt = "own" \/ "own" \in ToSet(ring["syscall"])

(* "Stop after N seconds" and "Press Ctrl-C to exit", as far as they go.   *)
(* A run of limited duration ends unless syscall_tracer.py reads the       *)
(* events of its own prints for ever, and a signal ends the program unless *)
(* a sys.exit is swallowed once more, however many were before.            *)
Stops ==
  /\ args.timed => <>(exit # "no") \/ []<>OwnOutput
  /\ \A k \in 0 .. MaxSignals :
       pending # {} /\ swallowed = k ~> exit # "no" \/ swallowed > k

(* "Stop after N seconds (0=forever)".                                     *)
StopsAfterDuration == args.timed => <>(exit # "no")
=============================================================================
