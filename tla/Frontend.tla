------------------------------- MODULE Frontend -------------------------------
(***************************************************************************)
(* src/dashboard/ui/app.js: the page that polls /api/metrics.  A poll      *)
(* starts every interval whether or not the last one was answered, so that *)
(* answers arrive in any order; what was shown is remembered by a key; the *)
(* status line follows the outcomes; the interval stops while the page is  *)
(* hidden.  A handler runs to its end before the next begins.              *)
(*                                                                         *)
(* The server is what Feed promises: an answer lacks nothing logged before *)
(* its poll, and that is all.  It is "up" while it answers within the 4    *)
(* seconds after which a poll is aborted; the body of an answer may still  *)
(* be late, for it has no limit.  An event is its key, which a later event *)
(* of the same second may have too.                                        *)
(***************************************************************************)
EXTENDS Feed, FiniteSets, SequencesExt

CONSTANTS
  SeenMax,   \* keys remembered before the set is trimmed (200; alerts: 100)
  SeenKeep,  \* keys kept then (100; alerts: 50)
  MaxLog,    \* MAX_LOG_ENTRIES, MAX_ALERT_ENTRIES
  MaxFeed    \* bound: events of a stream; Requests bounds the polls in flight

ASSUME FrontendAssumption ==
  /\ {SeenMax, SeenKeep, MaxLog, MaxFeed} \subseteq Nat \ {0}
  /\ Size <= SeenKeep /\ SeenKeep <= SeenMax

VARIABLES
  up,           \* server: answers in time
  worker,       \* server: worker_status
  told,         \* per poll: the worker_status of its answer
  seen,         \* per stream: seenSyscallKeys and so on, in insertion order
  log,          \* per stream: the entries on the page, newest first
  count,        \* per stream: syscallCount, netCount, alertCount
  text,         \* what the status line says
  isConnected, consecutiveErrors,
  hidden,       \* document.hidden
  timers,       \* how many intervals run
  pollTimer,    \* whether pollTimer holds one of them
  loadedHidden, \* history: the page was loaded in a background tab
  reordered,    \* history: an answer was applied after a later one
  applied       \* history: per stream the newest event applied

server == <<feed, up, worker>>
polls == <<call, told>>
entries == <<seen, log, count, reordered, applied>>
line == <<text, isConnected, consecutiveErrors>>
visibility == <<hidden, timers, pollTimer, loadedHidden>>
vars == <<server, polls, entries, line, visibility>>

Unasked == [f \in Requests |-> Idle]

-----------------------------------------------------------------------------
(* The page is loaded, and its first poll started.                         *)
Init ==
  /\ feed = [s \in Streams |-> <<>>]
  /\ \E f \in Requests : call = [Unasked EXCEPT ![f] = Asked]
  /\ told = [f \in Requests |-> "loading"]
  /\ up \in BOOLEAN /\ worker = "loading"
  /\ seen = [s \in Streams |-> <<>>]
  /\ log = [s \in Streams |-> <<>>]
  /\ count = [s \in Streams |-> 0]
  /\ reordered = FALSE /\ applied = [s \in Streams |-> 0]
  /\ text = "connecting" /\ isConnected = FALSE /\ consecutiveErrors = 0
  /\ hidden \in BOOLEAN /\ loadedHidden = hidden
  /\ timers = 1 /\ pollTimer = TRUE

(* The server: an event with a key of its own, or with one that another    *)
(* event of this second has; all the events of a run may be of one second. *)
Event(s) ==
  /\ Len(feed[s]) < MaxFeed
  /\ \E e \in (ToSet(feed[s]) \union {Len(feed[s]) + 1}) \intersect Events :
       Publish(s, e)
  /\ UNCHANGED <<up, worker, told, entries, line, visibility>>

Toggle ==
  /\ up' = ~up
  /\ UNCHANGED <<feed, worker, polls, entries, line, visibility>>

WorkerMoves ==
  /\ worker # "dead"
  /\ worker' \in IF worker = "loading" THEN {"running", "dead"} ELSE {"dead"}
  /\ UNCHANGED <<feed, up, polls, entries, line, visibility>>

-----------------------------------------------------------------------------
(* fetchMetrics up to its first await.  Any idle poll is as good.          *)
StartFetch ==
  LET idle == {f \in Requests : call[f].phase = "idle"}
  IN /\ idle # {}
     /\ Ask(CHOOSE f \in idle : TRUE)
     /\ UNCHANGED told

Interval ==
  /\ timers > 0
  /\ StartFetch
  /\ UNCHANGED <<server, entries, line, visibility>>

(* The server has put the answer together, and its head is there in time:  *)
(* clearTimeout.                                                           *)
Serve(f) ==
  /\ up
  /\ Answer(f)
  /\ told' = [told EXCEPT ![f] = worker]
  /\ UNCHANGED <<up, worker, entries, line, visibility>>

-----------------------------------------------------------------------------
(* The keys of a list that are not known yet are remembered and shown; the *)
(* set is then trimmed to those that were remembered last.                 *)
Remember(set, key) == IF key \in ToSet(set) THEN set ELSE Append(set, key)

Merge(known, keys) ==
  LET set[i \in 0 .. Len(keys)] ==
        IF i = 0 THEN known ELSE Remember(set[i - 1], keys[i])
  IN set[Len(keys)]

Newest(keys, n) ==
  IF Len(keys) <= n THEN keys ELSE SubSeq(keys, Len(keys) - n + 1, Len(keys))

TrimmedOldest(keys) == \* mutant: slice(0, 100)
  IF Len(keys) > SeenMax THEN SubSeq(keys, 1, SeenKeep) ELSE keys

TrimmedLate(keys) == \* mutant: >= for >, off by one
  IF Len(keys) > SeenMax + 1 THEN Newest(keys, SeenKeep) ELSE keys

Trimmed(keys) == IF Len(keys) > SeenMax THEN Newest(keys, SeenKeep) ELSE keys

ShowStreams(r) ==
  LET merged == [s \in Streams |-> Merge(seen[s], Window(feed[s], r.upto[s]))]
      fresh == [s \in Streams |->
                  SubSeq(merged[s], Len(seen[s]) + 1, Len(merged[s]))]
  IN /\ seen' = [s \in Streams |-> Trimmed(merged[s])]
     /\ log' = [s \in Streams |->
                  LET all == Reverse(fresh[s]) \o log[s]
                  IN SubSeq(all, 1, IF Len(all) < MaxLog THEN Len(all) ELSE MaxLog)]
     /\ count' = [s \in Streams |-> count[s] + Len(fresh[s])]
     /\ reordered' = (reordered \/ \E s \in Streams : r.upto[s] < applied[s])
     /\ applied' = [s \in Streams |->
                      IF r.upto[s] > applied[s] THEN r.upto[s] ELSE applied[s]]

(* setConnected: what it says of the worker, and "Live" only when the page *)
(* was not connected before.                                               *)
SetConnectedKeepsErrors(w) == \* mutant: the counter is not reset
  /\ UNCHANGED consecutiveErrors
  /\ isConnected' = (w = "running")
  /\ text' = CASE w = "dead" -> "worker down"
               [] w = "loading" -> "loading"
               [] w = "running" -> IF isConnected THEN text ELSE "live"

SetConnected(w) ==
  /\ consecutiveErrors' = 0
  /\ isConnected' = (w = "running")
  /\ text' = CASE w = "dead" -> "worker down"
               [] w = "loading" -> "loading"
               [] w = "running" -> IF isConnected THEN text ELSE "live"

Release(f) ==
  /\ Drop(f)
  /\ told' = [told EXCEPT ![f] = "loading"]

Apply(f) ==
  /\ call[f].phase = "answered"
  /\ SetConnected(told[f])
  /\ ShowStreams(call[f])
  /\ Release(f)
  /\ UNCHANGED <<up, worker, visibility>>

(* catch: the poll was refused or aborted, or its body broke off.          *)
Fail(f) ==
  /\ ~up /\ call[f].phase # "idle"
  /\ consecutiveErrors' = IF consecutiveErrors < 3 THEN consecutiveErrors + 1
                          ELSE consecutiveErrors
  /\ IF consecutiveErrors + 1 >= 3
     THEN text' = "unreachable" /\ isConnected' = FALSE
     ELSE text' = "reconnecting" /\ UNCHANGED isConnected
  /\ Release(f)
  /\ UNCHANGED <<up, worker, entries, visibility>>

-----------------------------------------------------------------------------
(* visibilitychange.                                                       *)
HideRunsOn == \* mutant: no clearInterval
  /\ ~hidden
  /\ hidden' = TRUE
  /\ pollTimer' = FALSE
  /\ UNCHANGED <<server, polls, entries, line, timers, loadedHidden>>

Hide ==
  /\ ~hidden
  /\ hidden' = TRUE
  /\ timers' = IF pollTimer THEN timers - 1 ELSE timers
  /\ pollTimer' = FALSE
  /\ UNCHANGED <<server, polls, entries, line, loadedHidden>>

ShowPollsOnce == \* mutant: the interval is not started again
  /\ hidden
  /\ hidden' = FALSE
  /\ StartFetch
  /\ UNCHANGED <<server, entries, line, timers, pollTimer, loadedHidden>>

Show ==
  /\ hidden
  /\ hidden' = FALSE
  /\ StartFetch
  /\ timers' = timers + 1 /\ pollTimer' = TRUE
  /\ UNCHANGED <<server, entries, line, loadedHidden>>

Next ==
  \/ \E s \in Streams : Event(s)
  \/ Toggle \/ WorkerMoves \/ Interval \/ Hide \/ Show
  \/ \E f \in Requests : Serve(f) \/ Apply(f) \/ Fail(f)

Spec == Init /\ [][Next]_vars

(* The interval fires while there is one, the browser ends every poll that *)
(* the server answers or that has waited too long, and a body arrives or   *)
(* its connection breaks.                                                  *)
Fairness ==
  /\ WF_vars(Interval)
  /\ \A f \in Requests : WF_vars(Serve(f) \/ Apply(f) \/ Fail(f))

FairSpec == Spec /\ Fairness

-----------------------------------------------------------------------------
Texts == {"connecting", "live", "loading", "worker down", "reconnecting",
          "unreachable"}

TypeOK ==
  /\ FeedTypeOK
  /\ worker \in {"loading", "running", "dead"}
  /\ told \in [Requests -> {"loading", "running", "dead"}]
  /\ \A s \in Streams : /\ seen[s] \in Seq(Events) /\ IsInjective(seen[s])
                        /\ Len(seen[s]) <= SeenMax
                        /\ log[s] \in Seq(Events) /\ Len(log[s]) <= MaxLog
                        /\ applied[s] \in 0 .. Len(feed[s]) /\ count[s] \in Nat
  /\ text \in Texts
  /\ consecutiveErrors \in 0 .. 3
  /\ pollTimer = ~hidden \/ timers = 1

Repeats(s) == \E i, j \in DOMAIN feed[s] : i < j /\ feed[s][i] = feed[s][j]

(* "Track what we've already rendered to avoid duplicates": as long as     *)
(* answers are applied in the order in which they were read and no two     *)
(* events share a key, no event is shown or counted twice, in spite of the *)
(* trimming, and the entries are in the order of the events.               *)
ShownOnce ==
  ~reordered =>
    \A s \in Streams : ~Repeats(s) =>
      /\ count[s] <= applied[s]
      /\ \A i \in 1 .. Len(log[s]) - 1 : log[s][i] > log[s][i + 1]

(* What the status line tells of the polls.  "Live" means that no poll     *)
(* failed since; "Server unreachable" is three failures in a row.  "Reconnecting" *)
(* may also be what one or two failures left behind: the answers after     *)
(* them do not take it away.                                               *)
StatusExplained ==
  /\ text = "live" => isConnected /\ consecutiveErrors = 0
  /\ isConnected => text \in {"live", "reconnecting"}
  /\ text = "unreachable" <=> consecutiveErrors = 3
  /\ consecutiveErrors \in {1, 2} => text = "reconnecting"
  /\ text = "reconnecting" /\ consecutiveErrors = 0 => isConnected

(* A page that is shown never stops polling, and one that was loaded in    *)
(* the foreground has exactly one interval then, and none while it is      *)
(* hidden, however often it is hidden and shown again.  Of a page loaded   *)
(* in a background tab the latter is not true, against the comment "pause  *)
(* when tab hidden" (app.js:394): when it is first shown the interval of   *)
(* its load is forgotten and runs on.                                      *)
PollsWhileShown ==
  /\ ~hidden => timers >= 1
  /\ ~loadedHidden => timers = IF hidden THEN 0 ELSE 1

(* A server that is gone for good is reported for good while the page is   *)
(* in the foreground, and one that is back with its worker is noticed.     *)
StatusFollows ==
  /\ <>[](~up /\ ~hidden) => <>[](text = "unreachable")
  /\ <>[](up /\ worker = "running" /\ ~hidden) => <>[]isConnected
=============================================================================
