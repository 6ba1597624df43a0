--------------------------------- MODULE Feed ---------------------------------
(***************************************************************************)
(* What the lists of /api/metrics promise the page, whatever the backend   *)
(* does inside.  Every stream (system calls, network, alerts) has a log    *)
(* that only grows.  An answer shows of every stream the last Size events  *)
(* of a beginning of its log, and that beginning holds all that was in the *)
(* log when the request was made.  Nothing relates the streams of an       *)
(* answer to each other, nor the answers to requests that overlap: the one *)
(* that comes last may be the one that was read first.                     *)
(*                                                                         *)
(* Backend implements this; the page of Frontend relies on it.             *)
(***************************************************************************)
EXTENDS Integers, Sequences

CONSTANTS
  Streams,  \* the lists that are served
  Events,   \* what a list holds
  Size,     \* how many of them (maxlen of the deque)
  Requests  \* the requests that may be under way at once

ASSUME FeedAssumption == Size \in Nat \ {0}

VARIABLES
  feed,  \* per stream: the events the backend was handed, in order
  call   \* per request: its phase and, per stream, how many events were
         \*   logged when it was made or, once answered, the answer has seen

feedVars == <<feed, call>>

(* The list once n events of a log were appended to it.                    *)
Window(log, n) == SubSeq(log, IF n > Size THEN n - Size + 1 ELSE 1, n)

Idle == [phase |-> "idle", upto |-> [s \in Streams |-> 0]]

Asked == [phase |-> "asked", upto |-> [s \in Streams |-> Len(feed[s])]]

FeedTypeOK ==
  /\ feed \in [Streams -> Seq(Events)]
  /\ call \in [Requests -> [phase : {"idle", "asked", "answered"},
                            upto : [Streams -> Nat]]]
  /\ \A q \in Requests, s \in Streams : call[q].upto[s] <= Len(feed[s])

-----------------------------------------------------------------------------
FeedInit ==
  /\ feed = [s \in Streams |-> <<>>]
  /\ call = [q \in Requests |-> Idle]

Publish(s, e) ==
  /\ feed' = [feed EXCEPT ![s] = Append(@, e)]
  /\ UNCHANGED call

Ask(q) ==
  /\ call[q].phase # "asked"
  /\ call' = [call EXCEPT ![q] = Asked]
  /\ UNCHANGED feed

Answer(q) ==
  /\ call[q].phase = "asked"
  /\ \E u \in [Streams -> UNION {0 .. Len(feed[s]) : s \in Streams}] :
       /\ \A s \in Streams : call[q].upto[s] <= u[s] /\ u[s] <= Len(feed[s])
       /\ call' = [call EXCEPT ![q] = [phase |-> "answered", upto |-> u]]
  /\ UNCHANGED feed

(* The answer was used, or is not waited for any more.                     *)
Drop(q) ==
  /\ call' = [call EXCEPT ![q] = Idle]
  /\ UNCHANGED feed

FeedNext ==
  \/ \E s \in Streams, e \in Events : Publish(s, e)
  \/ \E q \in Requests : Ask(q) \/ Answer(q) \/ Drop(q)

FeedSpec == FeedInit /\ [][FeedNext]_feedVars
=============================================================================
