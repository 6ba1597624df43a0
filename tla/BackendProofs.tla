---------------------------- MODULE BackendProofs -----------------------------
(***************************************************************************)
(* What the answers of Backend and its status "running" mean, for any      *)
(* programs in any order and any failures among them, any sizes of rings   *)
(* and lists, and any number of events: the lists are what Feed promises.  *)
(***************************************************************************)
EXTENDS Backend, FiniteSetTheorems, TLAPS

(***************************************************************************)
(* The worker's place.  An event waits to be counted only in the poll of   *)
(* its program; bpfs is ahead of loaded_modules between the two            *)
(* assignments of load_bpf, and at no other time.                          *)
(***************************************************************************)
PlaceOK ==
  /\ pc \in {"start", "load", "register", "open", "failing", "failed", "poll",
             "loop", "crashing", "dead"}
  /\ at \in 1 .. Len(Order) + 1
  /\ bpfs \in Seq(Programs) /\ loaded_modules \in Seq(Programs)
  /\ Len(bpfs) <= Len(Order)
  /\ pc = "start" => bpfs = <<>> /\ at = 1
  /\ pc = "load" => Len(bpfs) < at
  /\ pc = "register" => /\ Len(bpfs) <= at /\ at <= Len(Order)
                        /\ bpfs = Append(loaded_modules, Order[at])
  /\ pc # "register" => bpfs = loaded_modules
  /\ pending \in Seq(Events) /\ Len(pending) <= 1
  /\ pending # <<>> => pc = "poll" /\ at <= Len(bpfs) /\ Polled \in Streams

(***************************************************************************)
(* What a stream went through and what waits in its ring, one after the    *)
(* other, are events in the order in which the probes numbered them: a     *)
(* ring that is full loses some, a delivery changes nothing.               *)
(***************************************************************************)
Ordered(log) == \A i, j \in DOMAIN log : i < j => log[i].n < log[j].n

Numbered(log, n) == \A i \in DOMAIN log : log[i].n <= n

LogsOK ==
  /\ submitted \in 0 .. MaxEvents
  /\ Perf!PerfTypeOK(Events)
  /\ feed \in [Streams -> Seq(Events)]
  /\ \A s \in Streams : /\ Ordered(feed[s] \o ring[s])
                        /\ Numbered(feed[s] \o ring[s], submitted)

(* The lists are the windows that end now, and the counters have counted   *)
(* every event that counts but the one that was appended last.             *)
Counted(log, n) == {i \in 1 .. n : log[i].counted}

Owed(s) ==
  IF pending # <<>> /\ Polled = s /\ Head(pending).counted THEN 1 ELSE 0

ListsOK ==
  /\ DOMAIN list = Streams /\ DOMAIN count = Streams
  /\ \A s \in Streams :
       /\ list[s] = Promise!Window(feed[s], Len(feed[s]))
       /\ count[s] \in Nat
       /\ count[s] + Owed(s) = Cardinality(Counted(feed[s], Len(feed[s])))

(* Every list that a request has read is a window, and ends no earlier     *)
(* than the log did when the request was made; a counter it has read       *)
(* misses at most one event of the list it read before.                    *)
Lists == Len(StreamOrder)

Values == Seq(Events) \union Nat \union Seq(Programs)

ReadOf(q, i) ==
  \E k \in asked[q][StreamOrder[i]] .. Len(feed[StreamOrder[i]]) :
    /\ reading[q][i] = Promise!Window(feed[StreamOrder[i]], k)
    /\ Lists + i <= Len(reading[q]) =>
         Cardinality(Counted(feed[StreamOrder[i]], k)) <= reading[q][Lists + i] + 1

AskedOK(q) ==
  /\ asked[q] \in [Streams -> Nat]
  /\ \A s \in Streams : asked[q][s] <= Len(feed[s])

AnswerOK(q) ==
  /\ route[q] \in {"none", "metrics", "debug", "answered"}
  /\ reading[q] \in Seq(Values)
  /\ route[q] = "none" => reading[q] = <<>>
  /\ route[q] \in {"metrics", "answered"} =>
       /\ Len(reading[q]) <= 2 * Lists
       /\ \A i \in 1 .. Lists : i <= Len(reading[q]) => ReadOf(q, i)
  /\ route[q] = "answered" => Len(reading[q]) = 2 * Lists
  /\ route[q] = "debug" =>
       /\ Len(reading[q]) <= 1
       /\ reading[q] # <<>> =>
            /\ reading[q][1] \in Seq(Programs)
            /\ \A j \in 1 .. Len(reading[q][1]) - 1 :
                 reading[q][1][j] \in ToSet(loaded_modules)

ReadOK ==
  /\ DOMAIN route = Requests /\ DOMAIN reading = Requests /\ DOMAIN asked = Requests
  /\ \A q \in Requests : AskedOK(q) /\ AnswerOK(q)

-----------------------------------------------------------------------------
(* bpfs[name] = b adds a program and forgets none.                         *)
LEMMA LoadedStays ==
  ASSUME NEW s \in Seq(Programs), NEW p \in Programs
  PROVE  /\ Append(s, p) \in Seq(Programs)
         /\ ToSet(s) \subseteq ToSet(Append(s, p))
<1>1. \A i \in DOMAIN s : i \in DOMAIN Append(s, p) /\ Append(s, p)[i] = s[i]
  OBVIOUS
<1> QED  BY <1>1 DEF ToSet

(* An event that joins the queue joins all that went before it.            *)
LEMMA ConcatAppend ==
  ASSUME NEW E, NEW a \in Seq(E), NEW b \in Seq(E), NEW e \in E
  PROVE  a \o Append(b, e) = Append(a \o b, e)
<1>1. /\ a \o Append(b, e) \in Seq(E) /\ Append(a \o b, e) \in Seq(E)
      /\ Len(a \o Append(b, e)) = Len(Append(a \o b, e))
  OBVIOUS
<1>2. ASSUME NEW i \in 1 .. Len(a \o Append(b, e))
      PROVE  (a \o Append(b, e))[i] = Append(a \o b, e)[i]
  OBVIOUS
<1> QED  BY <1>1, <1>2

(* An event that leaves the head of the queue for the end of the log stays *)
(* where it is in both together.                                           *)
LEMMA ConcatMoves ==
  ASSUME NEW E, NEW a \in Seq(E), NEW b \in Seq(E), b # <<>>
  PROVE  /\ Append(a, Head(b)) \in Seq(E) /\ Tail(b) \in Seq(E)
         /\ Append(a, Head(b)) \o Tail(b) = a \o b
<1>1. Head(b) \in E /\ Tail(b) \in Seq(E) /\ Len(b) > 0
  OBVIOUS
<1>2. Append(a, Head(b)) \in Seq(E)
  BY <1>1
<1>3. /\ Append(a, Head(b)) \o Tail(b) \in Seq(E) /\ a \o b \in Seq(E)
      /\ Len(Append(a, Head(b)) \o Tail(b)) = Len(a \o b)
  BY <1>1, <1>2
<1>4. ASSUME NEW i \in 1 .. Len(a \o b)
      PROVE  (Append(a, Head(b)) \o Tail(b))[i] = (a \o b)[i]
  BY <1>1, <1>2
<1> QED  BY <1>1, <1>2, <1>3, <1>4

(* The next number is larger than all before.                              *)
LEMMA OrderedAppend ==
  ASSUME NEW log \in Seq(Events), NEW n \in Nat, NEW e \in Events, e.n = n + 1,
         Ordered(log), Numbered(log, n)
  PROVE  Ordered(Append(log, e)) /\ Numbered(Append(log, e), n + 1)
<1>1. /\ DOMAIN Append(log, e) = 1 .. Len(log) + 1 /\ DOMAIN log = 1 .. Len(log)
      /\ Append(log, e)[Len(log) + 1] = e
      /\ \A i \in 1 .. Len(log) : Append(log, e)[i] = log[i]
  OBVIOUS
<1>2. \A i \in 1 .. Len(log) : log[i].n <= n /\ log[i].n \in Nat
  <2>1. \A i \in 1 .. Len(log) : log[i] \in Events
    OBVIOUS
  <2>2. \A x \in Events : x.n \in Nat
    BY BackendAssumption DEF Events
  <2> QED  BY <1>1, <2>1, <2>2 DEF Numbered
<1>3. Numbered(Append(log, e), n + 1)
  BY <1>1, <1>2 DEF Numbered
<1>4. Ordered(Append(log, e))
  BY <1>1, <1>2 DEF Ordered
<1> QED  BY <1>3, <1>4

(* A log is in order when it is with what waits behind it.                 *)
LEMMA OrderedLog ==
  ASSUME NEW a \in Seq(Events), NEW b \in Seq(Events), Ordered(a \o b)
  PROVE  Ordered(a)
<1>1. DOMAIN a \subseteq DOMAIN (a \o b) /\ \A i \in DOMAIN a : (a \o b)[i] = a[i]
  OBVIOUS
<1> QED  BY <1>1 DEF Ordered

-----------------------------------------------------------------------------
(* A window is a piece of its log, and ends where the log ended then.      *)
LEMMA WindowIs ==
  ASSUME NEW log \in Seq(Events), NEW n \in 0 .. Len(log)
  PROVE  LET w == Promise!Window(log, n)
             m == IF n > Size THEN n - Size ELSE 0
         IN /\ w \in Seq(Events) /\ Len(w) = n - m /\ Len(w) <= Size
            /\ \A i \in 1 .. Len(w) : w[i] = log[m + i]
            /\ n > 0 => w # <<>> /\ Last(w) = log[n]
            /\ n = 0 => w = <<>>
<1> DEFINE m == IF n > Size THEN n - Size ELSE 0
           w == Promise!Window(log, n)
<1>0. Size \in Nat \ {0} /\ Len(log) \in Nat
  BY BackendAssumption
<1>1. m \in 0 .. n /\ n - m <= Size /\ (n > 0 => m < n)
  BY <1>0
<1>2. w = SubSeq(log, m + 1, n)
  BY <1>0 DEF Promise!Window
<1>3. w \in Seq(Events) /\ Len(w) = n - m
  BY <1>0, <1>1, <1>2
<1>4. \A i \in 1 .. Len(w) : w[i] = log[m + i]
  BY <1>0, <1>1, <1>2, <1>3
<1>5. n > 0 => w # <<>> /\ Last(w) = log[n]
  BY <1>0, <1>1, <1>3, <1>4 DEF Last
<1>6. n = 0 => w = <<>>
  BY <1>1, <1>3
<1> QED  BY <1>1, <1>3, <1>4, <1>5, <1>6

(* What is appended to a log changes no window that ended before.          *)
LEMMA WindowStays ==
  ASSUME NEW log \in Seq(Events), NEW e \in Events, NEW n \in 0 .. Len(log)
  PROVE  /\ Append(log, e) \in Seq(Events) /\ n \in 0 .. Len(Append(log, e))
         /\ Promise!Window(Append(log, e), n) = Promise!Window(log, n)
         /\ Counted(Append(log, e), n) = Counted(log, n)
<1> DEFINE m == IF n > Size THEN n - Size ELSE 0
           long == Append(log, e)
           w == Promise!Window(log, n)
           v == Promise!Window(long, n)
<1>0. Size \in Nat \ {0} /\ Len(log) \in Nat
  BY BackendAssumption
<1>1. /\ long \in Seq(Events) /\ n \in 0 .. Len(long)
      /\ \A i \in 1 .. n : long[i] = log[i]
  BY <1>0
<1>2. /\ w \in Seq(Events) /\ Len(w) = n - m
      /\ \A i \in 1 .. Len(w) : w[i] = log[m + i]
  BY WindowIs
<1>3. /\ v \in Seq(Events) /\ Len(v) = n - m
      /\ \A i \in 1 .. Len(v) : v[i] = long[m + i]
  <2> HIDE DEF long
  <2> QED  BY <1>1, WindowIs
<1>4. m \in 0 .. n
  BY <1>0
<1>5. \A i \in 1 .. n - m : m + i \in 1 .. n
  BY <1>4
<1>6. v = w
  <2> HIDE DEF v, w, m, long
  <2> QED  BY <1>1, <1>2, <1>3, <1>5
<1>7. Counted(long, n) = Counted(log, n)
  <2> HIDE DEF long
  <2> QED  BY <1>1 DEF Counted
<1> QED  BY <1>1, <1>6, <1>7

(* A deque of maxlen Size holds the window that ends at its last event.    *)
LEMMA WindowSlides ==
  ASSUME NEW log \in Seq(Events), NEW e \in Events
  PROVE  LET w == Promise!Window(log, Len(log))
         IN Promise!Window(Append(log, e), Len(log) + 1) =
              IF Len(w) = Size THEN Append(Tail(w), e) ELSE Append(w, e)
<1> DEFINE n == Len(log)
           m == IF n > Size THEN n - Size ELSE 0
           p == n + 1
           k == IF p > Size THEN p - Size ELSE 0
           long == Append(log, e)
           w == Promise!Window(log, n)
           v == Promise!Window(long, p)
           u == IF Len(w) = Size THEN Append(Tail(w), e) ELSE Append(w, e)
<1>0. Size \in Nat \ {0} /\ n \in Nat
  BY BackendAssumption
<1>1. /\ long \in Seq(Events) /\ n + 1 \in 0 .. Len(long)
      /\ \A i \in 1 .. n : long[i] = log[i]
      /\ long[n + 1] = e
  BY <1>0
<1>2. /\ w \in Seq(Events) /\ Len(w) = n - m
      /\ \A i \in 1 .. Len(w) : w[i] = log[m + i]
  BY <1>0, WindowIs
<1>3. /\ v \in Seq(Events) /\ Len(v) = p - k
      /\ \A i \in 1 .. Len(v) : v[i] = long[k + i]
  <2>1. p \in 0 .. Len(long)
    BY <1>1
  <2> HIDE DEF long, n, p
  <2> QED  BY <1>1, <2>1, WindowIs
<1>4. ASSUME Len(w) = Size PROVE v = u
  <2>1. k = m + 1 /\ n - m = Size /\ m \in Nat
    BY <1>0, <1>2, <1>4
  <2>0. p = n + 1
    OBVIOUS
  <2> HIDE DEF n, m, k, p, long, v, w
  <2>2. /\ u = Append(Tail(w), e) /\ u \in Seq(Events)
        /\ Len(u) = Size /\ u[Size] = e
        /\ \A i \in 1 .. Size - 1 : u[i] = w[i + 1]
    BY <1>0, <1>2, <1>4
  <2>3. \A i \in 1 .. Size - 1 : u[i] = log[m + i + 1]
    BY <1>0, <1>2, <1>4, <2>1, <2>2
  <2> HIDE DEF u
  <2>4. Len(v) = Size
    BY <1>0, <1>3, <2>0, <2>1
  <2>5. v[Size] = e
    BY <1>0, <1>1, <1>3, <2>0, <2>1, <2>4
  <2>6. \A i \in 1 .. Size - 1 : k + i \in 1 .. n /\ k + i = m + i + 1
    BY <1>0, <2>1
  <2>7. \A i \in 1 .. Size - 1 : v[i] = u[i]
    <3> SUFFICES ASSUME NEW i \in 1 .. Size - 1 PROVE v[i] = u[i]
        OBVIOUS
    <3>1. v[i] = long[k + i]
      BY <1>0, <1>3, <2>4
    <3>2. long[k + i] = log[m + i + 1]
      BY <1>1, <2>6
    <3> QED  BY <2>3, <3>1, <3>2
  <2> QED  BY <1>0, <1>3, <2>2, <2>4, <2>5, <2>7
<1>5. ASSUME Len(w) # Size PROVE v = u
  <2>1. k = m /\ m = 0 /\ n < Size
    BY <1>0, <1>2, <1>5
  <2>0. p = n + 1
    OBVIOUS
  <2> HIDE DEF n, m, k, p, long, v, w
  <2>2. /\ u = Append(w, e) /\ u \in Seq(Events)
        /\ Len(u) = n + 1 /\ u[n + 1] = e
        /\ \A i \in 1 .. n : u[i] = w[i]
    BY <1>0, <1>2, <1>5, <2>1
  <2>3. \A i \in 1 .. n : u[i] = log[i]
    BY <1>0, <1>2, <2>1, <2>2
  <2> HIDE DEF u
  <2>4. Len(v) = n + 1 /\ v[n + 1] = e
    BY <1>0, <1>1, <1>3, <2>0, <2>1
  <2>5. \A i \in 1 .. n : v[i] = u[i]
    BY <1>0, <1>1, <1>3, <2>0, <2>1, <2>3, <2>4
  <2> QED  BY <1>0, <1>3, <2>2, <2>4, <2>5
<1>6. v = u
  BY <1>4, <1>5
<1> HIDE DEF u, v
<1> QED  BY <1>6, Zenon DEF u, v

(* No two windows of a log are the same: the last events differ.           *)
LEMMA WindowTells ==
  ASSUME NEW log \in Seq(Events), Ordered(log),
         NEW n \in 0 .. Len(log), NEW k \in 0 .. Len(log),
         Promise!Window(log, n) = Promise!Window(log, k)
  PROVE  n = k
<1>0. Len(log) \in Nat /\ DOMAIN log = 1 .. Len(log)
  OBVIOUS
<1> DEFINE w == Promise!Window(log, n)
           v == Promise!Window(log, k)
<1>1. (n > 0 => w # <<>> /\ Last(w) = log[n]) /\ (n = 0 => w = <<>>)
  BY WindowIs
<1>2. (k > 0 => v # <<>> /\ Last(v) = log[k]) /\ (k = 0 => v = <<>>)
  BY WindowIs
<1> HIDE DEF w, v
<1>3. w = v
  BY DEF w, v
<1>4. n > 0 <=> k > 0
  BY <1>0, <1>1, <1>2, <1>3
<1>5. CASE n > 0
  <2>1. log[n] = log[k] /\ n \in DOMAIN log /\ k \in DOMAIN log
    BY <1>0, <1>1, <1>2, <1>3, <1>4, <1>5
  <2>2. \A i \in DOMAIN log : log[i].n \in Nat
    <3>1. \A i \in DOMAIN log : log[i] \in Events
      OBVIOUS
    <3>2. \A x \in Events : x.n \in Nat
      BY BackendAssumption DEF Events
    <3> QED  BY <3>1, <3>2
  <2>3. ~(n < k) /\ ~(k < n)
    BY <2>1, <2>2 DEF Ordered
  <2> QED  BY <2>3, <1>0
<1> QED  BY <1>0, <1>4, <1>5

(* What is shown of a log tells how much of it had been seen.              *)
LEMMA SeenIs ==
  ASSUME NEW log \in Seq(Events), Ordered(log), NEW n \in 0 .. Len(log)
  PROVE  SeenOf(Promise!Window(log, n), log) = n
<1> DEFINE w == Promise!Window(log, n)
<1>1. \A k \in 0 .. Len(log) : Shows(w, log, k) <=> k = n
  <2>1. \A k \in 0 .. Len(log) : Shows(w, log, k) <=> w = Promise!Window(log, k)
    BY DEF Shows, Promise!Window
  <2>2. \A k \in 0 .. Len(log) : w = Promise!Window(log, k) => k = n
    BY WindowTells
  <2> QED  BY <2>1, <2>2
<1> HIDE DEF w
<1>2. \E k \in 0 .. Len(log) : Shows(w, log, k)
  BY <1>1
<1> QED  BY <1>1, <1>2 DEF SeenOf, w

(* The events that count, up to one and to the next.                       *)
LEMMA CountedNext ==
  ASSUME NEW log \in Seq(Events), NEW e \in Events
  PROVE  /\ Cardinality(Counted(log, Len(log))) \in Nat
         /\ Cardinality(Counted(Append(log, e), Len(log) + 1)) =
              Cardinality(Counted(log, Len(log))) + IF e.counted THEN 1 ELSE 0
<1> DEFINE n == Len(log)
           C == Counted(log, n)
           D == Counted(Append(log, e), n + 1)
<1>0. n \in Nat /\ C \subseteq 1 .. n
  BY DEF Counted
<1>1. IsFiniteSet(C) /\ Cardinality(C) \in Nat
  <2>1. IsFiniteSet(1 .. n)
    BY <1>0, FS_Interval
  <2> QED  BY <1>0, <2>1, FS_Subset, FS_CardinalityType
<1>2. /\ \A i \in 1 .. n : Append(log, e)[i] = log[i]
      /\ Append(log, e)[n + 1] = e
  OBVIOUS
<1>3. D = C \union (IF e.counted THEN {n + 1} ELSE {})
  <2>1. 1 .. n + 1 = (1 .. n) \union {n + 1}
    BY <1>0
  <2> QED  BY <1>2, <2>1 DEF Counted
<1>4. n + 1 \notin C
  BY <1>0
<1> HIDE DEF n, C, D
<1>5. ASSUME e.counted PROVE Cardinality(D) = Cardinality(C) + 1
  <2>1. D = C \union {n + 1}
    BY <1>3, <1>5
  <2> QED  BY <1>1, <1>4, <2>1, FS_AddElement
<1>6. ASSUME ~e.counted PROVE Cardinality(D) = Cardinality(C) + 0
  BY <1>1, <1>3, <1>6
<1>7. Cardinality(D) = Cardinality(C) + IF e.counted THEN 1 ELSE 0
  BY <1>5, <1>6
<1> QED  BY <1>1, <1>7 DEF n, C, D

(* An earlier moment has counted no more.                                  *)
LEMMA CountedFewer ==
  ASSUME NEW log \in Seq(Events), NEW k \in 0 .. Len(log)
  PROVE  /\ Cardinality(Counted(log, k)) \in Nat
         /\ Cardinality(Counted(log, k)) <= Cardinality(Counted(log, Len(log)))
<1>0. Len(log) \in Nat
  OBVIOUS
<1>1. Counted(log, k) \subseteq Counted(log, Len(log))
  BY <1>0 DEF Counted
<1>2. IsFiniteSet(Counted(log, Len(log)))
  <2>1. IsFiniteSet(1 .. Len(log))
    BY <1>0, FS_Interval
  <2>2. Counted(log, Len(log)) \subseteq 1 .. Len(log)
    BY DEF Counted
  <2> QED  BY <2>1, <2>2, FS_Subset
<1> QED  BY <1>1, <1>2, FS_Subset, FS_CardinalityType

-----------------------------------------------------------------------------
(* A ring takes the next event at its end, or the event is lost.           *)
LEMMA SubmitKeepsLogs ==
  ASSUME LogsOK, NEW s \in Streams, Submit(s)
  PROVE  LogsOK'
<1>0. /\ submitted \in 0 .. MaxEvents /\ MaxEvents \in Nat /\ RingSize \in Nat
      /\ opened \subseteq Streams /\ ring \in [Streams -> Seq(Events)]
      /\ delivered \subseteq Events /\ lost \subseteq Events
      /\ feed \in [Streams -> Seq(Events)]
      /\ \A t \in Streams : Len(ring[t]) <= RingSize
  BY BackendAssumption DEF LogsOK, Perf!PerfTypeOK
<1>1. PICK counted \in BOOLEAN :
        Perf!PerfSubmit(s, [src |-> s, n |-> submitted + 1, counted |-> counted])
  BY DEF Submit
<1> DEFINE e == [src |-> s, n |-> submitted + 1, counted |-> counted]
<1>2. submitted' = submitted + 1 /\ submitted' \in 0 .. MaxEvents /\ feed' = feed
  BY <1>0 DEF Submit, streams
<1>3. e \in Events /\ e.n = submitted + 1
  BY <1>0, <1>2 DEF Events
<1>4. Perf!PerfSubmit(s, e)
  BY <1>1
<1> HIDE DEF e
<1>5. ASSUME NEW t \in Streams
      PROVE  /\ ring'[t] \in Seq(Events) /\ Len(ring'[t]) <= RingSize
             /\ Ordered(feed[t] \o ring'[t])
             /\ Numbered(feed[t] \o ring'[t], submitted + 1)
  <2> DEFINE q == feed[t] \o ring[t]
  <2>1. feed[t] \in Seq(Events) /\ ring[t] \in Seq(Events) /\ q \in Seq(Events)
    BY <1>0
  <2>2. Ordered(q) /\ Numbered(q, submitted)
    BY DEF LogsOK
  <2>3. CASE ring'[t] = ring[t]
    <3>1. feed[t] \o ring'[t] = q
      BY <2>3
    <3> HIDE DEF q
    <3>2. \A i \in DOMAIN q : q[i] \in Events
      BY <2>1
    <3>3. \A x \in Events : x.n \in Nat
      BY <1>0 DEF Events
    <3>4. Numbered(q, submitted + 1)
      BY <1>0, <2>2, <3>2, <3>3 DEF Numbered
    <3> QED  BY <1>0, <2>1, <2>2, <2>3, <3>1, <3>4
  <2>4. CASE t = s /\ ring'[s] = Append(ring[s], e) /\ Len(ring[s]) < RingSize
    <3>0. ring'[t] = Append(ring[t], e)
      BY <2>4
    <3>1. feed[t] \o Append(ring[t], e) = Append(q, e)
      <4> DEFINE a == feed[t]
                 b == ring[t]
      <4>1. a \in Seq(Events) /\ b \in Seq(Events) /\ e \in Events
        BY <1>3, <2>1
      <4> HIDE DEF a, b
      <4>2. a \o Append(b, e) = Append(a \o b, e)
        BY <4>1, ConcatAppend
      <4> QED  BY <4>2 DEF a, b
    <3>2. ring'[t] \in Seq(Events) /\ Len(ring'[t]) <= RingSize
      BY <1>0, <1>3, <2>1, <2>4
    <3> HIDE DEF q
    <3>3. Ordered(Append(q, e)) /\ Numbered(Append(q, e), submitted + 1)
      BY <1>0, <1>3, <2>1, <2>2, OrderedAppend
    <3> QED  BY <3>0, <3>1, <3>2, <3>3, Zenon
  <2>5. \/ ring'[t] = ring[t]
        \/ t = s /\ ring'[s] = Append(ring[s], e) /\ Len(ring[s]) < RingSize
    BY <1>0, <1>4 DEF Perf!PerfSubmit
  <2> QED  BY <2>3, <2>4, <2>5
<1>6. /\ DOMAIN ring' = Streams /\ ring' = [t \in Streams |-> ring'[t]]
      /\ opened' = opened /\ delivered' = delivered /\ lost' \subseteq lost \union {e}
  BY <1>0, <1>4 DEF Perf!PerfSubmit
<1>7. Perf!PerfTypeOK(Events)'
  BY <1>0, <1>3, <1>5, <1>6 DEF Perf!PerfTypeOK
<1> QED  BY <1>0, <1>2, <1>5, <1>7 DEF LogsOK

(* A delivery moves an event from the ring to the log.                     *)
LEMMA CallbackKeepsLogs ==
  ASSUME LogsOK, NEW s \in Streams, Callback(s)
  PROVE  LogsOK' /\ Head(ring[s]) \in Events
<1>0. /\ opened \subseteq Streams /\ ring \in [Streams -> Seq(Events)]
      /\ delivered \subseteq Events /\ lost \subseteq Events
      /\ feed \in [Streams -> Seq(Events)]
      /\ \A t \in Streams : Len(ring[t]) <= RingSize
      /\ RingSize \in Nat
  BY BackendAssumption DEF LogsOK, Perf!PerfTypeOK
<1>1. /\ ring[s] # <<>> /\ ring' = [ring EXCEPT ![s] = Tail(ring[s])]
      /\ delivered' = delivered \union {Head(ring[s])}
      /\ opened' = opened /\ lost' = lost /\ submitted' = submitted
  BY DEF Callback, Perf!Deliver, env
<1>2. feed' = [feed EXCEPT ![s] = Append(feed[s], Head(ring[s]))]
  BY DEF Callback
<1>3. /\ Append(feed[s], Head(ring[s])) \in Seq(Events)
      /\ Tail(ring[s]) \in Seq(Events)
      /\ Append(feed[s], Head(ring[s])) \o Tail(ring[s]) = feed[s] \o ring[s]
  BY <1>0, <1>1, ConcatMoves
<1>4. Head(ring[s]) \in Events /\ Len(Tail(ring[s])) <= RingSize
  BY <1>0, <1>1
<1>5. \A t \in Streams : feed'[t] \o ring'[t] = feed[t] \o ring[t]
  BY <1>0, <1>1, <1>2, <1>3
<1>6. Perf!PerfTypeOK(Events)'
  BY <1>0, <1>1, <1>3, <1>4 DEF Perf!PerfTypeOK
<1>7. feed' \in [Streams -> Seq(Events)]
  BY <1>0, <1>2, <1>3
<1> QED  BY <1>1, <1>4, <1>5, <1>6, <1>7 DEF LogsOK

(* A ring is opened empty.                                                 *)
LEMMA OpenKeepsLogs ==
  ASSUME LogsOK, Open
  PROVE  LogsOK'
<1>1. UNCHANGED <<submitted, feed, ring, delivered, lost>>
  BY DEF Open, Perf!OpenRing, env, streams
<1>2. opened' \subseteq Streams
  BY DEF Open, HasBuffer, Perf!OpenRing, LogsOK, Perf!PerfTypeOK
<1> QED  BY <1>1, <1>2 DEF LogsOK, Perf!PerfTypeOK

(* Who writes the rings and the logs.                                      *)
LEMMA LogWriters ==
  ASSUME [Next]_vars
  PROVE  \/ UNCHANGED <<submitted, perf, feed>>
         \/ \E s \in Streams : Submit(s) \/ Callback(s)
         \/ Open
<1> USE DEF streams, env, vars
<1>1. CASE Worker
  <2>1. CASE Poll
    BY <2>1 DEF Poll, CountEvent, PollReturns, ReadMaps, Again
  <2> QED  BY <1>1, <2>1 DEF Worker, Start, Load, LoadFails, Register, Loaded,
             NotOpened, Decide, FailReason, Return, CrashReason
<1>2. ASSUME NEW q \in Requests, Serve(q) PROVE UNCHANGED <<submitted, perf, feed>>
  BY <1>2 DEF Serve, Request, ReadField, Respond
<1> QED  BY <1>1, <1>2 DEF Next, Crash

(* Every stream is a sequence of events in the order of their submission,  *)
(* some of which the callback has had and the others are in the ring.      *)
THEOREM LogsCorrect == Spec => []LogsOK
<1>1. Init => LogsOK
  <2> SUFFICES ASSUME Init PROVE LogsOK
      OBVIOUS
  <2>1. /\ submitted = 0 /\ opened = {} /\ delivered = {} /\ lost = {}
        /\ feed = [s \in Streams |-> <<>>] /\ ring = [s \in Streams |-> <<>>]
    BY DEF Init, Perf!PerfInit
  <2>2. \A s \in Streams : feed[s] \o ring[s] = <<>>
    BY <2>1
  <2>3. /\ submitted \in 0 .. MaxEvents /\ RingSize \in Nat
        /\ feed \in [Streams -> Seq(Events)]
    BY <2>1, BackendAssumption
  <2>4. Perf!PerfTypeOK(Events)
    BY <2>1, <2>3 DEF Perf!PerfTypeOK
  <2> QED  BY <2>2, <2>3, <2>4 DEF LogsOK, Ordered, Numbered
<1>2. LogsOK /\ [Next]_vars => LogsOK'
  <2> SUFFICES ASSUME LogsOK, [Next]_vars PROVE LogsOK'
      OBVIOUS
  <2>1. CASE UNCHANGED <<submitted, perf, feed>>
    BY <2>1 DEF LogsOK, perf, Perf!PerfTypeOK
  <2> QED  BY <2>1, LogWriters, SubmitKeepsLogs, CallbackKeepsLogs, OpenKeepsLogs
<1> QED  BY <1>1, <1>2, PTL DEF Spec

-----------------------------------------------------------------------------
place == <<pc, at, pending, bpfs, loaded_modules>>

(* load_bpf writes bpfs, then loaded_modules.                              *)
LEMMA LoadKeepsPlace ==
  ASSUME PlaceOK, Load \/ Register \/ LoadFails
  PROVE  PlaceOK'
<1>0. /\ Order \in Seq(Programs) /\ Len(Order) \in Nat /\ at \in Nat \ {0}
      /\ at <= Len(Order) + 1 /\ bpfs \in Seq(Programs)
      /\ loaded_modules \in Seq(Programs) /\ Len(bpfs) \in Nat
      /\ pending \in Seq(Events) /\ Len(pending) <= 1
  BY BackendAssumption DEF PlaceOK
<1>1. CASE Load
  <2>1. /\ pc = "load" /\ pc' = "register" /\ at' = at /\ at <= Len(Order)
        /\ bpfs' = Append(bpfs, Order[at])
        /\ pending' = pending /\ loaded_modules' = loaded_modules
    BY <1>1 DEF Load
  <2>2. Len(bpfs) < at /\ pending = <<>> /\ bpfs = loaded_modules
    BY <2>1 DEF PlaceOK
  <2>3. Order[at] \in Programs
    BY <1>0, <2>1
  <2>4. bpfs' \in Seq(Programs) /\ Len(bpfs') = Len(bpfs) + 1
    BY <1>0, <2>1, <2>3
  <2>5. Len(bpfs') <= at' /\ at' <= Len(Order) /\ Len(bpfs') <= Len(Order)
    BY <1>0, <2>1, <2>2, <2>4
  <2>6. bpfs' = Append(loaded_modules', Order[at'])
    BY <2>1, <2>2, Zenon
  <2>7. at' \in 1 .. Len(Order) + 1 /\ loaded_modules' \in Seq(Programs)
    BY <1>0, <2>1
  <2>8. pending' \in Seq(Events) /\ Len(pending') <= 1 /\ pending' = <<>>
    BY <1>0, <2>1, <2>2
  <2> QED  BY <2>1, <2>4, <2>5, <2>6, <2>7, <2>8, Zenon DEF PlaceOK
<1>2. CASE Register
  <2>1. /\ pc = "register" /\ pc' = "load" /\ at' = at + 1 /\ bpfs' = bpfs
        /\ loaded_modules' = Append(loaded_modules, Order[at])
        /\ pending' = pending
    BY <1>2 DEF Register
  <2>2. /\ at <= Len(Order) /\ Len(bpfs) <= at /\ Len(bpfs) <= Len(Order)
        /\ bpfs = Append(loaded_modules, Order[at]) /\ pending = <<>>
    BY <2>1 DEF PlaceOK
  <2>3. bpfs' = loaded_modules' /\ loaded_modules' \in Seq(Programs)
    BY <1>0, <2>1, <2>2, Zenon
  <2>4. /\ at' \in 1 .. Len(Order) + 1 /\ Len(bpfs') < at' /\ bpfs' \in Seq(Programs)
        /\ Len(bpfs') <= Len(Order)
    BY <1>0, <2>1, <2>2
  <2>5. pending' \in Seq(Events) /\ Len(pending') <= 1 /\ pending' = <<>>
    BY <1>0, <2>1, <2>2
  <2> QED  BY <2>1, <2>3, <2>4, <2>5, Zenon DEF PlaceOK
<1>3. CASE LoadFails
  BY <1>0, <1>3 DEF LoadFails, PlaceOK
<1> QED  BY <1>1, <1>2, <1>3

(* The other steps of the worker, and the crash, leave bpfs alone.         *)
LEMMA StepKeepsPlace ==
  ASSUME PlaceOK,
         \/ Start \/ Loaded \/ Open \/ NotOpened \/ Decide \/ FailReason
         \/ Return \/ PollReturns \/ ReadMaps \/ Again \/ Crash \/ CrashReason
  PROVE  PlaceOK'
<1>0. /\ Len(Order) \in Nat /\ at \in Nat \ {0} /\ Len(bpfs) \in Nat
  BY BackendAssumption DEF PlaceOK
<1>1. UNCHANGED <<bpfs, loaded_modules, pending>>
  BY DEF Start, Loaded, Open, NotOpened, Decide, FailReason, Return, PollReturns,
         ReadMaps, Again, Crash, CrashReason, modules
<1>2. CASE Start \/ Loaded
  BY <1>0, <1>1, <1>2 DEF Start, Loaded, PlaceOK
<1>3. CASE Open \/ NotOpened
  BY <1>0, <1>1, <1>3 DEF Open, NotOpened, PlaceOK
<1>4. CASE Decide \/ FailReason \/ Return \/ Crash \/ CrashReason
  BY <1>0, <1>1, <1>4 DEF Decide, FailReason, Return, Crash, CrashReason, PlaceOK
<1>5. CASE PollReturns \/ ReadMaps \/ Again
  BY <1>0, <1>1, <1>5 DEF PollReturns, ReadMaps, Again, PlaceOK
<1> QED  BY <1>2, <1>3, <1>4, <1>5

(* A callback leaves an event to be counted in the poll of its program.    *)
LEMMA CallbackKeepsPlace ==
  ASSUME LogsOK, PlaceOK, NEW s \in Streams, Callback(s)
  PROVE  PlaceOK'
<1>1. Head(ring[s]) \in Events
  BY CallbackKeepsLogs
<1>2. /\ pc = "poll" /\ at <= Len(bpfs) /\ Polled = s
      /\ pending' = <<Head(ring[s])>>
      /\ UNCHANGED <<pc, at, bpfs, loaded_modules>>
  BY DEF Callback, modules
<1>3. pending' \in Seq(Events) /\ Len(pending') <= 1
  BY <1>1, <1>2
<1> HIDE DEF Callback
<1> QED  BY <1>2, <1>3 DEF PlaceOK, Polled

(* Who moves the worker.                                                   *)
LEMMA PlaceWriters ==
  ASSUME [Next]_vars
  PROVE  \/ UNCHANGED place
         \/ Load \/ Register \/ LoadFails
         \/ Start \/ Loaded \/ Open \/ NotOpened \/ Decide \/ FailReason
         \/ Return \/ PollReturns \/ ReadMaps \/ Again \/ Crash \/ CrashReason
         \/ \E s \in Streams : Callback(s) \/ CountEvent(s)
<1> USE DEF place, worker, modules, vars
<1>1. ASSUME NEW q \in Requests, Serve(q) PROVE UNCHANGED place
  BY <1>1 DEF Serve, Request, ReadField, Respond
<1>2. ASSUME NEW s \in Streams, Submit(s) PROVE UNCHANGED place
  BY <1>2 DEF Submit
<1>3. CASE Worker
  BY <1>3 DEF Worker, Poll
<1> QED  BY <1>1, <1>2, <1>3 DEF Next

(* The worker goes through the programs in order, registers each that it   *)
(* loaded, and is in the poll of a program while one of its events waits   *)
(* to be counted.                                                          *)
THEOREM PlaceCorrect == Spec => []PlaceOK
<1>1. Init => PlaceOK
  BY BackendAssumption DEF Init, PlaceOK
<1>2. LogsOK /\ PlaceOK /\ [Next]_vars => PlaceOK'
  <2> SUFFICES ASSUME LogsOK, PlaceOK, [Next]_vars PROVE PlaceOK'
      OBVIOUS
  <2>1. CASE UNCHANGED place
    BY <2>1 DEF place, PlaceOK, Polled
  <2>2. ASSUME NEW s \in Streams, CountEvent(s) PROVE PlaceOK'
    BY <2>2 DEF CountEvent, PlaceOK, modules
  <2> QED  BY <2>1, <2>2, PlaceWriters, LoadKeepsPlace, StepKeepsPlace,
              CallbackKeepsPlace
<1> QED  BY <1>1, <1>2, LogsCorrect, PTL DEF Spec

-----------------------------------------------------------------------------
(* Who writes the lists, the counters and what they are compared with.     *)
LEMMA ListWriters ==
  ASSUME PlaceOK, [Next]_vars
  PROVE  \/ /\ UNCHANGED <<list, count, feed, pending>>
            /\ pending = <<>> \/ UNCHANGED <<at, bpfs>>
         \/ \E s \in Streams : Callback(s) \/ CountEvent(s)
<1> USE DEF streams, worker, modules, vars
<1>0. pending # <<>> => pc = "poll" /\ at <= Len(bpfs)
  BY DEF PlaceOK
<1>1. ASSUME NEW q \in Requests, Serve(q)
      PROVE  UNCHANGED <<list, count, feed, pending, at, bpfs>>
  BY <1>1 DEF Serve, Request, ReadField, Respond
<1>2. ASSUME NEW s \in Streams, Submit(s)
      PROVE  UNCHANGED <<list, count, feed, pending, at, bpfs>>
  BY <1>2 DEF Submit
<1>3. CASE Poll
  BY <1>0, <1>3 DEF Poll, PollReturns, ReadMaps, Again
<1>4. CASE Worker /\ ~Poll
  BY <1>0, <1>4 DEF Worker, Start, Load, LoadFails, Register, Loaded, Open,
     NotOpened, Decide, FailReason, Return, CrashReason
<1>5. CASE Crash \/ UNCHANGED vars
  BY <1>5 DEF Crash
<1> QED  BY <1>1, <1>2, <1>3, <1>4, <1>5 DEF Next

(* A callback slides the list, and what it appended is to be counted.      *)
LEMMA CallbackKeepsLists ==
  ASSUME LogsOK, ListsOK, NEW s \in Streams, Callback(s)
  PROVE  ListsOK'
<1> DEFINE e == Head(ring[s])
           n == Len(feed[s])
<1>1. e \in Events /\ feed \in [Streams -> Seq(Events)]
  BY CallbackKeepsLogs DEF LogsOK
<1>2. /\ pending = <<>> /\ pending' = <<e>> /\ Polled' = s
      /\ list' = [list EXCEPT ![s] = Listed(s, e)]
      /\ feed' = [feed EXCEPT ![s] = Append(feed[s], e)]
      /\ count' = count
  BY DEF Callback, modules, Polled
<1>3. /\ list[s] = Promise!Window(feed[s], n)
      /\ count[s] \in Nat
      /\ count[s] + Owed(s) = Cardinality(Counted(feed[s], n))
  BY DEF ListsOK
<1> HIDE DEF e, n
<1>4. feed[s] \in Seq(Events) /\ n = Len(feed[s])
  BY <1>1 DEF n
<1>5. /\ feed'[s] = Append(feed[s], e) /\ Len(feed'[s]) = n + 1
      /\ \A t \in Streams \ {s} : feed'[t] = feed[t] /\ list'[t] = list[t]
      /\ DOMAIN list' = Streams /\ DOMAIN count' = Streams
      /\ list'[s] = Listed(s, e)
  BY <1>1, <1>2, <1>4 DEF ListsOK
<1>6. list'[s] = Promise!Window(feed'[s], n + 1)
  BY <1>1, <1>3, <1>4, <1>5, WindowSlides DEF Listed
<1>7. /\ Owed(s) = 0 /\ Owed(s)' = IF e.counted THEN 1 ELSE 0
      /\ \A t \in Streams \ {s} : Owed(t) = 0 /\ Owed(t)' = 0
  <2>1. pending' # <<>> /\ Head(pending') = e
    BY <1>2
  <2> QED  BY <1>2, <2>1 DEF Owed
<1>8. /\ Cardinality(Counted(feed[s], n)) \in Nat
      /\ Cardinality(Counted(feed'[s], n + 1)) =
           Cardinality(Counted(feed[s], n)) + IF e.counted THEN 1 ELSE 0
  BY <1>1, <1>4, <1>5, CountedNext
<1>9. count'[s] + Owed(s)' = Cardinality(Counted(feed'[s], n + 1))
  BY <1>2, <1>3, <1>7, <1>8
<1>10. ASSUME NEW t \in Streams
       PROVE  /\ list'[t] = Promise!Window(feed'[t], Len(feed'[t]))
              /\ count'[t] \in Nat
              /\ count'[t] + Owed(t)' =
                   Cardinality(Counted(feed'[t], Len(feed'[t])))
  <2>1. CASE t = s
    BY <1>2, <1>3, <1>5, <1>6, <1>9, <2>1
  <2>2. CASE t # s
    BY <1>2, <1>5, <1>7, <2>2 DEF ListsOK
  <2> QED  BY <2>1, <2>2
<1> QED  BY <1>5, <1>10 DEF ListsOK

(* The counter gets what is owed to it, and nothing is owed then.          *)
LEMMA CountKeepsLists ==
  ASSUME PlaceOK, ListsOK, NEW s \in Streams, CountEvent(s)
  PROVE  ListsOK'
<1>1. /\ pending # <<>> /\ Polled = s /\ pending' = <<>>
      /\ count' = [count EXCEPT ![s] = IF Head(pending).counted
                                       THEN count[s] + 1 ELSE count[s]]
      /\ list' = list /\ feed' = feed
  BY DEF CountEvent
<1>2. \A t \in Streams : Owed(t)' = 0
  BY <1>1 DEF Owed
<1>3. /\ Owed(s) = IF Head(pending).counted THEN 1 ELSE 0
      /\ \A t \in Streams \ {s} : Owed(t) = 0
  BY <1>1 DEF Owed
<1>4. \A t \in Streams : count'[t] = count[t] + Owed(t) /\ count'[t] \in Nat
  BY <1>1, <1>3 DEF ListsOK
<1>5. \A t \in Streams : count'[t] + Owed(t)' = count[t] + Owed(t)
  BY <1>2, <1>4
<1> QED  BY <1>1, <1>4, <1>5 DEF ListsOK

(* The lists show the newest events of their logs, and the counters agree  *)
(* with the logs but for the event that is being counted.                  *)
THEOREM ListsCorrect == Spec => []ListsOK
<1>1. Init => ListsOK
  <2> SUFFICES ASSUME Init PROVE ListsOK
      OBVIOUS
  <2>1. /\ pending = <<>>
        /\ list = [s \in Streams |-> <<>>] /\ feed = [s \in Streams |-> <<>>]
        /\ count = [s \in Streams |-> 0]
    BY DEF Init
  <2>2. \A s \in Streams : Owed(s) = 0 /\ Counted(feed[s], Len(feed[s])) = {}
    BY <2>1 DEF Owed, Counted
  <2>3. \A s \in Streams : Promise!Window(feed[s], Len(feed[s])) = <<>>
    <3>1. \A s \in Streams : feed[s] \in Seq(Events) /\ Len(feed[s]) = 0
      BY <2>1
    <3> QED  BY <3>1, WindowIs
  <2> QED  BY <2>1, <2>2, <2>3, FS_EmptySet DEF ListsOK
<1>2. LogsOK /\ PlaceOK /\ ListsOK /\ [Next]_vars => ListsOK'
  <2> SUFFICES ASSUME LogsOK, PlaceOK, ListsOK, [Next]_vars PROVE ListsOK'
      OBVIOUS
  <2>1. CASE /\ UNCHANGED <<list, count, feed, pending>>
             /\ pending = <<>> \/ UNCHANGED <<at, bpfs>>
    <3>1. \A s \in Streams : Owed(s)' = Owed(s)
      BY <2>1 DEF Owed, Polled
    <3> QED  BY <2>1, <3>1 DEF ListsOK
  <2> QED  BY <2>1, ListWriters, CallbackKeepsLists, CountKeepsLists
<1> QED  BY <1>1, <1>2, LogsCorrect, PlaceCorrect, PTL DEF Spec

-----------------------------------------------------------------------------
(* The order in which the fields of an answer are read: first the lists,   *)
(* then the counters.                                                      *)
LEMMA FieldsAre ==
  /\ Lists \in Nat
  /\ \A r \in {"none", "metrics", "answered"} :
       /\ Len(Fields(r)) = 2 * Lists
       /\ \A i \in 1 .. Lists : /\ Fields(r)[i] = <<"list", StreamOrder[i]>>
                               /\ Fields(r)[Lists + i] = <<"count", StreamOrder[i]>>
  /\ \A i \in 1 .. Lists : StreamOrder[i] \in Streams
  /\ \A i, j \in 1 .. Lists : StreamOrder[i] = StreamOrder[j] => i = j
  /\ Fields("debug") = <<<<"bpf_instances">>>>
<1>1. /\ Lists \in Nat /\ DOMAIN StreamOrder = 1 .. Lists
      /\ \A i \in 1 .. Lists : StreamOrder[i] \in Streams
  BY BackendAssumption DEF Lists
<1>2. \A i, j \in 1 .. Lists : StreamOrder[i] = StreamOrder[j] => i = j
  BY <1>1, BackendAssumption DEF IsInjective
<1> DEFINE T == {"list", "count"} \X Streams
           a == Each("list")
           b == Each("count")
<1>3. /\ a \in Seq(T) /\ Len(a) = Lists
      /\ \A i \in 1 .. Lists : a[i] = <<"list", StreamOrder[i]>>
  BY <1>1 DEF Each, Lists
<1>4. /\ b \in Seq(T) /\ Len(b) = Lists
      /\ \A i \in 1 .. Lists : b[i] = <<"count", StreamOrder[i]>>
  BY <1>1 DEF Each, Lists
<1>5. /\ \A r \in {"none", "metrics", "answered"} : Fields(r) = a \o b
      /\ Fields("debug") = <<<<"bpf_instances">>>>
  BY DEF Fields
<1> HIDE DEF a, b, T
<1>6. Len(a \o b) = 2 * Lists
  <2>0. a \in Seq(T) /\ b \in Seq(T)
    BY <1>3, <1>4
  <2>1. Len(a \o b) = Len(a) + Len(b)
    BY <2>0
  <2> QED  BY <1>1, <1>3, <1>4, <2>1
<1>7. ASSUME NEW i \in 1 .. Lists
      PROVE  (a \o b)[i] = a[i] /\ (a \o b)[Lists + i] = b[i]
  <2>1. /\ i \in 1 .. Len(a) + Len(b) /\ i <= Len(a)
        /\ Lists + i \in 1 .. Len(a) + Len(b) /\ ~(Lists + i <= Len(a))
        /\ Lists + i - Len(a) = i
    BY <1>1, <1>3, <1>4
  <2> QED  BY <1>3, <1>4, <2>1
<1> QED  BY <1>1, <1>2, <1>3, <1>4, <1>5, <1>6, <1>7

(* Every stream has a place in the order of the fields.                    *)
LEMMA PlaceOfStream ==
  ASSUME NEW s \in Streams
  PROVE  \E i \in 1 .. Lists : StreamOrder[i] = s
<1>1. s \in ToSet(StreamOrder) /\ DOMAIN StreamOrder = 1 .. Lists
  BY BackendAssumption DEF Lists
<1> QED  BY <1>1 DEF ToSet

(* Where the list and the counter of a stream are among the fields read.   *)
LEMMA PartIs ==
  ASSUME NEW q \in Requests, AnswerOK(q), route[q] \in {"metrics", "answered"},
         NEW i \in 1 .. Lists
  PROVE  LET s == StreamOrder[i]
         IN /\ HasPart(q, <<"list", s>>) <=> i <= Len(reading[q])
            /\ i <= Len(reading[q]) => Part(q, <<"list", s>>) = reading[q][i]
            /\ HasPart(q, <<"count", s>>) <=> Lists + i <= Len(reading[q])
            /\ Lists + i <= Len(reading[q]) =>
                 Part(q, <<"count", s>>) = reading[q][Lists + i]
<1> DEFINE s == StreamOrder[i]
           r == route[q]
<1>0. /\ DOMAIN reading[q] = 1 .. Len(reading[q]) /\ Len(reading[q]) \in Nat
      /\ Len(reading[q]) <= 2 * Lists /\ Lists \in Nat
  BY FieldsAre DEF AnswerOK
<1>1. \A j \in 1 .. 2 * Lists :
        /\ Fields(r)[j] = <<"list", s>> <=> j = i
        /\ Fields(r)[j] = <<"count", s>> <=> j = Lists + i
  <2> SUFFICES ASSUME NEW j \in 1 .. 2 * Lists
               PROVE  /\ Fields(r)[j] = <<"list", s>> <=> j = i
                      /\ Fields(r)[j] = <<"count", s>> <=> j = Lists + i
      OBVIOUS
  <2>1. CASE j <= Lists
    <3>1. j \in 1 .. Lists /\ j # Lists + i
      BY <1>0, <2>1
    <3>2. Fields(r)[j] = <<"list", StreamOrder[j]>>
      BY <3>1, FieldsAre
    <3> QED  BY <3>1, <3>2, FieldsAre
  <2>2. CASE j > Lists
    <3>1. j - Lists \in 1 .. Lists /\ j # i /\ j = Lists + (j - Lists)
      BY <1>0, <2>2
    <3>2. Fields(r)[j] = <<"count", StreamOrder[j - Lists]>>
      BY <3>1, FieldsAre
    <3>3. StreamOrder[j - Lists] = s <=> j - Lists = i
      BY <3>1, FieldsAre
    <3> QED  BY <1>0, <3>1, <3>2, <3>3
  <2> QED  BY <1>0, <2>1, <2>2
<1>2. \A j \in DOMAIN reading[q] : j \in 1 .. 2 * Lists
  BY <1>0
<1>3. HasPart(q, <<"list", s>>) <=> i \in DOMAIN reading[q]
  BY <1>0, <1>1, <1>2 DEF HasPart
<1>4. HasPart(q, <<"count", s>>) <=> Lists + i \in DOMAIN reading[q]
  BY <1>0, <1>1, <1>2 DEF HasPart
<1>5. i \in DOMAIN reading[q] => Part(q, <<"list", s>>) = reading[q][i]
  <2>1. i \in DOMAIN reading[q] =>
          (CHOOSE j \in DOMAIN reading[q] : Fields(r)[j] = <<"list", s>>) = i
    BY <1>1, <1>2
  <2> QED  BY <2>1 DEF Part
<1>6. Lists + i \in DOMAIN reading[q] =>
        Part(q, <<"count", s>>) = reading[q][Lists + i]
  <2>1. Lists + i \in DOMAIN reading[q] =>
          (CHOOSE j \in DOMAIN reading[q] : Fields(r)[j] = <<"count", s>>) = Lists + i
    BY <1>1, <1>2
  <2> QED  BY <2>1 DEF Part
<1>7. /\ i \in DOMAIN reading[q] <=> i <= Len(reading[q])
      /\ Lists + i \in DOMAIN reading[q] <=> Lists + i <= Len(reading[q])
  BY <1>0
<1> QED  BY <1>3, <1>4, <1>5, <1>6, <1>7

-----------------------------------------------------------------------------
(* The log of a stream is a sequence of events in order.                   *)
LEMMA FeedOrdered ==
  ASSUME LogsOK, NEW s \in Streams
  PROVE  feed[s] \in Seq(Events) /\ Ordered(feed[s]) /\ Len(feed[s]) \in Nat
<1>1. /\ feed[s] \in Seq(Events) /\ ring[s] \in Seq(Events)
      /\ Ordered(feed[s] \o ring[s])
  BY DEF LogsOK, Perf!PerfTypeOK
<1> QED  BY <1>1, OrderedLog

(* What the answers rely on at a callback: it only appends.                *)
LEMMA CallbackAppends ==
  ASSUME LogsOK, NEW s \in Streams, Callback(s)
  PROVE  /\ LogsOK'
         /\ \E e \in Events : feed' = [feed EXCEPT ![s] = Append(feed[s], e)]
         /\ \A t \in Streams : /\ Len(feed[t]) \in Nat /\ Len(feed'[t]) \in Nat
                               /\ Len(feed[t]) <= Len(feed'[t])
         /\ \A t \in Streams : \A k \in 0 .. Len(feed[t]) :
              /\ Promise!Window(feed'[t], k) = Promise!Window(feed[t], k)
              /\ Counted(feed'[t], k) = Counted(feed[t], k)
<1> DEFINE e == Head(ring[s])
<1>1. /\ e \in Events /\ LogsOK' /\ feed \in [Streams -> Seq(Events)]
      /\ feed' = [feed EXCEPT ![s] = Append(feed[s], e)]
  BY CallbackKeepsLogs DEF Callback, LogsOK
<1> HIDE DEF e
<1>2. /\ feed'[s] = Append(feed[s], e) /\ feed[s] \in Seq(Events)
      /\ \A t \in Streams \ {s} : feed'[t] = feed[t]
  BY <1>1
<1>3. \A t \in Streams : /\ Len(feed[t]) \in Nat /\ Len(feed'[t]) \in Nat
                         /\ Len(feed[t]) <= Len(feed'[t])
  BY <1>1, <1>2
<1>4. ASSUME NEW t \in Streams, NEW k \in 0 .. Len(feed[t])
      PROVE  /\ Promise!Window(feed'[t], k) = Promise!Window(feed[t], k)
             /\ Counted(feed'[t], k) = Counted(feed[t], k)
  <2>1. CASE t = s
    BY <1>1, <1>2, <2>1, WindowStays
  <2>2. CASE t # s
    BY <1>2, <2>2
  <2> QED  BY <2>1, <2>2
<1> QED  BY <1>1, <1>3, <1>4

-----------------------------------------------------------------------------
(* The next field of /api/metrics: a list, or the counter of a list that   *)
(* was read before.                                                        *)
LEMMA MetricsRead ==
  ASSUME LogsOK, ListsOK, NEW q \in Requests, DOMAIN reading = Requests,
         AskedOK(q), AnswerOK(q), ReadField(q), route[q] = "metrics"
  PROVE  AnswerOK(q)'
<1> DEFINE m == Len(reading[q]) + 1
           v == Read(Fields(route[q])[m])
           L == Len(StreamOrder)
<1>0. /\ Lists \in Nat /\ reading[q] \in Seq(Values) /\ Len(reading[q]) \in Nat
      /\ m \in 1 .. 2 * Lists
      /\ feed \in [Streams -> Seq(Events)]
  BY FieldsAre DEF AnswerOK, ReadField, Complete, LogsOK
<1>1. /\ reading'[q] = Append(reading[q], v)
      /\ UNCHANGED <<route, asked, feed, list, count>>
  BY DEF ReadField, streams
<1>2. SUFFICES /\ reading'[q] \in Seq(Values) /\ Len(reading'[q]) <= 2 * Lists
               /\ \A i \in 1 .. Lists : i <= Len(reading'[q]) => ReadOf(q, i)'
  BY <1>1 DEF AnswerOK
<1>3. CASE m <= Lists
  <2>1. m \in 1 .. Lists
    BY <1>0, <1>3
  <2> DEFINE s == StreamOrder[m]
  <2>2. s \in Streams /\ Fields(route[q])[m] = <<"list", s>>
    BY <2>1, FieldsAre
  <2> HIDE DEF s
  <2>3. v = list[s]
    BY <2>2 DEF Read
  <2>4. /\ v = Promise!Window(feed[s], Len(feed[s])) /\ v \in Seq(Events)
        /\ feed[s] \in Seq(Events) /\ Len(feed[s]) \in Nat
    BY <1>0, <2>2, <2>3, WindowIs DEF ListsOK
  <2>5. Len(feed[s]) \in asked[q][s] .. Len(feed[s])
    BY <2>2, <2>4 DEF AskedOK
  <2> HIDE DEF v
  <2>6. v \in Values
    BY <2>4 DEF Values
  <2>7. /\ reading'[q] \in Seq(Values) /\ Len(reading'[q]) = m /\ reading'[q][m] = v
        /\ \A i \in 1 .. Len(reading[q]) : reading'[q][i] = reading[q][i]
    BY <1>0, <1>1, <2>6
  <2>8. ASSUME NEW i \in 1 .. Lists, i <= Len(reading'[q])
        PROVE  ReadOf(q, i)'
    <3>1. ~(Lists + i <= Len(reading'[q])) /\ ~(Lists + i <= Len(reading[q]))
      BY <1>0, <1>3, <2>7, <2>8
    <3>2. CASE i = m
      BY <1>1, <2>4, <2>5, <2>7, <3>1, <3>2 DEF ReadOf, s
    <3>3. CASE i < m
      <4>1. i <= Len(reading[q]) /\ reading'[q][i] = reading[q][i]
        BY <1>0, <2>7, <3>3
      <4>2. ReadOf(q, i)
        BY <4>1 DEF AnswerOK
      <4> QED  BY <1>1, <3>1, <4>1, <4>2 DEF ReadOf
    <3> QED  BY <1>0, <2>7, <2>8, <3>2, <3>3
  <2> QED  BY <1>0, <2>7, <2>8
<1>4. CASE m > Lists
  <2> DEFINE j == m - Lists
             s == StreamOrder[j]
  <2>1. j \in 1 .. Lists /\ m = Lists + j
    BY <1>0, <1>4
  <2>2. s \in Streams /\ Fields(route[q])[m] = <<"count", s>>
    BY <1>0, <2>1, FieldsAre
  <2> HIDE DEF s
  <2>3. v = count[s] /\ v \in Nat
    BY <2>2 DEF Read, ListsOK
  <2>4. ASSUME NEW k \in 0 .. Len(feed[s])
        PROVE  Cardinality(Counted(feed[s], k)) <= v + 1
    <3>1. /\ Cardinality(Counted(feed[s], k)) \in Nat
          /\ Cardinality(Counted(feed[s], k)) <=
               Cardinality(Counted(feed[s], Len(feed[s])))
      BY <1>0, <2>2, CountedFewer
    <3>2. /\ count[s] + Owed(s) = Cardinality(Counted(feed[s], Len(feed[s])))
          /\ Owed(s) \in {0, 1}
      BY <2>2 DEF ListsOK, Owed
    <3> QED  BY <2>3, <3>1, <3>2
  <2> HIDE DEF v, j
  <2>5. /\ reading'[q] \in Seq(Values) /\ Len(reading'[q]) = m /\ reading'[q][m] = v
        /\ \A i \in 1 .. Len(reading[q]) : reading'[q][i] = reading[q][i]
    BY <1>0, <1>1, <2>3 DEF Values
  <2>6. ASSUME NEW i \in 1 .. Lists, i <= Len(reading'[q])
        PROVE  ReadOf(q, i)'
    <3>1. /\ i <= Len(reading[q]) /\ reading'[q][i] = reading[q][i]
          /\ StreamOrder[i] \in Streams
      <4>1. i \in 1 .. Len(reading[q])
        BY <1>0, <1>4
      <4> QED  BY <2>5, <4>1, FieldsAre
    <3>2. PICK k \in asked[q][StreamOrder[i]] .. Len(feed[StreamOrder[i]]) :
            /\ reading[q][i] = Promise!Window(feed[StreamOrder[i]], k)
            /\ Lists + i <= Len(reading[q]) =>
                 Cardinality(Counted(feed[StreamOrder[i]], k)) <= reading[q][Lists + i] + 1
      BY <3>1 DEF AnswerOK, ReadOf
    <3>3. k \in 0 .. Len(feed[StreamOrder[i]])
      BY <3>1, <3>2 DEF AskedOK
    <3>4. Lists + i <= Len(reading'[q]) =>
            Cardinality(Counted(feed[StreamOrder[i]], k)) <= reading'[q][Lists + i] + 1
      <4>1. CASE i = j
        BY <2>1, <2>4, <2>5, <3>3, <4>1 DEF s
      <4>2. CASE i # j
        <5>1. Lists + i <= Len(reading'[q]) =>
                Lists + i <= Len(reading[q]) /\ Lists + i \in 1 .. Len(reading[q])
          BY <1>0, <2>1, <2>5, <4>2
        <5> QED  BY <2>5, <3>2, <5>1
      <4> QED  BY <4>1, <4>2
    <3> QED  BY <1>1, <3>1, <3>2, <3>4 DEF ReadOf
  <2> QED  BY <1>0, <2>5, <2>6
<1> QED  BY <1>0, <1>3, <1>4

(* /api/debug reads bpfs, of which the last may not be registered yet.     *)
LEMMA DebugRead ==
  ASSUME PlaceOK, NEW q \in Requests, DOMAIN reading = Requests, AnswerOK(q),
         ReadField(q), route[q] = "debug"
  PROVE  AnswerOK(q)'
<1>0. /\ reading[q] = <<>> /\ Len(reading[q]) = 0
      /\ loaded_modules \in Seq(Programs) /\ bpfs \in Seq(Programs)
  <2>1. Fields("debug") = <<<<"bpf_instances">>>> /\ Len(Fields("debug")) = 1
    BY FieldsAre
  <2> QED  BY <2>1 DEF AnswerOK, ReadField, Complete, PlaceOK
<1>1. /\ reading'[q] = Append(reading[q], bpfs)
      /\ route' = route /\ loaded_modules' = loaded_modules
  <2>1. Fields(route[q])[Len(reading[q]) + 1] = <<"bpf_instances">>
    BY <1>0, FieldsAre
  <2> QED  BY <2>1 DEF ReadField, Read, modules
<1>2. reading'[q] = <<bpfs>>
  BY <1>0, <1>1
<1>3. \A j \in 1 .. Len(bpfs) - 1 : bpfs[j] \in ToSet(loaded_modules)
  <2>1. CASE bpfs = loaded_modules
    BY <1>0, <2>1 DEF ToSet
  <2>2. CASE bpfs = Append(loaded_modules, Order[at])
    <3>1. \A j \in 1 .. Len(bpfs) - 1 :
            j \in DOMAIN loaded_modules /\ bpfs[j] = loaded_modules[j]
      BY <1>0, <2>2
    <3> QED  BY <3>1 DEF ToSet
  <2> QED  BY <2>1, <2>2 DEF PlaceOK
<1>4. /\ reading'[q] \in Seq(Values)
      /\ Len(reading'[q]) = 1 /\ reading'[q][1] = bpfs
  BY <1>0, <1>2 DEF Values
<1> QED  BY <1>0, <1>1, <1>3, <1>4 DEF AnswerOK

answering == <<route, reading, asked>>

(* A step of one request leaves the others alone.                          *)
LEMMA OthersKeepRead ==
  ASSUME NEW q, AskedOK(q), AnswerOK(q),
         UNCHANGED <<feed, loaded_modules>>, route'[q] = route[q],
         reading'[q] = reading[q], asked'[q] = asked[q]
  PROVE  AskedOK(q)' /\ AnswerOK(q)'
<1>1. AskedOK(q)'
  BY DEF AskedOK
<1>2. \A i \in 1 .. Lists : ReadOf(q, i) => ReadOf(q, i)'
  BY DEF ReadOf
<1> QED  BY <1>1, <1>2 DEF AnswerOK

(* A request starts with nothing read, and knows what was logged.          *)
LEMMA RequestReads ==
  ASSUME LogsOK, ReadOK, NEW q \in Requests, NEW r \in {"metrics", "debug"},
         Request(q, r)
  PROVE  ReadOK'
<1>1. /\ route' = [route EXCEPT ![q] = r] /\ reading' = [reading EXCEPT ![q] = <<>>]
      /\ asked' = [asked EXCEPT ![q] = [s \in Streams |-> Len(feed[s])]]
      /\ UNCHANGED <<feed, loaded_modules>>
  BY DEF Request, streams, modules
<1>2. /\ route'[q] = r /\ reading'[q] = <<>>
      /\ asked'[q] = [s \in Streams |-> Len(feed[s])]
  BY <1>1 DEF ReadOK
<1>3. AskedOK(q)'
  <2>1. \A s \in Streams : Len(feed[s]) \in Nat
    BY FeedOrdered
  <2> QED  BY <1>1, <1>2, <2>1 DEF AskedOK
<1>4. AnswerOK(q)'
  <2>1. <<>> \in Seq(Values) /\ Len(<<>>) = 0 /\ Lists \in Nat
    BY FieldsAre
  <2> QED  BY <1>2, <2>1 DEF AnswerOK
<1>5. ASSUME NEW p \in Requests \ {q} PROVE AskedOK(p)' /\ AnswerOK(p)'
  BY <1>1, OthersKeepRead DEF ReadOK
<1>6. DOMAIN route' = Requests /\ DOMAIN reading' = Requests /\ DOMAIN asked' = Requests
  BY <1>1 DEF ReadOK
<1> QED  BY <1>3, <1>4, <1>5, <1>6 DEF ReadOK

(* One more field is read.                                                 *)
LEMMA FieldReads ==
  ASSUME LogsOK, PlaceOK, ListsOK, ReadOK, NEW q \in Requests, ReadField(q)
  PROVE  ReadOK'
<1>1. /\ UNCHANGED <<route, asked, feed, loaded_modules>>
      /\ DOMAIN reading' = Requests
      /\ \A p \in Requests \ {q} : reading'[p] = reading[p]
  BY DEF ReadField, ReadOK, streams, modules
<1>2. AskedOK(q)'
  BY <1>1 DEF ReadOK, AskedOK
<1>3. AnswerOK(q)'
  BY MetricsRead, DebugRead DEF ReadField, ReadOK
<1>4. ASSUME NEW p \in Requests \ {q} PROVE AskedOK(p)' /\ AnswerOK(p)'
  BY <1>1, OthersKeepRead DEF ReadOK
<1> QED  BY <1>1, <1>2, <1>3, <1>4 DEF ReadOK

(* An answer is what was read for it.                                      *)
LEMMA RespondReads ==
  ASSUME LogsOK, ReadOK, NEW q \in Requests, Respond(q)
  PROVE  ReadOK'
<1>1. /\ asked' = [asked EXCEPT ![q] = [s \in Streams |-> 0]]
      /\ UNCHANGED <<feed, loaded_modules>>
      /\ \/ /\ route[q] = "metrics" /\ route' = [route EXCEPT ![q] = "answered"]
            /\ reading' = reading
         \/ /\ route' = [route EXCEPT ![q] = "none"]
            /\ reading' = [reading EXCEPT ![q] = <<>>]
  BY DEF Respond, streams, modules
<1>2. asked'[q] = [s \in Streams |-> 0]
  BY <1>1 DEF ReadOK
<1>3. AskedOK(q)'
  <2>1. \A s \in Streams : Len(feed[s]) \in Nat
    BY FeedOrdered
  <2> QED  BY <1>1, <1>2, <2>1 DEF AskedOK
<1>4. AnswerOK(q)'
  <2>1. CASE route[q] = "metrics"
    <3>1. route'[q] = "answered" /\ reading'[q] = reading[q]
      BY <1>1, <2>1 DEF ReadOK, Respond
    <3>2. /\ Len(reading[q]) = 2 * Lists /\ reading[q] \in Seq(Values)
          /\ \A i \in 1 .. Lists : i <= Len(reading[q]) => ReadOf(q, i)
      BY <2>1, FieldsAre DEF Respond, Complete, ReadOK, AnswerOK
    <3>3. ASSUME NEW i \in 1 .. Lists, ReadOf(q, i) PROVE ReadOf(q, i)'
      <4> DEFINE s == StreamOrder[i]
      <4>1. s \in Streams
        BY FieldsAre
      <4>2. asked'[q][s] = 0 /\ asked[q][s] \in Nat
        BY <1>2, <4>1 DEF ReadOK, AskedOK
      <4> QED  BY <1>1, <3>1, <3>3, <4>2 DEF ReadOf
    <3> QED  BY <3>1, <3>2, <3>3 DEF AnswerOK
  <2>2. CASE route[q] # "metrics"
    <3>1. route'[q] = "none" /\ reading'[q] = <<>>
      BY <1>1, <2>2 DEF ReadOK
    <3>2. <<>> \in Seq(Values)
      OBVIOUS
    <3> QED  BY <3>1, <3>2 DEF AnswerOK
  <2> QED  BY <2>1, <2>2
<1>5. /\ \A p \in Requests \ {q} : /\ route'[p] = route[p] /\ asked'[p] = asked[p]
                                   /\ reading'[p] = reading[p]
      /\ DOMAIN route' = Requests /\ DOMAIN reading' = Requests
      /\ DOMAIN asked' = Requests
  BY <1>1 DEF ReadOK
<1>6. ASSUME NEW p \in Requests \ {q} PROVE AskedOK(p)' /\ AnswerOK(p)'
  BY <1>1, <1>5, OthersKeepRead DEF ReadOK
<1> QED  BY <1>3, <1>4, <1>5, <1>6 DEF ReadOK

(* Who writes what the answers depend on.                                  *)
LEMMA AnswerWriters ==
  ASSUME [Next]_vars
  PROVE  \/ /\ UNCHANGED <<answering, feed>>
            /\ Register \/ UNCHANGED loaded_modules
         \/ \E s \in Streams : Callback(s)
         \/ \E q \in Requests : Serve(q)
<1> USE DEF streams, env, request, modules, answering, vars
<1>1. ASSUME NEW s \in Streams, Submit(s)
      PROVE  UNCHANGED <<answering, feed, loaded_modules>>
  BY <1>1 DEF Submit
<1>2. CASE Poll
  BY <1>2 DEF Poll, CountEvent, PollReturns, ReadMaps, Again
<1>3. CASE Worker /\ ~Poll
  BY <1>3 DEF Worker, Start, Load, LoadFails, Register, Loaded, Open,
     NotOpened, Decide, FailReason, Return, CrashReason
<1>4. CASE Crash \/ UNCHANGED vars
  BY <1>4 DEF Crash
<1> QED  BY <1>1, <1>2, <1>3, <1>4 DEF Next

(* What is read stays right while the worker goes on.                      *)
LEMMA WorkerKeepsRead ==
  ASSUME LogsOK, PlaceOK, ReadOK, UNCHANGED answering,
         loaded_modules' = loaded_modules \/ Register,
         feed' = feed \/ \E s \in Streams : Callback(s)
  PROVE  ReadOK'
<1>1. \A x \in ToSet(loaded_modules) : x \in ToSet(loaded_modules')
  <2>1. CASE Register
    <3>1. /\ loaded_modules' = Append(loaded_modules, Order[at])
          /\ loaded_modules \in Seq(Programs)
          /\ at \in 1 .. Len(Order)
      BY <2>1 DEF Register, PlaceOK
    <3>2. Order[at] \in Programs
      BY <3>1, BackendAssumption
    <3>3. ToSet(loaded_modules) \subseteq ToSet(Append(loaded_modules, Order[at]))
      BY <3>1, <3>2, LoadedStays
    <3> QED  BY <3>1, <3>3
  <2>2. CASE loaded_modules' = loaded_modules
    BY <2>2
  <2> QED  BY <2>1, <2>2
<1>2. /\ \A t \in Streams : /\ Len(feed[t]) \in Nat /\ Len(feed'[t]) \in Nat
                            /\ Len(feed[t]) <= Len(feed'[t])
      /\ \A t \in Streams : \A k \in 0 .. Len(feed[t]) :
           /\ Promise!Window(feed'[t], k) = Promise!Window(feed[t], k)
           /\ Counted(feed'[t], k) = Counted(feed[t], k)
  <2>1. CASE feed' = feed
    BY <2>1, FeedOrdered
  <2>2. CASE \E s \in Streams : Callback(s)
    BY <2>2, CallbackAppends
  <2> QED  BY <2>1, <2>2
<1>3. ASSUME NEW q \in Requests PROVE AskedOK(q)' /\ AnswerOK(q)'
  <2>1. AskedOK(q) /\ AnswerOK(q)
    BY DEF ReadOK
  <2>2. AskedOK(q)'
    BY <1>2, <2>1 DEF AskedOK, answering
  <2>3. ASSUME NEW i \in 1 .. Lists, ReadOf(q, i) PROVE ReadOf(q, i)'
    <3> DEFINE s == StreamOrder[i]
    <3>1. s \in Streams /\ asked[q][s] \in Nat
      BY <2>1, FieldsAre DEF AskedOK
    <3> HIDE DEF s
    <3>2. PICK k \in asked[q][s] .. Len(feed[s]) :
            /\ reading[q][i] = Promise!Window(feed[s], k)
            /\ Lists + i <= Len(reading[q]) =>
                 Cardinality(Counted(feed[s], k)) <= reading[q][Lists + i] + 1
      BY <2>3 DEF ReadOf, s
    <3>3. k \in 0 .. Len(feed[s])
      BY <1>2, <3>1, <3>2
    <3>4. /\ Promise!Window(feed'[s], k) = Promise!Window(feed[s], k)
          /\ Counted(feed'[s], k) = Counted(feed[s], k)
          /\ k \in asked'[q][s] .. Len(feed'[s])
      BY <1>2, <3>1, <3>2, <3>3 DEF answering
    <3>5. /\ reading'[q][i] = Promise!Window(feed'[s], k)
          /\ Lists + i <= Len(reading'[q]) =>
               Cardinality(Counted(feed'[s], k)) <= reading'[q][Lists + i] + 1
      BY <3>2, <3>4 DEF answering
    <3> QED  BY <3>4, <3>5 DEF ReadOf, s
  <2>4. AnswerOK(q)'
    BY <1>1, <2>1, <2>3 DEF AnswerOK, answering
  <2> QED  BY <2>2, <2>4
<1> QED  BY <1>3 DEF ReadOK, answering

(* However many requests are served at once, each reads windows of the     *)
(* logs that lack nothing older than the request, and counters that agree. *)
THEOREM AnswersCorrect == Spec => []ReadOK
<1>1. Init => ReadOK
  <2> SUFFICES ASSUME Init PROVE ReadOK
      OBVIOUS
  <2>1. /\ route = [q \in Requests |-> "none"] /\ reading = [q \in Requests |-> <<>>]
        /\ asked = [q \in Requests |-> [s \in Streams |-> 0]]
        /\ feed = [s \in Streams |-> <<>>]
    BY DEF Init
  <2>2. <<>> \in Seq(Values) /\ Len(<<>>) = 0
    OBVIOUS
  <2>3. ASSUME NEW q \in Requests PROVE AskedOK(q) /\ AnswerOK(q)
    BY <2>1, <2>2 DEF AskedOK, AnswerOK
  <2> QED  BY <2>1, <2>3 DEF ReadOK
<1>2. LogsOK /\ PlaceOK /\ ListsOK /\ ReadOK /\ [Next]_vars => ReadOK'
  <2> SUFFICES ASSUME LogsOK, PlaceOK, ListsOK, ReadOK, [Next]_vars PROVE ReadOK'
      OBVIOUS
  <2>1. CASE /\ UNCHANGED <<answering, feed>>
             /\ Register \/ UNCHANGED loaded_modules
    BY <2>1, WorkerKeepsRead
  <2>2. ASSUME NEW s \in Streams, Callback(s) PROVE ReadOK'
    <3>1. UNCHANGED answering /\ loaded_modules' = loaded_modules
      BY <2>2 DEF Callback, env, request, modules, answering
    <3> QED  BY <2>2, <3>1, WorkerKeepsRead
  <2>3. ASSUME NEW q \in Requests, Serve(q) PROVE ReadOK'
    BY <2>3, RequestReads, FieldReads, RespondReads DEF Serve
  <2> QED  BY <2>1, <2>2, <2>3, AnswerWriters
<1> QED  BY <1>1, <1>2, LogsCorrect, PlaceCorrect, ListsCorrect, PTL DEF Spec

(* The counter that a request has read misses at most one event of its     *)
(* list.                                                                   *)
LEMMA CountersDoAgree ==
  ASSUME LogsOK, ReadOK, NEW q \in Requests
  PROVE  CountersAgree(q)
<1>0. /\ DOMAIN reading[q] = 1 .. Len(reading[q]) /\ Len(reading[q]) \in Nat
      /\ route[q] \in {"none", "metrics", "debug", "answered"} /\ Lists \in Nat
      /\ AnswerOK(q) /\ AskedOK(q)
  BY FieldsAre DEF ReadOK, AnswerOK
<1> SUFFICES ASSUME NEW s \in Streams,
                    HasPart(q, <<"list", s>>), HasPart(q, <<"count", s>>)
             PROVE  LET seen == Part(q, <<"list", s>>)
                        before == {i \in DOMAIN feed[s] :
                                     /\ seen # <<>> /\ feed[s][i].counted
                                     /\ feed[s][i].n <= Last(seen).n}
                    IN Cardinality(before) <= Part(q, <<"count", s>>) + 1
    BY DEF CountersAgree
<1>1. route[q] \in {"metrics", "answered"}
  <2>1. route[q] # "none"
    BY <1>0 DEF HasPart, AnswerOK
  <2>2. CASE route[q] = "debug"
    <3>1. PICK i \in DOMAIN reading[q] : Fields(route[q])[i] = <<"list", s>>
      BY DEF HasPart
    <3>2. i = 1
      BY <1>0, <2>2, <3>1 DEF AnswerOK
    <3>3. <<"bpf_instances">> = <<"list", s>>
      BY <2>2, <3>1, <3>2, FieldsAre
    <3> QED  BY <3>3
  <2> QED  BY <1>0, <2>1, <2>2
<1>2. PICK i \in 1 .. Lists : StreamOrder[i] = s
  BY PlaceOfStream
<1>3. /\ Part(q, <<"list", s>>) = reading[q][i] /\ i <= Len(reading[q])
      /\ Part(q, <<"count", s>>) = reading[q][Lists + i]
      /\ Lists + i <= Len(reading[q])
  BY <1>0, <1>1, <1>2, PartIs
<1>4. PICK k \in asked[q][s] .. Len(feed[s]) :
        /\ reading[q][i] = Promise!Window(feed[s], k)
        /\ Cardinality(Counted(feed[s], k)) <= reading[q][Lists + i] + 1
  BY <1>0, <1>1, <1>2, <1>3 DEF AnswerOK, ReadOf
<1>5. /\ feed[s] \in Seq(Events) /\ Ordered(feed[s])
      /\ DOMAIN feed[s] = 1 .. Len(feed[s]) /\ Len(feed[s]) \in Nat
  BY FeedOrdered
<1>6. k \in 0 .. Len(feed[s])
  BY <1>0, <1>4, <1>5 DEF AskedOK
<1> DEFINE w == Promise!Window(feed[s], k)
           before == {j \in DOMAIN feed[s] :
                        /\ w # <<>> /\ feed[s][j].counted
                        /\ feed[s][j].n <= Last(w).n}
<1>7. (k > 0 => w # <<>> /\ Last(w) = feed[s][k]) /\ (k = 0 => w = <<>>)
  BY <1>5, <1>6, WindowIs
<1> HIDE DEF w
<1>8. before = Counted(feed[s], k)
  <2>1. CASE k = 0
    BY <1>7, <2>1 DEF Counted
  <2>2. CASE k > 0
    <3>1. \A j \in DOMAIN feed[s] : feed[s][j].n \in Nat
      <4>1. \A j \in DOMAIN feed[s] : feed[s][j] \in Events
        BY <1>5
      <4>2. \A x \in Events : x.n \in Nat
        BY BackendAssumption DEF Events
      <4> QED  BY <4>1, <4>2
    <3>2. k \in DOMAIN feed[s]
      BY <1>5, <1>6, <2>2
    <3>3. \A j \in DOMAIN feed[s] : feed[s][j].n <= feed[s][k].n <=> j <= k
      BY <1>5, <3>1, <3>2 DEF Ordered
    <3>4. 1 .. k \subseteq DOMAIN feed[s] /\ \A j \in DOMAIN feed[s] : j >= 1
      BY <1>5, <1>6
    <3> QED  BY <1>5, <1>6, <1>7, <2>2, <3>3, <3>4 DEF Counted
  <2> QED  BY <1>6, <2>1, <2>2
<1> HIDE DEF before
<1>9. Cardinality(before) <= reading[q][Lists + i] + 1
  BY <1>4, <1>8
<1>10. Part(q, <<"list", s>>) = w
  BY <1>3, <1>4 DEF w
<1> QED  BY <1>3, <1>9, <1>10 DEF before

(* The programs that /api/debug has read are registered but for the last.  *)
LEMMA ModulesDoAgree ==
  ASSUME ReadOK, NEW q \in Requests
  PROVE  ModulesAgree(q)
<1>0. /\ DOMAIN reading[q] = 1 .. Len(reading[q]) /\ Len(reading[q]) \in Nat
      /\ route[q] \in {"none", "metrics", "debug", "answered"} /\ Lists \in Nat
      /\ AnswerOK(q)
  BY FieldsAre DEF ReadOK, AnswerOK
<1> SUFFICES ASSUME HasPart(q, <<"bpf_instances">>)
             PROVE  \A i \in 1 .. Len(Part(q, <<"bpf_instances">>)) - 1 :
                      Part(q, <<"bpf_instances">>)[i] \in ToSet(loaded_modules)
    BY DEF ModulesAgree
<1>1. route[q] # "none"
  BY <1>0 DEF HasPart, AnswerOK
<1>2. CASE route[q] \in {"metrics", "answered"}
  <2>1. PICK j \in DOMAIN reading[q] : Fields(route[q])[j] = <<"bpf_instances">>
    BY DEF HasPart
  <2>2. j \in 1 .. 2 * Lists
    BY <1>0, <1>2, <2>1 DEF AnswerOK
  <2>3. j \in 1 .. Lists \/ (j - Lists \in 1 .. Lists /\ j = Lists + (j - Lists))
    BY <1>0, <2>2
  <2>4. \E p \in {"list", "count"}, s \in Streams : Fields(route[q])[j] = <<p, s>>
    BY <1>2, <2>3, FieldsAre
  <2> QED  BY <2>1, <2>4
<1>3. CASE route[q] = "debug"
  <2>1. /\ Fields(route[q]) = <<<<"bpf_instances">>>> /\ Len(reading[q]) <= 1
        /\ reading[q] # <<>>
    BY <1>0, <1>3, FieldsAre DEF AnswerOK, HasPart
  <2>2. DOMAIN reading[q] = {1}
    BY <1>0, <2>1
  <2>3. Part(q, <<"bpf_instances">>) = reading[q][1]
    BY <2>1, <2>2 DEF Part
  <2> QED  BY <1>0, <1>3, <2>1, <2>3 DEF AnswerOK
<1> QED  BY <1>0, <1>1, <1>2, <1>3

(* A counter that an answer holds misses at most one event of the list in  *)
(* it, and the programs of /api/debug are registered but for the last.     *)
THEOREM AnswersDoAgree == Spec => []AnswersAgree
<1>1. LogsOK /\ ReadOK => AnswersAgree
  BY CountersDoAgree, ModulesDoAgree DEF AnswersAgree
<1> QED  BY <1>1, LogsCorrect, AnswersCorrect, PTL

-----------------------------------------------------------------------------
(* What a complete answer shows of a stream tells how much of its log it   *)
(* had seen, which is no less than was logged at the request.              *)
LEMMA SeenWhenRead ==
  ASSUME LogsOK, ReadOK, NEW q \in Requests, NEW s \in Streams,
         route[q] \in {"metrics", "answered"}, Len(reading[q]) = 2 * Lists
  PROVE  /\ Seen(q, s) \in asked[q][s] .. Len(feed[s]) /\ asked[q][s] \in Nat
         /\ Part(q, <<"list", s>>) = Promise!Window(feed[s], Seen(q, s))
<1>1. PICK i \in 1 .. Lists : StreamOrder[i] = s
  BY PlaceOfStream
<1>2. AnswerOK(q) /\ AskedOK(q) /\ i <= Len(reading[q]) /\ asked[q][s] \in Nat
  BY FieldsAre DEF ReadOK, AskedOK
<1>3. Part(q, <<"list", s>>) = reading[q][i]
  BY <1>1, <1>2, PartIs
<1>4. PICK k \in asked[q][s] .. Len(feed[s]) :
        reading[q][i] = Promise!Window(feed[s], k)
  BY <1>1, <1>2 DEF AnswerOK, ReadOf
<1>5. feed[s] \in Seq(Events) /\ Ordered(feed[s]) /\ Len(feed[s]) \in Nat
  BY FeedOrdered
<1>6. k \in 0 .. Len(feed[s])
  BY <1>2, <1>4, <1>5
<1>7. Seen(q, s) = k
  BY <1>3, <1>4, <1>5, <1>6, SeenIs DEF Seen
<1> QED  BY <1>2, <1>3, <1>4, <1>7

(* An event that is appended changes nothing of what the answers show.     *)
LEMMA PublishKeepsCalls ==
  ASSUME LogsOK, ReadOK, NEW s \in Streams, Callback(s), NEW q \in Requests
  PROVE  CallOf(q)' = CallOf(q)
<1>1. UNCHANGED answering
  BY DEF Callback, env, request, answering
<1>2. CASE route[q] # "answered"
  BY <1>1, <1>2 DEF CallOf, answering
<1>3. CASE route[q] = "answered"
  <2>1. ASSUME NEW t \in Streams PROVE Seen(q, t)' = Seen(q, t)
    <3> DEFINE n == Seen(q, t)
               part == Part(q, <<"list", t>>)
    <3>1. Len(reading[q]) = 2 * Lists
      BY <1>3 DEF ReadOK, AnswerOK
    <3>2. n \in 0 .. Len(feed[t]) /\ part = Promise!Window(feed[t], n)
      BY <1>3, <3>1, SeenWhenRead
    <3>3. part' = part /\ Seen(q, t)' = SeenOf(part, feed'[t])
      BY <1>1 DEF Part, Seen, answering
    <3> HIDE DEF n, part
    <3>4. /\ LogsOK' /\ n \in 0 .. Len(feed'[t])
          /\ part = Promise!Window(feed'[t], n)
      BY <3>2, CallbackAppends
    <3>5. feed'[t] \in Seq(Events) /\ Ordered(feed'[t])
      <4>1. /\ feed'[t] \in Seq(Events) /\ ring'[t] \in Seq(Events)
            /\ Ordered(feed'[t] \o ring'[t])
        BY <3>4 DEF LogsOK, Perf!PerfTypeOK
      <4> QED  BY <4>1, OrderedLog
    <3> QED  BY <3>3, <3>4, <3>5, SeenIs DEF n
  <2> QED  BY <1>1, <1>3, <2>1 DEF CallOf, answering
<1> QED  BY <1>2, <1>3

(* A step of one request changes no call but its own.                      *)
LEMMA OtherCalls ==
  ASSUME NEW q, UNCHANGED feed, route'[q] = route[q],
         reading'[q] = reading[q], asked'[q] = asked[q]
  PROVE  CallOf(q)' = CallOf(q)
<1>1. \A s \in Streams : Seen(q, s)' = Seen(q, s)
  BY DEF Seen, Part
<1> QED  BY <1>1 DEF CallOf

(* The lists are what Feed promises to the page: however many requests are *)
(* served at once, an answer shows windows of the logs that lack nothing   *)
(* that was logged before its request.                                     *)
THEOREM FeedIsImplemented == Spec => ImplementsFeed
<1> DEFINE calls == [q \in Requests |-> CallOf(q)]
<1>1. Init => Promise!FeedInit
  BY DEF Init, CallOf, Promise!FeedInit, Promise!Idle
<1>2. LogsOK /\ ReadOK /\ [Next]_vars => [Promise!FeedNext]_(Promise!feedVars)
  <2> SUFFICES ASSUME LogsOK, ReadOK, [Next]_vars
               PROVE  Promise!FeedNext \/ UNCHANGED <<feed, calls>>
      BY DEF Promise!feedVars
  <2>1. CASE UNCHANGED <<answering, feed>>
    <3>1. \A q \in Requests : CallOf(q)' = CallOf(q)
      BY <2>1, OtherCalls DEF answering
    <3> QED  BY <2>1, <3>1
  <2>2. ASSUME NEW s \in Streams, Callback(s)
        PROVE  Promise!FeedNext
    <3>1. PICK e \in Events : feed' = [feed EXCEPT ![s] = Append(feed[s], e)]
      BY <2>2, CallbackAppends
    <3>2. \A q \in Requests : CallOf(q)' = CallOf(q)
      BY <2>2, PublishKeepsCalls
    <3>3. Promise!Publish(s, e)
      BY <3>1, <3>2 DEF Promise!Publish
    <3> QED  BY <3>3 DEF Promise!FeedNext
  <2>3. ASSUME NEW q \in Requests, Serve(q)
        PROVE  Promise!FeedNext \/ UNCHANGED <<feed, calls>>
    <3>0. /\ feed' = feed
          /\ DOMAIN route = Requests /\ DOMAIN reading = Requests
          /\ DOMAIN asked = Requests
      BY <2>3 DEF Serve, Request, ReadField, Respond, streams, ReadOK
    <3>1. ASSUME NEW p \in Requests \ {q} PROVE CallOf(p)' = CallOf(p)
      <4>1. route'[p] = route[p] /\ reading'[p] = reading[p] /\ asked'[p] = asked[p]
        BY <2>3, <3>0 DEF Serve, Request, ReadField, Respond
      <4> QED  BY <3>0, <4>1, OtherCalls
    <3>2. calls' = [calls EXCEPT ![q] = CallOf(q)']
      BY <3>1
    <3>3. CASE Request(q, "metrics")
      <4>1. /\ route[q] \in {"none", "answered"} /\ route'[q] = "metrics"
            /\ asked'[q] = [s \in Streams |-> Len(feed[s])]
        BY <3>0, <3>3 DEF Request
      <4>2. calls[q].phase # "asked" /\ CallOf(q)' = Promise!Asked
        BY <4>1 DEF CallOf, Promise!Asked
      <4>3. Promise!Ask(q)
        BY <3>0, <3>2, <4>2 DEF Promise!Ask
      <4> QED  BY <4>3 DEF Promise!FeedNext
    <3>4. CASE Request(q, "debug")
      <4>1. CallOf(q)' = Promise!Idle
        BY <3>0, <3>4 DEF Request, CallOf, Promise!Idle
      <4>2. Promise!Drop(q)
        BY <3>0, <3>2, <4>1 DEF Promise!Drop
      <4> QED  BY <4>2 DEF Promise!FeedNext
    <3>5. CASE ReadField(q)
      <4>1. route[q] \in {"metrics", "debug"} /\ UNCHANGED <<route, asked>>
        BY <3>5 DEF ReadField
      <4>2. CallOf(q)' = CallOf(q)
        BY <4>1 DEF CallOf
      <4> QED  BY <3>0, <3>2, <4>2
    <3>6. CASE Respond(q) /\ route[q] = "debug"
      <4>1. route'[q] = "none"
        BY <3>0, <3>6 DEF Respond
      <4>2. CallOf(q)' = CallOf(q)
        BY <3>6, <4>1 DEF CallOf
      <4> QED  BY <3>0, <3>2, <4>2
    <3>7. CASE Respond(q) /\ route[q] = "metrics"
      <4> DEFINE u == [s \in Streams |-> Seen(q, s)]
      <4>1. /\ route'[q] = "answered" /\ reading' = reading
            /\ Len(reading[q]) = 2 * Lists
        BY <3>0, <3>7, FieldsAre DEF Respond, Complete
      <4>2. \A s \in Streams : Seen(q, s)' = Seen(q, s)
        <5>1. \A s \in Streams : Part(q, <<"list", s>>)' = Part(q, <<"list", s>>)
          BY <3>7, <4>1 DEF Part, Fields
        <5> QED  BY <3>0, <5>1 DEF Seen
      <4>3. CallOf(q)' = [phase |-> "answered", upto |-> u]
        BY <4>1, <4>2 DEF CallOf
      <4>4. calls[q] = [phase |-> "asked", upto |-> asked[q]]
        BY <3>7 DEF CallOf
      <4>5. ASSUME NEW s \in Streams
            PROVE  /\ asked[q][s] <= u[s] /\ u[s] <= Len(feed[s])
                   /\ u[s] \in UNION {0 .. Len(feed[t]) : t \in Streams}
        <5>1. /\ Seen(q, s) \in asked[q][s] .. Len(feed[s]) /\ asked[q][s] \in Nat
              /\ Len(feed[s]) \in Nat
          BY <3>7, <4>1, SeenWhenRead, FeedOrdered
        <5>2. u[s] = Seen(q, s) /\ u[s] \in 0 .. Len(feed[s])
          BY <5>1
        <5> QED  BY <5>1, <5>2
      <4> HIDE DEF u, calls
      <4>6. u \in [Streams -> UNION {0 .. Len(feed[t]) : t \in Streams}]
        BY <4>5 DEF u
      <4>7. Promise!Answer(q)
        <5>1. calls[q].phase = "asked" /\ calls[q].upto = asked[q]
          BY <4>4
        <5> QED  BY <3>0, <3>2, <4>3, <4>5, <4>6, <5>1 DEF Promise!Answer, calls
      <4> QED  BY <4>7 DEF Promise!FeedNext
    <3> QED  BY <2>3, <3>3, <3>4, <3>5, <3>6, <3>7 DEF Serve, Respond
  <2> QED  BY <2>1, <2>2, <2>3, AnswerWriters
<1> QED  BY <1>1, <1>2, LogsCorrect, AnswersCorrect, PTL
         DEF Spec, ImplementsFeed, Promise!FeedSpec

-----------------------------------------------------------------------------
(* The probes of a program that is in bpfs run, those of a program that    *)
(* failed may; the status is one that /api/metrics knows.                  *)
RestOK ==
  /\ active \in BOOLEAN
  /\ ToSet(bpfs) \intersect Streams \subseteq live /\ live \subseteq Streams
  /\ worker_status \in {"starting", "loading", "running", "failed", "crashed"}
  /\ worker_error \in {"none", "No eBPF programs loaded successfully",
                       "exception"}

(* The parts of the invariant that the proofs above have established are   *)
(* what TypeOK says of the variables they are about.                       *)
LEMMA TypesFollow ==
  ASSUME LogsOK, PlaceOK, ListsOK, ReadOK, RestOK
  PROVE  TypeOK
<1>1. \A s \in Streams : /\ list[s] \in Seq(Events) /\ Len(list[s]) <= Size
                         /\ count[s] \in Nat
  <2> SUFFICES ASSUME NEW s \in Streams
               PROVE  /\ list[s] \in Seq(Events) /\ Len(list[s]) <= Size
                      /\ count[s] \in Nat
      OBVIOUS
  <2>1. feed[s] \in Seq(Events) /\ Len(feed[s]) \in 0 .. Len(feed[s])
    BY DEF LogsOK
  <2> QED  BY <2>1, WindowIs DEF ListsOK
<1>2. IsPrefix(loaded_modules, bpfs) /\ Len(bpfs) <= Len(loaded_modules) + 1
  <2>1. loaded_modules \in Seq(Programs) /\ bpfs \in Seq(Programs)
    BY DEF PlaceOK
  <2>2. CASE bpfs = loaded_modules
    BY <2>1, <2>2 DEF IsPrefix
  <2>3. CASE pc = "register"
    <3>1. bpfs = Append(loaded_modules, Order[at]) /\ at \in 1 .. Len(Order)
      BY <2>3 DEF PlaceOK
    <3>2. Order[at] \in Programs
      BY <3>1, BackendAssumption
    <3>3. /\ Len(bpfs) = Len(loaded_modules) + 1
          /\ \A i \in 1 .. Len(loaded_modules) : bpfs[i] = loaded_modules[i]
      BY <2>1, <3>1, <3>2
    <3>4. SubSeq(loaded_modules, 1, Len(loaded_modules)) =
            SubSeq(bpfs, 1, Len(loaded_modules))
      BY <2>1, <3>3
    <3> QED  BY <2>1, <3>3, <3>4 DEF IsPrefix
  <2> QED  BY <2>2, <2>3 DEF PlaceOK
<1>3. submitted \in 0 .. MaxEvents /\ Perf!PerfTypeOK(Events)
  BY DEF LogsOK
<1>4. ASSUME NEW q \in Requests
      PROVE  /\ route[q] \in {"none", "metrics", "debug", "answered"}
             /\ Len(reading[q]) <= Len(Fields(route[q]))
             /\ \A s \in Streams : asked[q][s] \in 0 .. Len(feed[s])
  <2>1. AnswerOK(q) /\ AskedOK(q) /\ Len(Fields("debug")) = 1 /\ Lists \in Nat
    BY FieldsAre DEF ReadOK
  <2>2. Len(reading[q]) <= Len(Fields(route[q]))
    BY <2>1, FieldsAre DEF AnswerOK
  <2>3. \A s \in Streams : asked[q][s] \in 0 .. Len(feed[s])
    BY <2>1, FeedOrdered DEF AskedOK
  <2> QED  BY <2>1, <2>2, <2>3 DEF AnswerOK
<1>5. /\ at \in 1 .. Len(Order) + 1
      /\ pending \in Seq(Events) /\ Len(pending) <= 1
      /\ pc \in {"start", "load", "register", "open", "failing", "failed",
                 "poll", "loop", "crashing", "dead"}
  BY DEF PlaceOK
<1> QED  BY <1>1, <1>2, <1>3, <1>4, <1>5, Zenon DEF TypeOK, RestOK

(* Every variable has its type; in particular loaded_modules lacks at most *)
(* the last program of bpfs, no ring or list is over its size, and the     *)
(* probes of every program that is polled run.                             *)
THEOREM TypeCorrect == Spec => []TypeOK
<1>1. Init => RestOK
  <2> SUFFICES ASSUME Init PROVE RestOK
      OBVIOUS
  <2>1. ToSet(<<>>) = {}
    BY DEF ToSet
  <2> QED  BY <2>1 DEF Init, RestOK
<1>2. PlaceOK /\ RestOK /\ [Next]_vars => RestOK'
  <2> SUFFICES ASSUME PlaceOK, RestOK, [Next]_vars PROVE RestOK'
      OBVIOUS
  <2> USE DEF worker, streams, status, modules, perf, env, vars
  <2>1. CASE \/ \E s \in Streams : Submit(s)
             \/ \E q \in Requests : Serve(q)
             \/ UNCHANGED vars
    BY <2>1 DEF Submit, Serve, Request, ReadField, Respond, RestOK
  <2>2. CASE Load
    <3>1. Order[at] \in Programs /\ bpfs \in Seq(Programs)
      BY <2>2, BackendAssumption DEF Load, PlaceOK
    <3>2. ToSet(Append(bpfs, Order[at])) \subseteq ToSet(bpfs) \union {Order[at]}
      <4>1. /\ DOMAIN Append(bpfs, Order[at]) = DOMAIN bpfs \union {Len(bpfs) + 1}
            /\ Append(bpfs, Order[at])[Len(bpfs) + 1] = Order[at]
            /\ \A i \in DOMAIN bpfs : Append(bpfs, Order[at])[i] = bpfs[i]
        BY <3>1
      <4> QED  BY <4>1 DEF ToSet
    <3> QED  BY <2>2, <3>2 DEF Load, RestOK
  <2>3. CASE LoadFails
    BY <2>3 DEF LoadFails, RestOK
  <2>4. CASE Start \/ Register \/ Loaded \/ NotOpened \/ Return
    BY <2>4 DEF Start, Register, Loaded, NotOpened, Return, RestOK
  <2>5. CASE Open
    BY <2>5 DEF Open, RestOK
  <2>6. CASE Decide \/ FailReason \/ CrashReason \/ Crash
    BY <2>6 DEF Decide, FailReason, CrashReason, Crash, RestOK
  <2>7. CASE Poll
    BY <2>7 DEF Poll, Callback, CountEvent, PollReturns, ReadMaps, Again, RestOK
  <2> QED  BY <2>1, <2>2, <2>3, <2>4, <2>5, <2>6, <2>7 DEF Next, Worker
<1> QED  BY <1>1, <1>2, TypesFollow, LogsCorrect, PlaceCorrect, ListsCorrect,
            AnswersCorrect, PTL DEF Spec

-----------------------------------------------------------------------------
(* A ring is open only for a program that is in bpfs, which only grows;    *)
(* ebpf_active remembers that one is; and "running" is set on its word.    *)
ServedOK ==
  /\ bpfs \in Seq(Programs) /\ at \in Nat \ {0}
  /\ opened \subseteq ToSet(bpfs)
  /\ active \in BOOLEAN
  /\ active => opened # {}
  /\ worker_status = "running" => active

(* What ServedOK depends on but at, which most steps of the worker move.   *)
served == <<bpfs, opened, active, worker_status>>

(* Steps that touch nothing of it but the position of the worker.          *)
LEMMA ServedElsewhere ==
  ASSUME ServedOK, UNCHANGED served, at' \in Nat \ {0}
  PROVE  ServedOK'
BY DEF ServedOK, served

(* Probes and requests write nothing that the worker decides by.           *)
LEMMA OthersLeaveServed ==
  ASSUME \/ \E s \in Streams : Submit(s)
         \/ \E q \in Requests : Serve(q)
  PROVE  UNCHANGED <<at, served>>
<1>1. ASSUME NEW s \in Streams, Submit(s) PROVE UNCHANGED <<at, served>>
  BY <1>1 DEF Submit, Perf!PerfSubmit, worker, streams, status, modules, served
<1>2. ASSUME NEW q \in Requests, Serve(q) PROVE UNCHANGED <<at, served>>
  BY <1>2 DEF Serve, Request, ReadField, Respond, worker, streams, status,
              modules, perf, served
<1> QED  BY <1>1, <1>2

(* "running" is claimed only while a ring is open, and every open ring     *)
(* belongs to a program that the loop polls.                               *)
THEOREM RunningIsServed == Spec => []RunningMeansServed
<1>1. Init => ServedOK
  <2> SUFFICES ASSUME Init PROVE ServedOK
      OBVIOUS
  <2>1. /\ at = 1 /\ bpfs = <<>> /\ active = FALSE
        /\ worker_status = "starting" /\ opened = {}
    BY DEF Init, Perf!PerfInit
  <2>2. bpfs \in Seq(Programs) /\ at \in Nat \ {0}
    BY <2>1
  <2> QED  BY <2>1, <2>2, Zenon DEF ServedOK
<1>2. ServedOK /\ [Next]_vars => ServedOK'
  <2> SUFFICES ASSUME ServedOK, [Next]_vars PROVE ServedOK'
      OBVIOUS
  <2> USE DEF worker, streams, status, modules, perf, env
  <2>0. at \in Nat \ {0}
    BY DEF ServedOK
  <2>1. CASE (\E s \in Streams : Submit(s)) \/ (\E q \in Requests : Serve(q))
    BY <2>0, <2>1, OthersLeaveServed, ServedElsewhere
  <2>2. CASE Start
    BY <2>2 DEF Start, ServedOK
  <2>3. CASE Load
    <3>1. Order[at] \in Programs
      BY <2>0, <2>3, BackendAssumption DEF Load
    <3>2. bpfs' \in Seq(Programs) /\ ToSet(bpfs) \subseteq ToSet(bpfs')
      BY <2>3, <3>1, LoadedStays DEF Load, ServedOK
    <3>3. UNCHANGED <<at, opened, active, worker_status>>
      BY <2>3 DEF Load
    <3> QED  BY <3>2, <3>3 DEF ServedOK
  <2>4. CASE LoadFails
    BY <2>0, <2>4, ServedElsewhere DEF LoadFails, served
  <2>5. CASE Register
    BY <2>0, <2>5, ServedElsewhere DEF Register, served
  <2>6. CASE Loaded
    BY <2>6, ServedElsewhere DEF Loaded, served
  <2>7. CASE Open
    <3>1. Order[at] \in ToSet(bpfs)
      BY <2>7 DEF Open, HasBuffer
    <3>2. opened' = opened \union {Order[at]} /\ active' = TRUE
      BY <2>7 DEF Open, Perf!OpenRing
    <3>3. at' = at + 1 /\ UNCHANGED <<bpfs, worker_status>>
      BY <2>7 DEF Open
    <3> QED  BY <2>0, <3>1, <3>2, <3>3 DEF ServedOK
  <2>8. CASE NotOpened
    BY <2>0, <2>8, ServedElsewhere DEF NotOpened, served
  <2>9. CASE Decide
    <3>1. UNCHANGED <<bpfs, at, opened, active>>
      BY <2>9 DEF Decide
    <3>2. worker_status' = "running" => active
      BY <2>9 DEF Decide
    <3> QED  BY <3>1, <3>2 DEF ServedOK
  <2>10. CASE FailReason \/ Return
    BY <2>0, <2>10, ServedElsewhere DEF FailReason, Return, served
  <2>11. CASE CrashReason
    BY <2>0, <2>11, ServedElsewhere DEF CrashReason, served
  <2>12. CASE Crash
    BY <2>12 DEF Crash, ServedOK
  <2>13. CASE Poll
    <3>1. ASSUME NEW s \in Streams, Callback(s) \/ CountEvent(s)
          PROVE  ServedOK'
      BY <2>0, <3>1, ServedElsewhere
         DEF Callback, CountEvent, Perf!Deliver, served
    <3>2. CASE PollReturns \/ ReadMaps \/ Again
      BY <2>0, <3>2, ServedElsewhere DEF PollReturns, ReadMaps, Again, served
    <3> QED  BY <2>13, <3>1, <3>2 DEF Poll
  <2>14. CASE UNCHANGED vars
    BY <2>0, <2>14, ServedElsewhere DEF vars, served
  <2> QED  BY <2>1, <2>2, <2>3, <2>4, <2>5, <2>6, <2>7, <2>8, <2>9, <2>10,
              <2>11, <2>12, <2>13, <2>14 DEF Next, Worker
<1>3. ServedOK => RunningMeansServed
  BY DEF ServedOK, RunningMeansServed
<1> QED  BY <1>1, <1>2, <1>3, PTL DEF Spec
=============================================================================
