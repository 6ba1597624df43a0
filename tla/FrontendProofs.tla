---------------------------- MODULE FrontendProofs ----------------------------
(***************************************************************************)
(* What the page of Frontend shows, says and runs, for any streams, sizes  *)
(* and number of polls in flight: the status line and the intervals first, *)
(* then the types, and last that nothing is shown or counted twice.        *)
(***************************************************************************)
EXTENDS Frontend, WellFoundedInduction, TLAPS

Workers == {"loading", "running", "dead"}

(* A poll carries a status that the server can send.                       *)
PollsOK ==
  /\ worker \in Workers
  /\ told \in [Requests -> Workers]

LineOK ==
  /\ text \in Texts /\ isConnected \in BOOLEAN
  /\ consecutiveErrors \in 0 .. 3
  /\ StatusExplained

(* A page that is shown knows the interval it started last; one that is    *)
(* hidden knows an interval only if it was loaded so.                      *)
TimersOK ==
  /\ timers \in Nat
  /\ hidden \in BOOLEAN /\ pollTimer \in BOOLEAN /\ loadedHidden \in BOOLEAN
  /\ ~hidden => pollTimer
  /\ hidden /\ pollTimer => loadedHidden
  /\ hidden /\ loadedHidden => timers = 1
  /\ hidden /\ ~loadedHidden => timers = 0
  /\ ~hidden /\ loadedHidden => timers = 2
  /\ ~hidden /\ ~loadedHidden => timers = 1

-----------------------------------------------------------------------------
(* A poll that has ended is an idle one again.                             *)
LEMMA ReleasedIsFine ==
  ASSUME PollsOK, NEW f \in Requests, Release(f), UNCHANGED worker
  PROVE  PollsOK'
BY DEF Release, PollsOK, Workers

(* Every poll carries a status of the worker.                              *)
THEOREM PollsCorrect == Spec => []PollsOK
<1>1. Init => PollsOK
  BY DEF Init, PollsOK, Workers
<1>2. PollsOK /\ [Next]_vars => PollsOK'
  <2> SUFFICES ASSUME PollsOK, [Next]_vars PROVE PollsOK'
      OBVIOUS
  <2>1. ASSUME NEW s \in Streams, Event(s) PROVE PollsOK'
    BY <2>1 DEF Event, PollsOK
  <2>2. CASE Toggle
    BY <2>2 DEF Toggle, PollsOK, polls
  <2>3. CASE WorkerMoves
    BY <2>3 DEF WorkerMoves, PollsOK, Workers, polls
  <2>4. CASE Interval
    BY <2>4 DEF Interval, StartFetch, server, PollsOK
  <2>5. CASE Hide
    BY <2>5 DEF Hide, server, polls, PollsOK
  <2>6. CASE Show
    BY <2>6 DEF Show, StartFetch, server, PollsOK
  <2>7. ASSUME NEW f \in Requests, Serve(f) PROVE PollsOK'
    BY <2>7 DEF Serve, PollsOK
  <2>8. ASSUME NEW f \in Requests, Apply(f) PROVE PollsOK'
    BY <2>8, ReleasedIsFine DEF Apply
  <2>9. ASSUME NEW f \in Requests, Fail(f) PROVE PollsOK'
    BY <2>9, ReleasedIsFine DEF Fail
  <2>10. CASE UNCHANGED vars
    BY <2>10 DEF vars, server, polls, PollsOK
  <2> QED  BY <2>1, <2>2, <2>3, <2>4, <2>5, <2>6, <2>7, <2>8, <2>9, <2>10
           DEF Next
<1> QED  BY <1>1, <1>2, PTL DEF Spec

-----------------------------------------------------------------------------
(* An answer sets the line to what it says of the worker.                  *)
LEMMA ConnectedIsExplained ==
  ASSUME LineOK, NEW w \in Workers, SetConnected(w)
  PROVE  LineOK'
<1>0. consecutiveErrors' = 0
  BY Zenon DEF SetConnected
<1>1. /\ consecutiveErrors' \in 0 .. 3
      /\ consecutiveErrors' # 3 /\ consecutiveErrors' \notin {1, 2}
  BY <1>0
<1>2. CASE w = "running"
  <2>1. isConnected' = TRUE
    BY <1>2 DEF SetConnected
  <2>2. text' = IF isConnected THEN text ELSE "live"
    BY <1>2, Zenon DEF SetConnected
  <2>3. text' \in {"live", "reconnecting"}
    BY <2>2, Zenon DEF LineOK, StatusExplained
  <2> QED  BY <1>0, <1>1, <2>1, <2>3, Zenon DEF LineOK, StatusExplained, Texts
<1>3. CASE w # "running"
  <2>1. isConnected' = FALSE
    BY <1>3 DEF SetConnected
  <2>2. text' \in {"loading", "worker down"}
    BY <1>3 DEF SetConnected, Workers
  <2> QED  BY <1>0, <1>1, <2>1, <2>2, Zenon DEF LineOK, StatusExplained, Texts
<1> QED  BY <1>2, <1>3

(* A failure says "Reconnecting", the third in a row "unreachable".        *)
LEMMA FailureIsExplained ==
  ASSUME LineOK, NEW f \in Requests, Fail(f)
  PROVE  LineOK'
<1>0. consecutiveErrors \in 0 .. 3
  BY DEF LineOK
<1>1. CASE consecutiveErrors + 1 >= 3
  <2>1. /\ consecutiveErrors' \in 0 .. 3 /\ consecutiveErrors' = 3
        /\ consecutiveErrors' # 0 /\ consecutiveErrors' \notin {1, 2}
    BY <1>0, <1>1 DEF Fail
  <2>2. text' = "unreachable" /\ isConnected' = FALSE
    BY <1>1 DEF Fail
  <2> QED  BY <2>1, <2>2, Zenon DEF LineOK, StatusExplained, Texts
<1>2. CASE consecutiveErrors + 1 < 3
  <2>1. /\ consecutiveErrors' \in 0 .. 3 /\ consecutiveErrors' # 0
        /\ consecutiveErrors' # 3
    BY <1>0, <1>2 DEF Fail
  <2>2. ~(consecutiveErrors + 1 >= 3)
    BY <1>0, <1>2
  <2>3. text' = "reconnecting" /\ isConnected' = isConnected
    BY <2>2, Zenon DEF Fail
  <2> QED  BY <2>1, <2>3, Zenon DEF LineOK, StatusExplained, Texts
<1> QED  BY <1>0, <1>1, <1>2

(* The line is always one of those that LineOK allows.                     *)
THEOREM LineCorrect == Spec => []LineOK
<1>1. Init => LineOK
  <2> SUFFICES ASSUME Init PROVE LineOK
      OBVIOUS
  <2>1. text = "connecting" /\ isConnected = FALSE /\ consecutiveErrors = 0
    BY DEF Init
  <2>2. consecutiveErrors \in 0 .. 3 /\ consecutiveErrors \notin {1, 2, 3}
    BY <2>1
  <2> QED  BY <2>1, <2>2, Zenon DEF LineOK, StatusExplained, Texts
<1>2. PollsOK /\ LineOK /\ [Next]_vars => LineOK'
  <2> SUFFICES ASSUME PollsOK, LineOK, [Next]_vars PROVE LineOK'
      OBVIOUS
  <2>1. CASE UNCHANGED line
    BY <2>1 DEF line, LineOK, StatusExplained
  <2>2. ASSUME NEW f \in Requests, Apply(f) PROVE LineOK'
    BY <2>2, ConnectedIsExplained DEF Apply, PollsOK
  <2>3. ASSUME NEW f \in Requests, Fail(f) PROVE LineOK'
    BY <2>3, FailureIsExplained
  <2>4. \/ UNCHANGED line
        \/ \E f \in Requests : Apply(f) \/ Fail(f)
    BY DEF Next, vars, Event, Toggle, WorkerMoves, Interval, Hide, Show, Serve
  <2> QED  BY <2>1, <2>2, <2>3, <2>4
<1> QED  BY <1>1, <1>2, PollsCorrect, PTL DEF Spec

(* The status line always tells what StatusExplained says it tells.        *)
THEOREM StatusIsExplained == Spec => []StatusExplained
<1>1. LineOK => StatusExplained
  BY DEF LineOK
<1> QED  BY <1>1, LineCorrect, PTL

-----------------------------------------------------------------------------
(* In every case of TimersOK a page that is shown polls.                   *)
LEMMA CountedByCases == TimersOK => PollsWhileShown
BY DEF TimersOK, PollsWhileShown

(* The intervals are always those of one of the cases of TimersOK.         *)
THEOREM TimersCorrect == Spec => []TimersOK
<1>1. Init => TimersOK
  BY DEF Init, TimersOK
<1>2. TimersOK /\ [Next]_vars => TimersOK'
  <2> SUFFICES ASSUME TimersOK, [Next]_vars PROVE TimersOK'
      OBVIOUS
  <2>1. CASE UNCHANGED visibility
    BY <2>1 DEF visibility, TimersOK
  <2>2. CASE Hide
    <3>1. hidden = FALSE /\ pollTimer = TRUE
      BY <2>2 DEF Hide, TimersOK
    <3>2. timers' = timers - 1
      BY <2>2, <3>1 DEF Hide
    <3>3. /\ hidden' = TRUE /\ pollTimer' = FALSE
          /\ loadedHidden' = loadedHidden
      BY <2>2 DEF Hide
    <3>4. (loadedHidden => timers = 2) /\ (~loadedHidden => timers = 1)
      BY <3>1, Zenon DEF TimersOK
    <3>5. (timers = 2 => timers' = 1) /\ (timers = 1 => timers' = 0)
      BY <3>2
    <3>6. timers' \in Nat
      BY <3>4, <3>5
    <3> QED  BY <3>3, <3>4, <3>5, <3>6, Zenon DEF TimersOK
  <2>3. CASE Show
    <3>1. /\ hidden = TRUE /\ hidden' = FALSE /\ pollTimer' = TRUE
          /\ timers' = timers + 1 /\ loadedHidden' = loadedHidden
      BY <2>3 DEF Show, TimersOK
    <3>2. (loadedHidden => timers = 1) /\ (~loadedHidden => timers = 0)
      BY <3>1, Zenon DEF TimersOK
    <3>3. (timers = 1 => timers' = 2) /\ (timers = 0 => timers' = 1)
      BY <3>1
    <3>4. timers' \in Nat
      BY <3>2, <3>3
    <3> QED  BY <3>1, <3>2, <3>3, <3>4, Zenon DEF TimersOK
  <2>4. UNCHANGED visibility \/ Hide \/ Show
    BY DEF Next, vars, Event, Toggle, WorkerMoves, Interval, Serve, Apply, Fail
  <2> QED  BY <2>1, <2>2, <2>3, <2>4
<1> QED  BY <1>1, <1>2, PTL DEF Spec

(* A page that is shown polls, and one that was loaded in the foreground   *)
(* has one interval while it is shown and none while it is hidden.         *)
THEOREM ShownPagePolls == Spec => []PollsWhileShown
BY TimersCorrect, CountedByCases, PTL

-----------------------------------------------------------------------------
(* The keys and the entries of a stream.                                   *)
EntriesOK(s) ==
  /\ seen[s] \in Seq(Events) /\ IsInjective(seen[s])
  /\ Len(seen[s]) <= SeenMax
  /\ log[s] \in Seq(Events) /\ Len(log[s]) <= MaxLog
  /\ applied[s] \in 0 .. Len(feed[s]) /\ count[s] \in Nat

ShownOK == FeedTypeOK /\ \A s \in Streams : EntriesOK(s)

(***************************************************************************)
(* A stream whose events have all a key of their own: the key of the n-th  *)
(* is n.  While no answer was applied after a later one, the keys that are *)
(* remembered end with those of the last Size events that were applied, so *)
(* that the next answer finds there what it shows again.                   *)
(***************************************************************************)
Plain(s) == \A i \in DOMAIN feed[s] : feed[s][i] = i

Remembers(keys, n) ==
  /\ \A i \in DOMAIN keys : keys[i] \in 1 .. n
  /\ \A j \in 0 .. Size - 1 : j < n => /\ j < Len(keys)
                                       /\ keys[Len(keys) - j] = n - j

Descends(shown, n) ==
  /\ \A i \in DOMAIN shown : shown[i] \in 1 .. n
  /\ \A i, j \in DOMAIN shown : i < j => shown[i] > shown[j]

OnceOK ==
  \A s \in Streams : ~Repeats(s) =>
    /\ Plain(s)
    /\ ~reordered => /\ Remembers(seen[s], applied[s])
                     /\ Descends(log[s], applied[s])
                     /\ count[s] <= applied[s]

-----------------------------------------------------------------------------
(* The numbers below another are well-founded.                             *)
LEMMA Descending == IsWellFoundedOn({p \in Nat \X Nat : p[1] < p[2]}, Nat)
BY NatLessThanWellFounded DEF OpToRel

(* A set of numbers that holds 0, and with each number the next, has all.  *)
LEMMA Induction ==
  ASSUME NEW T \in SUBSET Nat, 0 \in T, \A n \in T : n + 1 \in T
  PROVE  T = Nat
<1> SUFFICES ASSUME Nat \ T # {} PROVE FALSE
    OBVIOUS
<1> DEFINE R == {p \in Nat \X Nat : p[1] < p[2]}
<1>1. IsWellFoundedOn(R, Nat)
  BY Descending
<1> HIDE DEF R
<1>2. PICK x \in Nat \ T : \A y \in Nat \ T : ~(<<y, x>> \in R)
  BY <1>1, WFMin
<1>3. x # 0 /\ x - 1 \in Nat
  BY <1>2
<1>4. <<x - 1, x>> \in R
  BY <1>3 DEF R
<1>5. x - 1 \in T
  BY <1>2, <1>3, <1>4
<1> QED  BY <1>2, <1>3, <1>5

-----------------------------------------------------------------------------
(* The sets that Merge goes through, one key after the other.              *)
Run(f, known, keys, n) ==
  f = [i \in 0 .. n |-> IF i = 0 THEN known ELSE Remember(f[i - 1], keys[i])]

(* There are such sets, for any number of keys.                            *)
LEMMA RunExists ==
  ASSUME NEW known, NEW keys, NEW n \in Nat
  PROVE  \E f : Run(f, known, keys, n)
<1> DEFINE T == {m \in Nat : \E f : Run(f, known, keys, m)}
<1>1. 0 \in T
  <2> DEFINE g == [i \in 0 .. 0 |-> known]
  <2>1. Run(g, known, keys, 0)
    BY DEF Run
  <2> QED  BY <2>1
<1>2. ASSUME NEW m \in T PROVE m + 1 \in T
  <2>1. PICK f : Run(f, known, keys, m)
    OBVIOUS
  <2> DEFINE g == [i \in 0 .. m + 1 |->
                     IF i = m + 1 THEN Remember(f[m], keys[m + 1]) ELSE f[i]]
  <2>2. \A i \in 0 .. m :
          f[i] = IF i = 0 THEN known ELSE Remember(f[i - 1], keys[i])
    BY <2>1 DEF Run
  <2>3. \A i \in 0 .. m + 1 :
          g[i] = IF i = 0 THEN known ELSE Remember(g[i - 1], keys[i])
    BY <2>2
  <2>4. Run(g, known, keys, m + 1)
    BY <2>3 DEF Run
  <2> QED  BY <2>4
<1>3. T = Nat
  <2> HIDE DEF T
  <2>1. T \in SUBSET Nat
    BY DEF T
  <2> QED  BY <1>1, <1>2, <2>1, Induction
<1> QED  BY <1>3

(* What Merge returns is the last of them.                                 *)
LEMMA MergeRuns ==
  ASSUME NEW E, NEW known, NEW keys \in Seq(E)
  PROVE  \E f : /\ f[0] = known /\ Merge(known, keys) = f[Len(keys)]
                /\ \A i \in 1 .. Len(keys) : f[i] = Remember(f[i - 1], keys[i])
<1> DEFINE f == CHOOSE g : Run(g, known, keys, Len(keys))
<1>1. Run(f, known, keys, Len(keys))
  BY RunExists
<1>2. Merge(known, keys) = f[Len(keys)]
  BY DEF Merge, Run
<1> HIDE DEF f
<1>3. \A i \in 0 .. Len(keys) :
        f[i] = IF i = 0 THEN known ELSE Remember(f[i - 1], keys[i])
  BY <1>1 DEF Run
<1>4. f[0] = known /\ \A i \in 1 .. Len(keys) : f[i] = Remember(f[i - 1], keys[i])
  BY <1>3
<1> QED  BY <1>2, <1>4

(* A set of keys that another extends.                                     *)
Extends(set, known) ==
  /\ Len(known) <= Len(set)
  /\ \A i \in 1 .. Len(known) : set[i] = known[i]

(* A key that is not known yet is remembered at the end.                   *)
LEMMA RememberKeeps ==
  ASSUME NEW E, NEW set \in Seq(E), IsInjective(set), NEW key \in E,
         NEW known \in Seq(E), Extends(set, known)
  PROVE  /\ Remember(set, key) \in Seq(E) /\ IsInjective(Remember(set, key))
         /\ Extends(Remember(set, key), known)
<1>1. CASE key \in ToSet(set)
  BY <1>1 DEF Remember
<1>2. CASE key \notin ToSet(set)
  <2> DEFINE long == Append(set, key)
  <2>1. /\ long \in Seq(E) /\ DOMAIN long = 1 .. Len(set) + 1
        /\ Len(long) = Len(set) + 1 /\ DOMAIN set = 1 .. Len(set)
        /\ long[Len(set) + 1] = key
        /\ \A i \in 1 .. Len(set) : long[i] = set[i]
    OBVIOUS
  <2>2. \A i \in 1 .. Len(set) : set[i] # key
    BY <1>2, <2>1 DEF ToSet
  <2>3. Remember(set, key) = long
    BY <1>2 DEF Remember
  <2> HIDE DEF long
  <2>4. IsInjective(long)
    BY <2>1, <2>2 DEF IsInjective
  <2>5. Extends(long, known)
    BY <2>1 DEF Extends
  <2> QED  BY <2>1, <2>3, <2>4, <2>5
<1> QED  BY <1>1, <1>2

(* Merging forgets no key and remembers none twice.                        *)
LEMMA MergeKeeps ==
  ASSUME NEW E, NEW known \in Seq(E), IsInjective(known), NEW keys \in Seq(E)
  PROVE  /\ Merge(known, keys) \in Seq(E) /\ IsInjective(Merge(known, keys))
         /\ Extends(Merge(known, keys), known)
<1>1. PICK f : /\ f[0] = known /\ Merge(known, keys) = f[Len(keys)]
               /\ \A i \in 1 .. Len(keys) : f[i] = Remember(f[i - 1], keys[i])
  BY MergeRuns
<1> DEFINE Fine(set) == set \in Seq(E) /\ IsInjective(set) /\ Extends(set, known)
           T == {m \in Nat : m <= Len(keys) => Fine(f[m])}
<1>2. 0 \in T
  BY <1>1 DEF Extends
<1>3. ASSUME NEW m \in T PROVE m + 1 \in T
  <2> SUFFICES ASSUME m + 1 <= Len(keys) PROVE Fine(f[m + 1])
      OBVIOUS
  <2>1. Fine(f[m])
    OBVIOUS
  <2>2. m + 1 \in 1 .. Len(keys) /\ keys[m + 1] \in E
    OBVIOUS
  <2>3. f[m + 1] = Remember(f[m], keys[m + 1])
    BY <1>1, <2>2
  <2> QED  BY <2>1, <2>2, <2>3, RememberKeeps
<1>4. T = Nat
  <2> HIDE DEF T
  <2>1. T \in SUBSET Nat
    BY DEF T
  <2> QED  BY <1>2, <1>3, <2>1, Induction
<1>5. Len(keys) \in T
  BY <1>4
<1> QED  BY <1>1, <1>5

(* An answer of a plain stream shows the keys m + 1 .. u.  When the keys   *)
(* known so far end with the last Size ones up to n, the fresh ones are    *)
(* those after n.                                                          *)
Fresh(set, known, b, c) ==
  /\ Len(set) = Len(known) + c
  /\ \A i \in 1 .. Len(known) : set[i] = known[i]
  /\ \A i \in 1 .. c : set[Len(known) + i] = b + i

(* A key that the set ends with changes nothing; the next one is fresh.     *)
LEMMA RememberNumber ==
  ASSUME NEW E, NEW known \in Seq(E), NEW set \in Seq(E), NEW key \in E,
         NEW n \in Nat, Remembers(known, n), NEW b \in Nat, n <= b, NEW c \in Nat,
         Fresh(set, known, b, c)
  PROVE  /\ c = 0 /\ key \in Nat /\ 1 <= key /\ key <= n /\ n < key + Size
              => Fresh(Remember(set, key), known, b, 0)
         /\ key = b + c + 1 => Fresh(Remember(set, key), known, b, c + 1)
<1>0. /\ Size \in Nat \ {0} /\ Len(known) \in Nat /\ Len(set) \in Nat
      /\ DOMAIN set = 1 .. Len(set) /\ DOMAIN known = 1 .. Len(known)
  BY FeedAssumption
<1>1. ASSUME c = 0, key \in Nat, 1 <= key, key <= n, n < key + Size
      PROVE  Fresh(Remember(set, key), known, b, 0)
  <2> DEFINE j == n - key
  <2>1. j \in 0 .. Size - 1 /\ j < n /\ n - j = key
    BY <1>0, <1>1
  <2>2. j < Len(known) /\ known[Len(known) - j] = key
    BY <2>1 DEF Remembers
  <2>3. Len(known) - j \in 1 .. Len(known)
    BY <1>0, <2>1, <2>2
  <2>4. Len(known) - j \in DOMAIN set /\ set[Len(known) - j] = key
    BY <1>0, <1>1, <2>2, <2>3 DEF Fresh
  <2>5. key \in ToSet(set)
    BY <2>4 DEF ToSet
  <2> QED  BY <1>1, <2>5 DEF Remember
<1>2. ASSUME key = b + c + 1
      PROVE  Fresh(Remember(set, key), known, b, c + 1)
  <2>1. ASSUME NEW i \in DOMAIN set PROVE set[i] # key
    <3>1. CASE i <= Len(known)
      <4>1. i \in DOMAIN known /\ set[i] = known[i]
        BY <1>0, <3>1 DEF Fresh
      <4>2. known[i] \in 1 .. n
        BY <4>1 DEF Remembers
      <4> QED  BY <1>2, <4>1, <4>2
    <3>2. CASE i > Len(known)
      <4>1. i - Len(known) \in 1 .. c /\ i = Len(known) + (i - Len(known))
        BY <1>0, <3>2 DEF Fresh
      <4>2. set[i] = b + (i - Len(known))
        BY <4>1 DEF Fresh
      <4> QED  BY <1>2, <4>1, <4>2
    <3> QED  BY <1>0, <3>1, <3>2
  <2>2. Remember(set, key) = Append(set, key)
    BY <2>1 DEF Remember, ToSet
  <2> DEFINE long == Append(set, key)
  <2>3. /\ Len(long) = Len(set) + 1 /\ long[Len(set) + 1] = key
        /\ \A i \in 1 .. Len(set) : long[i] = set[i]
    OBVIOUS
  <2> HIDE DEF long
  <2>4. /\ Len(set) = Len(known) + c
        /\ \A i \in 1 .. Len(known) : set[i] = known[i]
        /\ \A i \in 1 .. c : set[Len(known) + i] = b + i
    BY DEF Fresh
  <2>5. Len(long) = Len(known) + (c + 1)
    BY <1>0, <2>3, <2>4
  <2>6. \A i \in 1 .. Len(known) : long[i] = known[i]
    BY <1>0, <2>3, <2>4
  <2>7. \A i \in 1 .. c : long[Len(known) + i] = b + i
    BY <1>0, <2>3, <2>4
  <2>8. long[Len(known) + (c + 1)] = b + (c + 1)
    BY <1>0, <1>2, <2>3, <2>4
  <2>9. \A i \in 1 .. c + 1 : long[Len(known) + i] = b + i
    BY <2>7, <2>8
  <2> QED  BY <2>2, <2>5, <2>6, <2>9 DEF Fresh, long
<1> QED  BY <1>1, <1>2

(* Of an answer that is not older, exactly the events after those applied  *)
(* and shown by it are fresh.                                              *)
LEMMA MergeNumbers ==
  ASSUME NEW E, NEW known \in Seq(E), NEW keys \in Seq(E),
         NEW n \in Nat, Remembers(known, n), NEW m \in Nat,
         n <= m + Len(keys), Len(keys) <= Size, m > 0 => Len(keys) = Size,
         \A i \in 1 .. Len(keys) : keys[i] = m + i
  PROVE  LET b == IF n > m THEN n ELSE m
         IN Fresh(Merge(known, keys), known, b, m + Len(keys) - b)
<1> DEFINE b == IF n > m THEN n ELSE m
           c(i) == IF m + i > b THEN m + i - b ELSE 0
<1>0. Size \in Nat \ {0} /\ Len(keys) \in Nat /\ b \in Nat /\ n <= b /\ m <= b
  BY FeedAssumption
<1>1. PICK f : /\ f[0] = known /\ Merge(known, keys) = f[Len(keys)]
               /\ \A i \in 1 .. Len(keys) : f[i] = Remember(f[i - 1], keys[i])
  BY MergeRuns
<1> DEFINE T == {i \in Nat : i <= Len(keys) => f[i] \in Seq(E) /\ Fresh(f[i], known, b, c(i))}
<1>2. 0 \in T
  <2>1. c(0) = 0
    BY <1>0
  <2>2. Fresh(known, known, b, 0)
    BY DEF Fresh
  <2> QED  BY <1>1, <2>1, <2>2
<1>3. ASSUME NEW i \in T PROVE i + 1 \in T
  <2> SUFFICES ASSUME i + 1 <= Len(keys)
               PROVE  f[i + 1] \in Seq(E) /\ Fresh(f[i + 1], known, b, c(i + 1))
      OBVIOUS
  <2>1. f[i] \in Seq(E) /\ Fresh(f[i], known, b, c(i)) /\ i \in Nat
    OBVIOUS
  <2>2. /\ i + 1 \in 1 .. Len(keys) /\ keys[i + 1] \in E /\ keys[i + 1] = m + (i + 1)
    OBVIOUS
  <2>3. f[i + 1] = Remember(f[i], keys[i + 1])
    BY <1>1, <2>2
  <2>4. f[i + 1] \in Seq(E)
    BY <2>1, <2>2, <2>3 DEF Remember
  <2>5. CASE m + (i + 1) <= n
    <3>1. c(i) = 0 /\ c(i + 1) = 0
      BY <1>0, <2>1, <2>5
    <3>2. n < m + (i + 1) + Size
      BY <1>0, <2>1
    <3>3. /\ keys[i + 1] \in Nat /\ 1 <= keys[i + 1] /\ keys[i + 1] <= n
          /\ n < keys[i + 1] + Size
      BY <1>0, <2>1, <2>2, <2>5, <3>2
    <3> HIDE DEF c, b
    <3>4. Fresh(f[i], known, b, 0)
      BY <2>1, <3>1
    <3>5. Fresh(Remember(f[i], keys[i + 1]), known, b, 0)
      BY <1>0, <2>1, <2>2, <3>3, <3>4, RememberNumber
    <3> QED  BY <2>3, <2>4, <3>1, <3>5
  <2>6. CASE m + (i + 1) > n
    <3>1. /\ c(i) \in Nat /\ c(i + 1) = c(i) + 1
          /\ m + (i + 1) = b + c(i) + 1
      BY <1>0, <2>1, <2>6
    <3> HIDE DEF c, b
    <3> QED  BY <1>0, <2>1, <2>2, <2>3, <2>4, <3>1, RememberNumber
  <2> QED  BY <2>1, <2>5, <2>6
<1>4. T = Nat
  <2> HIDE DEF T
  <2>1. T \in SUBSET Nat
    BY DEF T
  <2> QED  BY <1>2, <1>3, <2>1, Induction
<1>5. Len(keys) \in T
  BY <1>0, <1>4
<1>6. c(Len(keys)) = m + Len(keys) - b
  <2>1. b <= m + Len(keys)
    BY <1>0
  <2>2. CASE m + Len(keys) > b
    BY <2>2
  <2>3. CASE m + Len(keys) = b
    <3> HIDE DEF b
    <3> QED  BY <1>0, <2>3
  <2>4. m + Len(keys) > b \/ m + Len(keys) = b
    <3> HIDE DEF b
    <3> QED  BY <1>0, <2>1
  <2> QED  BY <2>2, <2>3, <2>4
<1> QED  BY <1>1, <1>5, <1>6

-----------------------------------------------------------------------------
(* A piece of a sequence.                                                  *)
LEMMA Piece ==
  ASSUME NEW E, NEW seq \in Seq(E), NEW a \in Nat, NEW z \in Nat,
         a <= z, z <= Len(seq)
  PROVE  LET piece == SubSeq(seq, a + 1, z)
         IN /\ piece \in Seq(E) /\ Len(piece) = z - a
            /\ DOMAIN piece = 1 .. z - a
            /\ \A i \in 1 .. z - a : piece[i] = seq[a + i]
<1> DEFINE piece == SubSeq(seq, a + 1, z)
<1>1. piece \in Seq(E) /\ Len(piece) = z - a
  OBVIOUS
<1>2. \A i \in 1 .. z - a : piece[i] = seq[a + i]
  OBVIOUS
<1>3. DOMAIN piece = 1 .. z - a
  <2> HIDE DEF piece
  <2> QED  BY <1>1
<1> QED  BY <1>1, <1>2, <1>3

(* The keys that are kept when a set is trimmed are its last ones.         *)
LEMMA NewestKeeps ==
  ASSUME NEW E, NEW keys \in Seq(E), IsInjective(keys), NEW k \in Nat, k > 0
  PROVE  /\ Newest(keys, k) \in Seq(E) /\ IsInjective(Newest(keys, k))
         /\ Len(Newest(keys, k)) = IF Len(keys) <= k THEN Len(keys) ELSE k
         /\ \A i \in DOMAIN Newest(keys, k) :
              \E l \in DOMAIN keys : Newest(keys, k)[i] = keys[l]
         /\ \A j \in 0 .. Len(Newest(keys, k)) - 1 :
              Newest(keys, k)[Len(Newest(keys, k)) - j] = keys[Len(keys) - j]
<1>0. Len(keys) \in Nat
  OBVIOUS
<1>1. CASE Len(keys) <= k
  <2>1. Newest(keys, k) = keys
    BY <1>1 DEF Newest
  <2> QED  BY <1>0, <1>1, <2>1
<1>2. CASE ~(Len(keys) <= k)
  <2>1. PICK from \in Nat : /\ from + k = Len(keys)
                            /\ from + 1 = Len(keys) - k + 1
    <3>1. Len(keys) - k \in Nat
      BY <1>0, <1>2
    <3> QED  BY <1>0, <3>1
  <2> DEFINE last == SubSeq(keys, from + 1, Len(keys))
  <2>2. Newest(keys, k) = last
    BY <1>2, <2>1 DEF Newest
  <2>3. /\ last \in Seq(E) /\ Len(last) = k /\ DOMAIN last = 1 .. k
        /\ \A i \in 1 .. k : last[i] = keys[from + i]
    <3>1. from <= Len(keys) /\ Len(keys) - from = k
      BY <1>0, <2>1
    <3> QED  BY <1>0, <2>1, <3>1, Piece
  <2> HIDE DEF last
  <2>4. \A i \in 1 .. k : from + i \in DOMAIN keys
    BY <1>0, <2>1
  <2>5. IsInjective(last)
    <3> SUFFICES ASSUME NEW i \in 1 .. k, NEW j \in 1 .. k, last[i] = last[j]
                 PROVE  i = j
        BY <2>3 DEF IsInjective
    <3>1. keys[from + i] = keys[from + j]
      BY <2>3
    <3>2. from + i = from + j
      BY <2>4, <3>1 DEF IsInjective
    <3> QED  BY <2>1, <3>2
  <2>6. \A i \in DOMAIN last : \E l \in DOMAIN keys : last[i] = keys[l]
    BY <2>3, <2>4
  <2>7. ASSUME NEW j \in 0 .. k - 1 PROVE last[k - j] = keys[Len(keys) - j]
    <3>1. k - j \in 1 .. k
      BY <1>0
    <3>2. from + (k - j) = Len(keys) - j
      BY <1>0, <2>1
    <3>3. last[k - j] = keys[from + (k - j)]
      BY <2>3, <3>1
    <3> QED  BY <3>2, <3>3
  <2> QED  BY <1>2, <2>2, <2>3, <2>5, <2>6, <2>7
<1> QED  BY <1>1, <1>2

(* Trimming keeps the last Size keys, since it keeps SeenKeep of them.     *)
LEMMA TrimmedKeeps ==
  ASSUME NEW E, NEW keys \in Seq(E), IsInjective(keys)
  PROVE  /\ Trimmed(keys) \in Seq(E) /\ IsInjective(Trimmed(keys))
         /\ Len(Trimmed(keys)) <= SeenMax
         /\ \A n \in Nat : Remembers(keys, n) => Remembers(Trimmed(keys), n)
<1>0. /\ Len(keys) \in Nat /\ SeenMax \in Nat /\ SeenKeep \in Nat \ {0}
      /\ Size \in Nat \ {0} /\ Size <= SeenKeep /\ SeenKeep <= SeenMax
  BY FeedAssumption, FrontendAssumption
<1>1. CASE ~(Len(keys) > SeenMax)
  <2>1. Trimmed(keys) = keys
    BY <1>1 DEF Trimmed
  <2> QED  BY <1>0, <1>1, <2>1
<1>2. CASE Len(keys) > SeenMax
  <2> DEFINE new == Newest(keys, SeenKeep)
  <2>1. Trimmed(keys) = new
    BY <1>2 DEF Trimmed
  <2>2. /\ new \in Seq(E) /\ IsInjective(new)
        /\ Len(new) = IF Len(keys) <= SeenKeep THEN Len(keys) ELSE SeenKeep
        /\ \A i \in DOMAIN new : \E l \in DOMAIN keys : new[i] = keys[l]
        /\ \A j \in 0 .. Len(new) - 1 : new[Len(new) - j] = keys[Len(keys) - j]
    BY <1>0, NewestKeeps
  <2> HIDE DEF new
  <2>3. Len(new) = SeenKeep
    BY <1>0, <1>2, <2>2
  <2>4. ASSUME NEW n \in Nat, Remembers(keys, n) PROVE Remembers(new, n)
    <3>1. \A i \in DOMAIN new : new[i] \in 1 .. n
      BY <2>2, <2>4 DEF Remembers
    <3>2. ASSUME NEW j \in 0 .. Size - 1, j < n
          PROVE  j < Len(new) /\ new[Len(new) - j] = n - j
      <4>1. j < Len(new) /\ j \in 0 .. Len(new) - 1
        BY <1>0, <2>3
      <4>2. keys[Len(keys) - j] = n - j
        BY <2>4, <3>2 DEF Remembers
      <4> QED  BY <2>2, <4>1, <4>2
    <3> QED  BY <3>1, <3>2 DEF Remembers
  <2> QED  BY <1>0, <2>1, <2>2, <2>3, <2>4
<1> QED  BY <1>1, <1>2

(* The fresh keys that follow the last ones, or are Size many, are now the *)
(* last ones.                                                              *)
LEMMA MergedRemembers ==
  ASSUME NEW E, NEW known \in Seq(E), NEW set \in Seq(E), NEW n \in Nat,
         Remembers(known, n), NEW b \in Nat, n <= b, NEW c \in Nat,
         b > n => c >= Size, Fresh(set, known, b, c)
  PROVE  Remembers(set, b + c)
<1>0. /\ Size \in Nat \ {0} /\ Len(known) \in Nat /\ Len(set) = Len(known) + c
      /\ DOMAIN set = 1 .. Len(set) /\ DOMAIN known = 1 .. Len(known)
  BY FeedAssumption DEF Fresh
<1>1. ASSUME NEW i \in DOMAIN set PROVE set[i] \in 1 .. b + c
  <2>1. CASE i <= Len(known)
    <3>1. i \in DOMAIN known /\ set[i] = known[i]
      BY <1>0, <2>1 DEF Fresh
    <3>2. set[i] \in 1 .. n
      BY <3>1 DEF Remembers
    <3> QED  BY <3>2
  <2>2. CASE i > Len(known)
    <3>1. i - Len(known) \in 1 .. c /\ i = Len(known) + (i - Len(known))
      BY <1>0, <2>2
    <3>2. set[i] = b + (i - Len(known))
      BY <3>1 DEF Fresh
    <3> QED  BY <3>1, <3>2
  <2> QED  BY <1>0, <2>1, <2>2
<1>2. ASSUME NEW j \in 0 .. Size - 1, j < b + c
      PROVE  j < Len(set) /\ set[Len(set) - j] = b + c - j
  <2>1. CASE j < c
    <3>1. c - j \in 1 .. c /\ Len(set) - j = Len(known) + (c - j)
      BY <1>0, <2>1
    <3>2. set[Len(set) - j] = b + (c - j)
      BY <3>1 DEF Fresh
    <3> QED  BY <1>0, <2>1, <3>2
  <2>2. CASE j >= c
    <3>1. b = n /\ j - c \in 0 .. Size - 1 /\ j - c < n
      BY <1>0, <1>2, <2>2
    <3>2. j - c < Len(known) /\ known[Len(known) - (j - c)] = n - (j - c)
      BY <3>1 DEF Remembers
    <3>3. /\ Len(known) - (j - c) \in 1 .. Len(known)
          /\ Len(set) - j = Len(known) - (j - c)
      BY <1>0, <2>2, <3>1, <3>2
    <3>4. set[Len(set) - j] = known[Len(known) - (j - c)]
      BY <3>3 DEF Fresh
    <3> QED  BY <1>0, <2>2, <3>1, <3>2, <3>4
  <2> QED  BY <2>1, <2>2
<1> QED  BY <1>1, <1>2 DEF Remembers

-----------------------------------------------------------------------------
(* The entries on the page once the fresh ones are in front.               *)
Shown(fresh, shown) ==
  LET all == Reverse(fresh) \o shown
  IN SubSeq(all, 1, IF Len(all) < MaxLog THEN Len(all) ELSE MaxLog)

(* One sequence behind another.                                            *)
LEMMA Joined ==
  ASSUME NEW E, NEW front \in Seq(E), NEW back \in Seq(E)
  PROVE  /\ front \o back \in Seq(E)
         /\ Len(front \o back) = Len(front) + Len(back)
         /\ \A i \in 1 .. Len(front) + Len(back) :
              (front \o back)[i] = IF i <= Len(front) THEN front[i]
                                   ELSE back[i - Len(front)]
OBVIOUS

(* The newest of the fresh ones comes first, and the oldest are cut off.   *)
LEMMA ShownIs ==
  ASSUME NEW E, NEW fresh \in Seq(E), NEW shown \in Seq(E)
  PROVE  LET now == Shown(fresh, shown)
         IN /\ now \in Seq(E) /\ Len(now) <= MaxLog
            /\ DOMAIN now = 1 .. Len(now)
            /\ Len(now) <= Len(fresh) + Len(shown)
            /\ \A i \in 1 .. Len(now) :
                 now[i] = IF i <= Len(fresh) THEN fresh[Len(fresh) - i + 1]
                          ELSE shown[i - Len(fresh)]
<1> DEFINE back == Reverse(fresh)
           all == back \o shown
           max == IF Len(all) < MaxLog THEN Len(all) ELSE MaxLog
           now == Shown(fresh, shown)
<1>0. /\ MaxLog \in Nat /\ Len(fresh) \in Nat /\ Len(shown) \in Nat
  BY FrontendAssumption
<1>1. /\ back \in Seq(E) /\ Len(back) = Len(fresh)
      /\ \A i \in 1 .. Len(fresh) : back[i] = fresh[Len(fresh) - i + 1]
  <2> DEFINE g == [i \in 1 .. Len(fresh) |-> fresh[Len(fresh) - i + 1]]
  <2>1. back = g
    BY DEF Reverse
  <2>2. \A i \in 1 .. Len(fresh) : Len(fresh) - i + 1 \in 1 .. Len(fresh)
    BY <1>0
  <2>3. \A i \in 1 .. Len(fresh) : fresh[Len(fresh) - i + 1] \in E
    BY <2>2
  <2>4. g \in [1 .. Len(fresh) -> E]
    BY <2>3
  <2>5. g \in Seq(E) /\ Len(g) = Len(fresh)
    <3> HIDE DEF g
    <3> QED  BY <1>0, <2>4
  <2> QED  BY <2>1, <2>5
<1> HIDE DEF back
<1>2. /\ all \in Seq(E) /\ Len(all) = Len(fresh) + Len(shown)
      /\ \A i \in 1 .. Len(all) :
           all[i] = IF i <= Len(fresh) THEN back[i] ELSE shown[i - Len(fresh)]
  <2>1. /\ all \in Seq(E) /\ Len(all) = Len(back) + Len(shown)
        /\ \A i \in 1 .. Len(back) + Len(shown) :
             all[i] = IF i <= Len(back) THEN back[i] ELSE shown[i - Len(back)]
    BY <1>1, Joined
  <2> HIDE DEF all
  <2> QED  BY <1>1, <2>1
<1>3. now = SubSeq(all, 1, max)
  BY DEF Shown, back
<1> HIDE DEF all, now
<1>4. max \in Nat /\ max <= Len(all) /\ max <= MaxLog
  BY <1>0, <1>2
<1> HIDE DEF max
<1>5. /\ now \in Seq(E) /\ Len(now) = max /\ DOMAIN now = 1 .. max
      /\ \A i \in 1 .. max : now[i] = all[i]
  BY <1>2, <1>3, <1>4, Piece
<1>6. ASSUME NEW i \in 1 .. max
      PROVE  now[i] = IF i <= Len(fresh) THEN fresh[Len(fresh) - i + 1]
                      ELSE shown[i - Len(fresh)]
  <2>1. i \in 1 .. Len(all) /\ now[i] = all[i]
    BY <1>2, <1>4, <1>5
  <2>2. i <= Len(fresh) => i \in 1 .. Len(fresh)
    BY <1>0
  <2> QED  BY <1>1, <1>2, <2>1, <2>2
<1>7. Len(now) <= Len(fresh) + Len(shown)
  BY <1>2, <1>4, <1>5
<1> QED  BY <1>4, <1>5, <1>6, <1>7 DEF now

(* Fresh entries are later than those on the page, so that all descend.    *)
LEMMA ShownDescends ==
  ASSUME NEW E, NEW shown \in Seq(E), NEW n \in Nat, Descends(shown, n),
         NEW b \in Nat, n <= b, NEW c \in Nat, NEW fresh \in Seq(E),
         Len(fresh) = c, \A i \in 1 .. c : fresh[i] = b + i
  PROVE  Descends(Shown(fresh, shown), b + c)
<1> DEFINE now == Shown(fresh, shown)
<1>1. /\ now \in Seq(E) /\ DOMAIN now = 1 .. Len(now)
      /\ Len(now) <= c + Len(shown)
      /\ \A i \in 1 .. Len(now) :
           now[i] = IF i <= c THEN fresh[c - i + 1] ELSE shown[i - c]
  BY ShownIs
<1> HIDE DEF now
<1>2. ASSUME NEW i \in 1 .. Len(now), i <= c PROVE now[i] = b + c - i + 1
  <2>1. c - i + 1 \in 1 .. c /\ b + (c - i + 1) = b + c - i + 1
    BY <1>2
  <2>2. fresh[c - i + 1] = b + (c - i + 1)
    BY <2>1
  <2> QED  BY <1>1, <1>2, <2>1, <2>2
<1>3. ASSUME NEW i \in 1 .. Len(now), ~(i <= c)
      PROVE  /\ i - c \in DOMAIN shown /\ now[i] = shown[i - c]
             /\ now[i] \in 1 .. n
  <2>1. Len(now) \in Nat /\ Len(shown) \in Nat
    BY <1>1
  <2>2. i - c \in 1 .. Len(shown)
    BY <1>1, <1>3, <2>1
  <2>3. i - c \in DOMAIN shown /\ now[i] = shown[i - c]
    BY <1>1, <1>3, <2>2
  <2> QED  BY <2>3 DEF Descends
<1>4. ASSUME NEW i \in 1 .. Len(now) PROVE now[i] \in 1 .. b + c
  <2>1. CASE i <= c
    BY <1>2, <2>1
  <2>2. CASE ~(i <= c)
    <3>1. now[i] \in 1 .. n
      BY <1>3, <2>2
    <3> QED  BY <3>1
  <2> QED  BY <2>1, <2>2
<1>5. ASSUME NEW i \in 1 .. Len(now), NEW j \in 1 .. Len(now), i < j
      PROVE  now[i] > now[j]
  <2>1. CASE j <= c
    <3>1. now[i] = b + c - i + 1 /\ now[j] = b + c - j + 1
      BY <1>2, <1>5, <2>1
    <3> QED  BY <1>5, <3>1
  <2>2. CASE ~(j <= c) /\ i <= c
    <3>1. now[i] = b + c - i + 1 /\ now[j] \in 1 .. n
      BY <1>2, <1>3, <2>2
    <3> QED  BY <2>2, <3>1
  <2>3. CASE ~(j <= c) /\ ~(i <= c)
    <3>1. /\ i - c \in DOMAIN shown /\ now[i] = shown[i - c]
          /\ j - c \in DOMAIN shown /\ now[j] = shown[j - c]
      BY <1>3, <2>3
    <3>2. i - c < j - c
      BY <1>5
    <3> QED  BY <3>1, <3>2 DEF Descends
  <2> QED  BY <2>1, <2>2, <2>3
<1> QED  BY <1>1, <1>4, <1>5 DEF Descends, now

-----------------------------------------------------------------------------
(* A window is a piece of its log, and ends where the log ended then.      *)
LEMMA WindowIs ==
  ASSUME NEW E, NEW events \in Seq(E), NEW u \in 0 .. Len(events)
  PROVE  LET w == Window(events, u)
             m == IF u > Size THEN u - Size ELSE 0
         IN /\ w \in Seq(E) /\ Len(w) = u - m /\ m \in 0 .. u
            /\ Len(w) <= Size /\ (m > 0 => Len(w) = Size)
            /\ \A i \in 1 .. Len(w) : w[i] = events[m + i]
<1> DEFINE m == IF u > Size THEN u - Size ELSE 0
           w == Window(events, u)
<1>0. Size \in Nat \ {0} /\ Len(events) \in Nat /\ u \in Nat /\ u <= Len(events)
  BY FeedAssumption
<1>1. m \in 0 .. u /\ u - m <= Size /\ (m > 0 => u - m = Size)
  BY <1>0
<1>2. w = SubSeq(events, m + 1, u)
  BY <1>0 DEF Window
<1> HIDE DEF m, w
<1>3. /\ w \in Seq(E) /\ Len(w) = u - m
      /\ \A i \in 1 .. u - m : w[i] = events[m + i]
  BY <1>0, <1>1, <1>2, Piece
<1> QED  BY <1>1, <1>3 DEF m, w

(* What an answer adds to the keys of a stream.  Of a plain stream, these  *)
(* are the events from where the keys or the answer begin to where the     *)
(* answer ends, once each.                                                 *)
Adds(known, events, u) ==
  LET merged == Merge(known, Window(events, u))
      fresh == SubSeq(merged, Len(known) + 1, Len(merged))
  IN /\ merged \in Seq(Events) /\ IsInjective(merged) /\ fresh \in Seq(Events)
     /\ \A n \in 0 .. u :
          (\A i \in DOMAIN events : events[i] = i) /\ Remembers(known, n) =>
            \E b \in n .. u : /\ Remembers(merged, u)
                              /\ Len(fresh) = u - b
                              /\ \A i \in 1 .. u - b : fresh[i] = b + i

(* Whatever the keys and the stream are, that is what it adds.             *)
LEMMA AnswerAdds ==
  ASSUME NEW known \in Seq(Events), IsInjective(known),
         NEW events \in Seq(Events), NEW u \in 0 .. Len(events)
  PROVE  Adds(known, events, u)
<1> DEFINE keys == Window(events, u)
           merged == Merge(known, keys)
           fresh == SubSeq(merged, Len(known) + 1, Len(merged))
           m == IF u > Size THEN u - Size ELSE 0
<1>1. /\ keys \in Seq(Events) /\ Len(keys) = u - m /\ m \in 0 .. u
      /\ Len(keys) <= Size /\ (m > 0 => Len(keys) = Size)
      /\ \A i \in 1 .. Len(keys) : keys[i] = events[m + i]
  BY WindowIs
<1>2. u \in Nat /\ u <= Len(events) /\ Len(events) \in Nat
  OBVIOUS
<1> HIDE DEF keys, m
<1>3. /\ merged \in Seq(Events) /\ IsInjective(merged) /\ Extends(merged, known)
  BY <1>1, MergeKeeps
<1> HIDE DEF merged
<1>4. /\ Len(known) \in Nat /\ Len(merged) \in Nat /\ Len(known) <= Len(merged)
  BY <1>3 DEF Extends
<1>5. /\ fresh \in Seq(Events) /\ Len(fresh) = Len(merged) - Len(known)
      /\ \A i \in 1 .. Len(merged) - Len(known) : fresh[i] = merged[Len(known) + i]
  BY <1>3, <1>4, Piece
<1> HIDE DEF fresh
<1>6. ASSUME NEW n \in 0 .. u, \A i \in DOMAIN events : events[i] = i,
             Remembers(known, n)
      PROVE  \E b \in n .. u : /\ Remembers(merged, u)
                               /\ Len(fresh) = u - b
                               /\ \A i \in 1 .. u - b : fresh[i] = b + i
  <2> DEFINE b == IF n > m THEN n ELSE m
  <2>1. \A i \in 1 .. Len(keys) : keys[i] = m + i
    <3> SUFFICES ASSUME NEW i \in 1 .. Len(keys) PROVE keys[i] = m + i
        OBVIOUS
    <3>1. m + i \in 1 .. Len(events)
      BY <1>1, <1>2
    <3>2. m + i \in DOMAIN events
      BY <3>1
    <3> QED  BY <1>1, <1>6, <3>2
  <2>2. /\ n \in Nat /\ m \in Nat /\ m + Len(keys) = u /\ n <= m + Len(keys)
    BY <1>1, <1>2
  <2>3. Fresh(merged, known, b, m + Len(keys) - b)
    BY <1>1, <1>6, <2>1, <2>2, MergeNumbers DEF merged
  <2>4. Fresh(merged, known, b, u - b)
    BY <2>2, <2>3
  <2>5. b \in n .. u /\ b \in Nat /\ n <= b /\ u - b \in Nat /\ b + (u - b) = u
    BY <1>1, <1>2, <2>2
  <2>6. b > n => u - b >= Size
    BY <1>1, <1>2, <2>2
  <2> HIDE DEF b
  <2>7. Remembers(merged, b + (u - b))
    BY <1>3, <1>6, <2>2, <2>4, <2>5, <2>6, MergedRemembers
  <2>8. Remembers(merged, u)
    BY <2>5, <2>7
  <2>9. Len(merged) = Len(known) + (u - b)
    BY <2>4 DEF Fresh
  <2>10. Len(merged) - Len(known) = u - b
    BY <1>4, <2>5, <2>9
  <2>11. \A i \in 1 .. u - b : fresh[i] = b + i
    BY <1>5, <2>4, <2>10 DEF Fresh
  <2> QED  BY <1>5, <2>5, <2>8, <2>10, <2>11
<1> QED  BY <1>3, <1>5, <1>6, Zenon DEF Adds, fresh, merged, keys

-----------------------------------------------------------------------------
(* What an answer does to one stream.                                      *)
ShowsOne(s, u) ==
  LET merged == Merge(seen[s], Window(feed[s], u))
      fresh == SubSeq(merged, Len(seen[s]) + 1, Len(merged))
  IN /\ seen'[s] = Trimmed(merged)
     /\ log'[s] = Shown(fresh, log[s])
     /\ count'[s] = count[s] + Len(fresh)
     /\ applied'[s] = IF u > applied[s] THEN u ELSE applied[s]

(* ShowStreams does so to each, and notes an answer that comes too late.   *)
LEMMA ShowsEach ==
  ASSUME NEW r, ShowStreams(r)
  PROVE  /\ \A s \in Streams : ShowsOne(s, r.upto[s])
         /\ ~reordered' => ~reordered /\ \A s \in Streams : ~(r.upto[s] < applied[s])
<1>1. ASSUME NEW s \in Streams PROVE ShowsOne(s, r.upto[s])
  <2> DEFINE merged == Merge(seen[s], Window(feed[s], r.upto[s]))
             fresh == SubSeq(merged, Len(seen[s]) + 1, Len(merged))
  <2>1. seen'[s] = Trimmed(merged)
    BY Zenon DEF ShowStreams
  <2>2. log'[s] = Shown(fresh, log[s])
    BY Zenon DEF ShowStreams, Shown
  <2>3. count'[s] = count[s] + Len(fresh)
    BY Zenon DEF ShowStreams
  <2>4. applied'[s] = IF r.upto[s] > applied[s] THEN r.upto[s] ELSE applied[s]
    BY Zenon DEF ShowStreams
  <2> QED  BY <2>1, <2>2, <2>3, <2>4, Zenon DEF ShowsOne
<1>2. reordered' = (reordered \/ \E s \in Streams : r.upto[s] < applied[s])
  BY Zenon DEF ShowStreams
<1> QED  BY <1>1, <1>2, Zenon

(* An answer keeps the keys and the entries of a stream as they must be.   *)
LEMMA ShowsEntries ==
  ASSUME NEW s \in Streams, EntriesOK(s), feed[s] \in Seq(Events),
         NEW u \in 0 .. Len(feed[s]), ShowsOne(s, u), feed' = feed
  PROVE  EntriesOK(s)'
<1> DEFINE merged == Merge(seen[s], Window(feed[s], u))
           fresh == SubSeq(merged, Len(seen[s]) + 1, Len(merged))
<1>0. /\ Len(feed[s]) \in Nat /\ applied[s] \in 0 .. Len(feed[s])
      /\ count[s] \in Nat /\ u \in Nat
      /\ seen[s] \in Seq(Events) /\ IsInjective(seen[s])
      /\ log[s] \in Seq(Events)
  BY DEF EntriesOK
<1>1. /\ seen'[s] = Trimmed(merged)
      /\ log'[s] = Shown(fresh, log[s])
      /\ count'[s] = count[s] + Len(fresh)
      /\ applied'[s] = IF u > applied[s] THEN u ELSE applied[s]
  BY Zenon DEF ShowsOne
<1>2. Adds(seen[s], feed[s], u)
  BY <1>0, AnswerAdds
<1>3. merged \in Seq(Events) /\ IsInjective(merged) /\ fresh \in Seq(Events)
  BY <1>2, Zenon DEF Adds
<1> HIDE DEF merged, fresh
<1>4. /\ seen'[s] \in Seq(Events) /\ IsInjective(seen'[s])
      /\ Len(seen'[s]) <= SeenMax
  BY <1>1, <1>3, TrimmedKeeps
<1>5. log'[s] \in Seq(Events) /\ Len(log'[s]) <= MaxLog
  BY <1>0, <1>1, <1>3, ShownIs
<1>6. count'[s] \in Nat /\ applied'[s] \in 0 .. Len(feed'[s])
  BY <1>0, <1>1, <1>3
<1> QED  BY <1>4, <1>5, <1>6, Zenon DEF EntriesOK

(* The request of a poll is noted with what was logged when it was made.    *)
LEMMA AskKeeps ==
  ASSUME FeedTypeOK, NEW f \in Requests, Ask(f)
  PROVE  FeedTypeOK'
<1>1. /\ Asked \in [phase : {"idle", "asked", "answered"}, upto : [Streams -> Nat]]
      /\ \A s \in Streams : Asked.upto[s] <= Len(feed[s])
  <2>1. \A s \in Streams : Len(feed[s]) \in Nat
    BY DEF FeedTypeOK
  <2> QED  BY <2>1 DEF Asked
<1> HIDE DEF Asked
<1>2. call' = [call EXCEPT ![f] = Asked] /\ feed' = feed
  BY DEF Ask
<1> QED  BY <1>1, <1>2 DEF FeedTypeOK

(* An answer shows no more of a log than there is.                         *)
LEMMA AnswerKeeps ==
  ASSUME FeedTypeOK, NEW f \in Requests, Answer(f)
  PROVE  FeedTypeOK'
<1> DEFINE All == UNION {0 .. Len(feed[s]) : s \in Streams}
<1>1. PICK u \in [Streams -> All] :
        /\ \A s \in Streams : u[s] <= Len(feed[s])
        /\ call' = [call EXCEPT ![f] = [phase |-> "answered", upto |-> u]]
  BY DEF Answer
<1>2. All \subseteq Nat
  BY DEF FeedTypeOK
<1> HIDE DEF All
<1>3. u \in [Streams -> Nat]
  BY <1>2
<1> DEFINE x == [phase |-> "answered", upto |-> u]
<1>4. /\ x \in [phase : {"idle", "asked", "answered"}, upto : [Streams -> Nat]]
      /\ \A s \in Streams : x.upto[s] <= Len(feed[s])
  BY <1>1, <1>3
<1>5. call' = [call EXCEPT ![f] = x] /\ feed' = feed
  BY <1>1 DEF Answer
<1> HIDE DEF x
<1> QED  BY <1>4, <1>5 DEF FeedTypeOK

(* A poll that is over shows nothing.                                      *)
LEMMA DropKeeps ==
  ASSUME FeedTypeOK, NEW f \in Requests, Drop(f)
  PROVE  FeedTypeOK'
<1>1. /\ Idle \in [phase : {"idle", "asked", "answered"}, upto : [Streams -> Nat]]
      /\ \A s \in Streams : Idle.upto[s] <= Len(feed[s])
  <2>1. \A s \in Streams : Len(feed[s]) \in Nat
    BY DEF FeedTypeOK
  <2> QED  BY <2>1 DEF Idle
<1> HIDE DEF Idle
<1>2. call' = [call EXCEPT ![f] = Idle] /\ feed' = feed
  BY DEF Drop
<1> QED  BY <1>1, <1>2 DEF FeedTypeOK

(* A log only grows.                                                       *)
LEMMA PublishKeeps ==
  ASSUME FeedTypeOK, NEW t \in Streams, NEW e \in Events, Publish(t, e)
  PROVE  /\ FeedTypeOK'
         /\ \A s \in Streams : Len(feed[s]) \in Nat /\ Len(feed[s]) <= Len(feed'[s])
<1>1. /\ feed' = [feed EXCEPT ![t] = Append(feed[t], e)] /\ call' = call
  BY DEF Publish
<1>2. feed \in [Streams -> Seq(Events)]
  BY DEF FeedTypeOK
<1>3. /\ Append(feed[t], e) \in Seq(Events)
      /\ Len(Append(feed[t], e)) = Len(feed[t]) + 1
  BY <1>2
<1>4. feed' \in [Streams -> Seq(Events)]
  BY <1>1, <1>2, <1>3
<1>5. ASSUME NEW s \in Streams
      PROVE  /\ Len(feed[s]) \in Nat /\ Len(feed'[s]) \in Nat
             /\ Len(feed[s]) <= Len(feed'[s])
  BY <1>1, <1>2, <1>3
<1>6. call' \in [Requests -> [phase : {"idle", "asked", "answered"},
                              upto : [Streams -> Nat]]]
  BY <1>1 DEF FeedTypeOK
<1>7. ASSUME NEW q \in Requests, NEW s \in Streams
      PROVE  call'[q].upto[s] <= Len(feed'[s])
  <2>1. call[q].upto[s] \in Nat /\ call[q].upto[s] <= Len(feed[s])
    BY DEF FeedTypeOK
  <2> QED  BY <1>1, <1>5, <2>1
<1> QED  BY <1>4, <1>5, <1>6, <1>7 DEF FeedTypeOK

(* The answers in flight, the keys and the entries are always as ShownOK   *)
(* says: no key is remembered twice, no entry is shown of what was never   *)
(* logged, and nothing outgrows its limit.                                 *)
THEOREM ShownCorrect == Spec => []ShownOK
<1>1. Init => ShownOK
  <2> SUFFICES ASSUME Init PROVE ShownOK
      OBVIOUS
  <2>0. feed = [s \in Streams |-> <<>>]
    BY DEF Init
  <2>1. FeedTypeOK
    <3>1. PICK f \in Requests : call = [Unasked EXCEPT ![f] = Asked]
      BY DEF Init
    <3>2. \A s \in Streams : Len(feed[s]) = 0
      BY <2>0
    <3>3. ASSUME NEW x \in {Asked, Idle}
          PROVE  /\ x \in [phase : {"idle", "asked", "answered"},
                           upto : [Streams -> Nat]]
                 /\ \A s \in Streams : x.upto[s] <= Len(feed[s])
      BY <3>2 DEF Asked, Idle
    <3> HIDE DEF Asked, Idle
    <3>4. /\ call = [q \in Requests |-> call[q]]
          /\ \A q \in Requests : call[q] \in {Asked, Idle}
      BY <3>1 DEF Unasked
    <3> QED  BY <2>0, <3>3, <3>4 DEF FeedTypeOK
  <2>2. ASSUME NEW s \in Streams PROVE EntriesOK(s)
    <3>1. /\ seen[s] = <<>> /\ log[s] = <<>> /\ count[s] = 0
          /\ applied[s] = 0 /\ Len(feed[s]) = 0
      BY <2>0 DEF Init
    <3>2. /\ <<>> \in Seq(Events) /\ Len(<<>>) = 0
          /\ SeenMax \in Nat /\ MaxLog \in Nat
      BY FrontendAssumption
    <3>3. IsInjective(<<>>)
      BY DEF IsInjective
    <3> QED  BY <3>1, <3>2, <3>3 DEF EntriesOK
  <2> QED  BY <2>1, <2>2 DEF ShownOK
<1>2. ShownOK /\ [Next]_vars => ShownOK'
  <2> SUFFICES ASSUME ShownOK, [Next]_vars PROVE ShownOK'
      OBVIOUS
  <2>0. FeedTypeOK /\ \A s \in Streams : EntriesOK(s)
    BY DEF ShownOK
  <2>a. ASSUME UNCHANGED <<feed, entries>> PROVE \A s \in Streams : EntriesOK(s)'
    BY <2>0, <2>a, Zenon DEF EntriesOK, entries
  <2>1. ASSUME NEW t \in Streams, Event(t) PROVE ShownOK'
    <3>1. PICK e \in Events : Publish(t, e)
      BY <2>1 DEF Event
    <3>2. UNCHANGED entries
      BY <2>1 DEF Event
    <3>3. /\ FeedTypeOK'
          /\ \A s \in Streams : Len(feed[s]) \in Nat /\ Len(feed[s]) <= Len(feed'[s])
      BY <2>0, <3>1, PublishKeeps
    <3>4. ASSUME NEW s \in Streams PROVE EntriesOK(s)'
      <4>1. Len(feed'[s]) \in Nat
        BY <3>3 DEF FeedTypeOK
      <4>2. applied[s] \in 0 .. Len(feed'[s])
        BY <2>0, <3>3, <4>1 DEF EntriesOK
      <4> QED  BY <2>0, <3>2, <4>2, Zenon DEF EntriesOK, entries
    <3> QED  BY <3>3, <3>4 DEF ShownOK
  <2>2. CASE UNCHANGED <<feedVars, entries>>
    <3>1. UNCHANGED <<feed, call, entries>>
      BY <2>2 DEF feedVars
    <3>2. FeedTypeOK'
      BY <2>0, <3>1, Zenon DEF FeedTypeOK
    <3> QED  BY <2>a, <3>1, <3>2 DEF ShownOK
  <2>3. CASE (Interval \/ Show)
    <3>1. UNCHANGED <<feed, entries>> /\ StartFetch
      BY <2>3 DEF Interval, Show, server
    <3>2. PICK f \in Requests : Ask(f)
      <4> DEFINE idle == {f \in Requests : call[f].phase = "idle"}
      <4>1. idle # {} /\ Ask(CHOOSE f \in idle : TRUE)
        BY <3>1 DEF StartFetch
      <4>2. (CHOOSE f \in idle : TRUE) \in idle
        BY <4>1
      <4> QED  BY <4>1, <4>2
    <3>3. FeedTypeOK'
      BY <2>0, <3>2, AskKeeps
    <3> QED  BY <2>a, <3>1, <3>3 DEF ShownOK
  <2>4. ASSUME NEW f \in Requests, Serve(f) PROVE ShownOK'
    <3>1. Answer(f) /\ UNCHANGED <<feed, entries>>
      BY <2>4 DEF Serve, Answer
    <3>2. FeedTypeOK'
      BY <2>0, <3>1, AnswerKeeps
    <3> QED  BY <2>a, <3>1, <3>2 DEF ShownOK
  <2>5. ASSUME NEW f \in Requests, Apply(f) PROVE ShownOK'
    <3>1. Drop(f) /\ feed' = feed /\ ShowStreams(call[f])
      BY <2>5 DEF Apply, Release, Drop
    <3>2. FeedTypeOK'
      BY <2>0, <3>1, DropKeeps
    <3>3. ASSUME NEW s \in Streams PROVE EntriesOK(s)'
      <4>1. ShowsOne(s, call[f].upto[s])
        BY <3>1, ShowsEach
      <4>2. call[f].upto[s] \in 0 .. Len(feed[s]) /\ feed[s] \in Seq(Events)
        BY <2>0 DEF FeedTypeOK
      <4> QED  BY <2>0, <3>1, <4>1, <4>2, ShowsEntries
    <3> QED  BY <3>2, <3>3 DEF ShownOK
  <2>6. ASSUME NEW f \in Requests, Fail(f) PROVE ShownOK'
    <3>1. Drop(f) /\ UNCHANGED <<feed, entries>>
      BY <2>6 DEF Fail, Release, Drop
    <3>2. FeedTypeOK'
      BY <2>0, <3>1, DropKeeps
    <3> QED  BY <2>a, <3>1, <3>2 DEF ShownOK
  <2>7. \/ UNCHANGED <<feedVars, entries>>
        \/ Interval \/ Show \/ \E t \in Streams : Event(t)
        \/ \E f \in Requests : Serve(f) \/ Apply(f) \/ Fail(f)
    BY DEF Next, vars, server, polls, feedVars, Toggle, WorkerMoves, Hide
  <2> QED  BY <2>1, <2>2, <2>3, <2>4, <2>5, <2>6, <2>7
<1> QED  BY <1>1, <1>2, PTL DEF Spec

(* The variables have their types, and the limits hold.                    *)
THEOREM TypeCorrect == Spec => []TypeOK
<1>1. PollsOK /\ LineOK /\ TimersOK /\ ShownOK => TypeOK
  <2> SUFFICES ASSUME PollsOK, LineOK, TimersOK, ShownOK PROVE TypeOK
      OBVIOUS
  <2>1. pollTimer = ~hidden \/ timers = 1
    BY Zenon DEF TimersOK
  <2>2. text \in Texts /\ consecutiveErrors \in 0 .. 3
    BY DEF LineOK
  <2>3. worker \in {"loading", "running", "dead"}
    BY DEF PollsOK, Workers
  <2>4. FeedTypeOK /\ \A s \in Streams : EntriesOK(s)
    BY DEF ShownOK
  <2>5. told \in [Requests -> {"loading", "running", "dead"}]
    BY DEF PollsOK, Workers
  <2> QED  BY <2>1, <2>2, <2>3, <2>4, <2>5, Zenon DEF TypeOK, EntriesOK
<1> QED  BY <1>1, PollsCorrect, LineCorrect, TimersCorrect, ShownCorrect, PTL

-----------------------------------------------------------------------------
(* The events of a stream stay in the order of their numbers, as long as   *)
(* none repeats the key of another.                                        *)
LEMMA StaysPlain ==
  ASSUME FeedTypeOK, NEW t \in Streams, Event(t), NEW s \in Streams,
         ~Repeats(s)', ~Repeats(s) => Plain(s)
  PROVE  ~Repeats(s) /\ Plain(s)'
<1>1. PICK e \in (ToSet(feed[t]) \union {Len(feed[t]) + 1}) \intersect Events :
        feed' = [feed EXCEPT ![t] = Append(feed[t], e)]
  BY DEF Event, Publish
<1>2. feed \in [Streams -> Seq(Events)]
  BY DEF FeedTypeOK
<1>3. CASE s # t
  <2>1. feed'[s] = feed[s]
    BY <1>1, <1>2, <1>3
  <2> QED  BY <2>1 DEF Repeats, Plain
<1>4. CASE s = t
  <2> DEFINE a == feed[s]
             long == Append(a, e)
  <2>1. a \in Seq(Events) /\ e \in Events /\ Len(a) \in Nat
    BY <1>2
  <2>2. feed'[s] = long
    BY <1>1, <1>2, <1>4
  <2> HIDE DEF a
  <2>3. /\ DOMAIN a = 1 .. Len(a) /\ DOMAIN long = 1 .. Len(a) + 1
        /\ long[Len(a) + 1] = e /\ \A i \in 1 .. Len(a) : long[i] = a[i]
    BY <2>1
  <2> HIDE DEF long
  <2>4. ~\E i, j \in DOMAIN long : i < j /\ long[i] = long[j]
    BY <2>2 DEF Repeats
  <2>5. ASSUME NEW i \in 1 .. Len(a) PROVE e # a[i]
    <3>1. i < Len(a) + 1 /\ i \in DOMAIN long /\ Len(a) + 1 \in DOMAIN long
      BY <2>1, <2>3
    <3>2. long[i] # long[Len(a) + 1]
      BY <2>4, <3>1
    <3> QED  BY <2>3, <3>2
  <2>6. e = Len(a) + 1
    <3>1. e \notin ToSet(a)
      BY <2>3, <2>5 DEF ToSet
    <3>2. e \in ToSet(a) \union {Len(a) + 1}
      BY <1>1, <1>4 DEF a
    <3> QED  BY <3>1, <3>2
  <2>7. ~Repeats(s)
    <3> SUFFICES ASSUME NEW i \in DOMAIN a, NEW j \in DOMAIN a, i < j, a[i] = a[j]
                 PROVE  FALSE
        BY DEF Repeats, a
    <3>1. i \in DOMAIN long /\ j \in DOMAIN long /\ long[i] = long[j]
      BY <2>1, <2>3
    <3> QED  BY <2>4, <3>1
  <2>8. \A i \in DOMAIN a : a[i] = i
    BY <2>7 DEF Plain, a
  <2>9. ASSUME NEW i \in DOMAIN long PROVE long[i] = i
    <3>1. CASE i \in 1 .. Len(a)
      BY <2>3, <2>8, <3>1
    <3>2. CASE i = Len(a) + 1
      BY <2>3, <2>6, <3>2
    <3> QED  BY <2>1, <2>3, <3>1, <3>2
  <2> QED  BY <2>2, <2>7, <2>9 DEF Plain
<1> QED  BY <1>3, <1>4

(* What is known of a plain stream after an answer that is not too late.   *)
LEMMA ShowsOnce ==
  ASSUME NEW s \in Streams, EntriesOK(s), feed[s] \in Seq(Events),
         NEW u \in 0 .. Len(feed[s]), ShowsOne(s, u), ~(u < applied[s]), Plain(s),
         Remembers(seen[s], applied[s]), Descends(log[s], applied[s]),
         count[s] <= applied[s]
  PROVE  /\ Remembers(seen'[s], applied'[s]) /\ Descends(log'[s], applied'[s])
         /\ count'[s] <= applied'[s]
<1> DEFINE merged == Merge(seen[s], Window(feed[s], u))
           fresh == SubSeq(merged, Len(seen[s]) + 1, Len(merged))
<1>0. /\ Len(feed[s]) \in Nat /\ applied[s] \in Nat /\ count[s] \in Nat
      /\ seen[s] \in Seq(Events) /\ IsInjective(seen[s])
      /\ log[s] \in Seq(Events) /\ u \in Nat /\ u \in 0 .. Len(feed[s])
      /\ applied[s] \in 0 .. u
  BY DEF EntriesOK
<1>1. /\ seen'[s] = Trimmed(merged)
      /\ log'[s] = Shown(fresh, log[s])
      /\ count'[s] = count[s] + Len(fresh)
      /\ applied'[s] = IF u > applied[s] THEN u ELSE applied[s]
  BY Zenon DEF ShowsOne
<1>2. Adds(seen[s], feed[s], u)
  BY <1>0, AnswerAdds
<1>3. merged \in Seq(Events) /\ IsInjective(merged) /\ fresh \in Seq(Events)
  BY <1>2, Zenon DEF Adds
<1>4. PICK b \in applied[s] .. u : /\ Remembers(merged, u)
                                   /\ Len(fresh) = u - b
                                   /\ \A i \in 1 .. u - b : fresh[i] = b + i
  <2>1. \A i \in DOMAIN feed[s] : feed[s][i] = i
    BY DEF Plain
  <2>2. \A n \in 0 .. u :
          (\A i \in DOMAIN feed[s] : feed[s][i] = i) /\ Remembers(seen[s], n) =>
            \E b \in n .. u : /\ Remembers(merged, u)
                              /\ Len(fresh) = u - b
                              /\ \A i \in 1 .. u - b : fresh[i] = b + i
    BY <1>2, Zenon DEF Adds
  <2> HIDE DEF merged, fresh
  <2> QED  BY <1>0, <2>1, <2>2
<1> HIDE DEF merged, fresh
<1>5. applied'[s] = u
  BY <1>0, <1>1
<1>6. b \in Nat /\ u - b \in Nat /\ b + (u - b) = u /\ applied[s] <= b
  BY <1>0
<1>7. Remembers(seen'[s], u)
  BY <1>0, <1>1, <1>3, <1>4, TrimmedKeeps
<1>8. Descends(log'[s], b + (u - b))
  BY <1>0, <1>1, <1>3, <1>4, <1>6, ShownDescends
<1>9. count'[s] <= u
  BY <1>0, <1>1, <1>3, <1>4, <1>6
<1> QED  BY <1>5, <1>6, <1>7, <1>8, <1>9

(* OnceOK is an invariant.                                                 *)
THEOREM OnceCorrect == Spec => []OnceOK
<1>1. Init => OnceOK
  <2> SUFFICES ASSUME Init, NEW s \in Streams PROVE
        /\ Plain(s) /\ Remembers(seen[s], applied[s])
        /\ Descends(log[s], applied[s]) /\ count[s] <= applied[s]
      BY DEF OnceOK
  <2>1. /\ feed[s] = <<>> /\ seen[s] = <<>> /\ log[s] = <<>>
        /\ count[s] = 0 /\ applied[s] = 0
    BY DEF Init
  <2>2. Size \in Nat
    BY FeedAssumption
  <2> QED  BY <2>1, <2>2 DEF Plain, Remembers, Descends
<1>2. ShownOK /\ OnceOK /\ [Next]_vars => OnceOK'
  <2> SUFFICES ASSUME ShownOK, OnceOK, [Next]_vars PROVE OnceOK'
      OBVIOUS
  <2>0. FeedTypeOK /\ \A s \in Streams : EntriesOK(s)
    BY DEF ShownOK
  <2>1. CASE UNCHANGED <<feed, entries>>
    BY <2>1, Zenon DEF OnceOK, Repeats, Plain, entries
  <2>2. ASSUME NEW t \in Streams, Event(t) PROVE OnceOK'
    <3> SUFFICES ASSUME NEW s \in Streams, ~Repeats(s)'
                 PROVE  /\ Plain(s)'
                        /\ ~reordered' => /\ Remembers(seen'[s], applied'[s])
                                          /\ Descends(log'[s], applied'[s])
                                          /\ count'[s] <= applied'[s]
        BY Zenon DEF OnceOK
    <3>1. ~Repeats(s) /\ Plain(s)'
      BY <2>0, <2>2, StaysPlain DEF OnceOK
    <3>2. UNCHANGED <<seen, applied, log, count, reordered>>
      BY <2>2 DEF Event, entries
    <3> QED  BY <3>1, <3>2 DEF OnceOK
  <2>3. ASSUME NEW f \in Requests, Apply(f) PROVE OnceOK'
    <3>1. feed' = feed /\ ShowStreams(call[f])
      BY <2>3 DEF Apply, Release, Drop
    <3> SUFFICES ASSUME NEW s \in Streams, ~Repeats(s)'
                 PROVE  /\ Plain(s)'
                        /\ ~reordered' => /\ Remembers(seen'[s], applied'[s])
                                          /\ Descends(log'[s], applied'[s])
                                          /\ count'[s] <= applied'[s]
        BY Zenon DEF OnceOK
    <3>2. ~Repeats(s) /\ Plain(s) /\ Plain(s)'
      BY <3>1, Zenon DEF OnceOK, Repeats, Plain
    <3>3. ASSUME ~reordered'
          PROVE  /\ Remembers(seen'[s], applied'[s])
                 /\ Descends(log'[s], applied'[s])
                 /\ count'[s] <= applied'[s]
      <4>1. /\ ShowsOne(s, call[f].upto[s])
            /\ ~reordered /\ ~(call[f].upto[s] < applied[s])
        BY <3>1, <3>3, ShowsEach
      <4>2. call[f].upto[s] \in 0 .. Len(feed[s]) /\ feed[s] \in Seq(Events)
        BY <2>0 DEF FeedTypeOK
      <4>3. /\ Remembers(seen[s], applied[s]) /\ Descends(log[s], applied[s])
            /\ count[s] <= applied[s]
        BY <3>2, <4>1 DEF OnceOK
      <4> QED  BY <2>0, <3>2, <4>1, <4>2, <4>3, ShowsOnce
    <3> QED  BY <3>2, <3>3
  <2>4. \/ UNCHANGED <<feed, entries>>
        \/ \E t \in Streams : Event(t)
        \/ \E f \in Requests : Apply(f)
    BY DEF Next, vars, server, Toggle, WorkerMoves, Hide, Show, Interval, Fail,
           Serve, Answer, StartFetch, Ask, Release, Drop
  <2> QED  BY <2>1, <2>2, <2>3, <2>4
<1> QED  BY <1>1, <1>2, ShownCorrect, PTL DEF Spec

(* As long as no answer is applied after a later one, and for a stream in  *)
(* which no two events share a key, no event is shown or counted twice,    *)
(* and the entries are in the order of the events.                         *)
THEOREM IsShownOnce == Spec => []ShownOnce
<1>1. ShownOK /\ OnceOK => ShownOnce
  <2> SUFFICES ASSUME ShownOK, OnceOK, ~reordered, NEW s \in Streams, ~Repeats(s)
               PROVE  /\ count[s] <= applied[s]
                      /\ \A i \in 1 .. Len(log[s]) - 1 : log[s][i] > log[s][i + 1]
      BY DEF ShownOnce
  <2>1. Descends(log[s], applied[s]) /\ count[s] <= applied[s]
    BY DEF OnceOK
  <2>2. log[s] \in Seq(Events)
    BY DEF ShownOK, EntriesOK
  <2>3. ASSUME NEW i \in 1 .. Len(log[s]) - 1 PROVE log[s][i] > log[s][i + 1]
    <3>1. i \in DOMAIN log[s] /\ i + 1 \in DOMAIN log[s] /\ i < i + 1
      BY <2>2
    <3> QED  BY <2>1, <3>1 DEF Descends
  <2> QED  BY <2>1, <2>3
<1> QED  BY <1>1, ShownCorrect, OnceCorrect, PTL
=============================================================================
