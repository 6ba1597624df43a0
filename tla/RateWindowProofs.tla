--------------------------- MODULE RateWindowProofs ---------------------------
(***************************************************************************)
(* Proofs about RateWindow, for every number of processes, threshold,      *)
(* window length, hash size and clock bound.                               *)
(*                                                                         *)
(* The argument: a call extends the windows of its process in one of two   *)
(* ways, by starting one or by joining the last (NewCall); both keep the   *)
(* shape of the windows (ExtendWindows), so WindowInv is inductive         *)
(* (InvStep); and a sequence cut into such windows has the properties.     *)
(***************************************************************************)
EXTENDS RateWindow, SequenceTheorems, TLAPS

(* The clock is read in order and never wraps: the elapsed time is the     *)
(* plain difference.                                                       *)
LEMMA ElapsedIsDifference ==
  ASSUME NEW t \in Nat, NEW s \in Nat, t >= s
  PROVE  Elapsed(t, s) = t - s
BY DEF Elapsed

(* A rule needs at least two calls.                                        *)
LEMMA ThreshNat ==
  ASSUME NEW k \in Keys
  PROVE  T(k) \in Nat /\ T(k) >= 2
BY RateAssumption DEF T, Keys

(* The fields of a recorded call are numbers.                              *)
LEMMA CallTypes ==
  ASSUME NEW c \in Seq(Call), NEW i \in 1 .. Len(c)
  PROVE  c[i] \in Call /\ c[i].ts \in Nat /\ c[i].head \in Nat
<1>1. c[i] \in Call
  BY ElementOfSeq
<1>2. QED
  BY <1>1 DEF Call

(* The call that brings a count to y is the y-th of its window.            *)
LEMMA CountIsThresh ==
  ASSUME NEW N \in Nat, NEW x \in Nat, NEW y \in Nat
  PROVE  x = y <=> N + 1 = ((N + 1) - x + 1) + y - 1
OBVIOUS

(* A call that starts a window, or joins the last one, after all calls     *)
(* before it, leaves a sequence that is cut into windows cut into windows. *)
LEMMA ExtendWindows ==
  ASSUME NEW c \in Seq(Call), Sorted(c), Windows(c), Apart(c),
         NEW e \in Call,
         NEW N \in Nat, N = Len(c),
         N > 0 => c[N].ts <= e.ts,
         \/ /\ e.head = N + 1
            /\ N > 0 => e.ts - c[c[N].head].ts > Window
         \/ /\ N > 0
            /\ e.head = c[N].head
            /\ e.ts - c[e.head].ts <= Window
  PROVE  LET d == Append(c, e) IN Sorted(d) /\ Windows(d) /\ Apart(d)
<1> DEFINE d == Append(c, e)
<1>1. /\ d \in Seq(Call)
      /\ Len(d) = N + 1
      /\ \A i \in 1 .. N : d[i] = c[i]
      /\ d[N + 1] = e
  BY AppendProperties
<1>2. /\ e.ts \in Nat /\ e.head \in Nat /\ Window \in Nat
      /\ \A i \in 1 .. N : c[i].ts \in Nat /\ c[i].head \in Nat
  BY CallTypes, RateAssumption DEF Call
<1> HIDE DEF d
<1>3. Sorted(d)
  <2>1. ASSUME NEW i \in 1 .. N PROVE c[i].ts <= e.ts
    BY <1>2 DEF Sorted
  <2>2. QED
    BY <1>1, <1>2, <2>1 DEF Sorted
<1>4. Windows(d)
  <2>1. ASSUME NEW j \in 1 .. N
        PROVE  /\ d[j].head \in 1 .. j
               /\ \A m \in d[j].head .. j : d[m].head = d[j].head
               /\ d[j].ts - d[d[j].head].ts <= Window
    <3>1. /\ c[j].head \in 1 .. j
          /\ \A m \in c[j].head .. j : c[m].head = c[j].head
          /\ c[j].ts - c[c[j].head].ts <= Window
      BY DEF Windows
    <3>2. d[j] = c[j] /\ \A m \in c[j].head .. j : d[m] = c[m]
      BY <1>1, <1>2, <3>1
    <3>3. c[j].head \in c[j].head .. j
      BY <3>1
    <3>4. QED
      BY <3>1, <3>2, <3>3
  <2>2. /\ e.head \in 1 .. N + 1
        /\ \A m \in e.head .. N + 1 : d[m].head = e.head
        /\ e.ts - d[e.head].ts <= Window
    <3>1. CASE e.head = N + 1
      BY <3>1, <1>1, <1>2
    <3>2. CASE N > 0 /\ e.head = c[N].head /\ e.ts - c[e.head].ts <= Window
      <4>1. /\ c[N].head \in 1 .. N
            /\ \A m \in c[N].head .. N : c[m].head = c[N].head
        BY <3>2, <1>2 DEF Windows
      <4>2. QED
        BY <3>2, <4>1, <1>1, <1>2
    <3>3. QED
      BY <3>1, <3>2
  <2>3. QED
    BY <1>1, <2>1, <2>2 DEF Windows
<1>5. Apart(d)
  <2>1. ASSUME NEW j \in 2 .. N, d[j].head = j
        PROVE  d[j].ts - d[d[j - 1].head].ts > Window
    <3>1. c[j - 1].head \in 1 .. N /\ d[j - 1] = c[j - 1] /\ d[j] = c[j]
      BY <1>1, <1>2 DEF Windows
    <3>2. QED
      BY <1>1, <2>1, <3>1 DEF Apart
  <2>2. ASSUME N + 1 \in 2 .. N + 1, e.head = N + 1
        PROVE  e.ts - d[d[N].head].ts > Window
    <3>1. N > 0 /\ c[N].head \in 1 .. N /\ d[N] = c[N]
      BY <1>1, <1>2, <2>2 DEF Windows
    <3>2. QED
      BY <1>1, <2>2, <3>1, <1>2
  <2>3. QED
    BY <1>1, <2>1, <2>2 DEF Apart
<1>6. QED
  BY <1>3, <1>4, <1>5 DEF d

(* One handler run, seen from the history: the call it adds starts a       *)
(* window or joins the last one, and count and windowStart follow.         *)
LEMMA NewCall ==
  ASSUME TypeOK, ClockOK, NEW k \in Keys, KeyOK(k),
         NEW t \in clock .. MaxTime
  PROVE  LET N == Len(calls[k])
             h == (N + 1) - NewCount(k, t) + 1
         IN /\ N \in Nat /\ t \in Nat /\ h \in 1 .. N + 1
            /\ NewCount(k, t) \in Nat /\ NewStart(k, t) \in Nat
            /\ N > 0 => calls[k][N].ts <= t
            /\ \/ /\ h = N + 1
                  /\ NewStart(k, t) = t
                  /\ N > 0 => t - calls[k][calls[k][N].head].ts > Window
               \/ /\ N > 0
                  /\ h = calls[k][N].head
                  /\ NewStart(k, t) = calls[k][h].ts
                  /\ t - calls[k][h].ts <= Window
<1> DEFINE c == calls[k]
           N == Len(calls[k])
           h == (N + 1) - NewCount(k, t) + 1
<1>1. /\ c \in Seq(Call) /\ N \in Nat
      /\ count[k] \in Nat /\ windowStart[k] \in Nat
      /\ Window \in Nat /\ BootTime \in Nat /\ BootTime > Window
      /\ MaxTime \in Nat
  BY RateAssumption DEF TypeOK
<1>2. CASE N = 0
  <2>1. c = <<>> /\ count[k] = 0 /\ windowStart[k] = 0
    BY <1>1, <1>2, EmptySeq DEF KeyOK, EntryOK
  <2>3. t \in Nat /\ t > Window
    BY <1>1 DEF TypeOK, ClockOK
  <2>4. Elapsed(t, windowStart[k]) = t
    BY <2>1, <2>3 DEF Elapsed
  <2>5. NewCount(k, t) = 1 /\ NewStart(k, t) = t
    BY <2>3, <2>4, <1>1 DEF NewCount, NewStart, Expired
  <2>6. QED
    BY <1>2, <2>3, <2>5
<1>3. CASE N > 0
  <2>1. c # <<>> /\ N \in 1 .. N
    BY <1>1, <1>3, EmptySeq
  <2>2. /\ c[N].ts \in Nat /\ c[N].head \in 1 .. N
        /\ c[c[N].head].ts \in Nat /\ c[c[N].head].ts <= c[N].ts
    <3>1. c[N].head \in 1 .. N
      BY <2>1 DEF KeyOK, Windows
    <3>2. c[N].ts \in Nat /\ c[c[N].head].ts \in Nat
      BY <1>1, <2>1, <3>1, CallTypes
    <3>3. c[c[N].head].ts <= c[N].ts
      BY <2>1, <3>1 DEF KeyOK, Sorted
    <3>4. QED
      BY <3>1, <3>2, <3>3
  <2>3. t \in Nat /\ c[N].ts <= t
    <3>1. c[N].ts <= clock
      BY <2>1 DEF ClockOK
    <3>2. QED
      BY <2>2, <3>1, <1>1 DEF TypeOK
  <2>4. /\ count[k] = N - c[N].head + 1
        /\ windowStart[k] = c[c[N].head].ts
    BY <1>3 DEF KeyOK, EntryOK
  <2>5. Elapsed(t, windowStart[k]) = t - c[c[N].head].ts
    <3>1. windowStart[k] \in Nat /\ windowStart[k] <= t
      BY <1>1, <2>2, <2>3, <2>4
    <3>2. Elapsed(t, windowStart[k]) = t - windowStart[k]
      BY <2>3, <3>1, ElapsedIsDifference
    <3>3. QED
      BY <3>2, <2>4
  <2>6. CASE t - c[c[N].head].ts > Window
    <3>1. NewCount(k, t) = 1 /\ NewStart(k, t) = t
      BY <2>5, <2>6 DEF NewCount, NewStart, Expired
    <3>2. QED
      BY <1>1, <2>3, <2>6, <3>1
  <2>7. CASE ~(t - c[c[N].head].ts > Window)
    <3>1. /\ NewCount(k, t) = N - c[N].head + 1 + 1
          /\ NewStart(k, t) = c[c[N].head].ts
      BY <2>4, <2>5, <2>7 DEF NewCount, NewStart, Expired
    <3>2. h = c[N].head
      BY <1>1, <2>2, <3>1
    <3>3. t - c[h].ts <= Window
      BY <1>1, <2>2, <2>3, <2>7, <3>2
    <3>4. h \in 1 .. N + 1 /\ NewCount(k, t) \in Nat
      <4> DEFINE x == c[N].head
      <4>1. x \in 1 .. N /\ NewCount(k, t) = N - x + 1 + 1 /\ h = x
        BY <2>2, <3>1, <3>2
      <4> HIDE DEF x
      <4>2. QED
        BY <4>1, <1>1
    <3>5. QED
      BY <1>1, <1>3, <2>2, <2>3, <3>1, <3>2, <3>3, <3>4
  <2>8. QED
    BY <2>6, <2>7
<1>4. QED
  BY <1>1, <1>2, <1>3

-----------------------------------------------------------------------------
(* No call was made yet: there is no window.                               *)
LEMMA InvInit == Init => WindowInv
<1> SUFFICES ASSUME Init PROVE WindowInv
  OBVIOUS
<1>1. TypeOK
  BY EmptySeq, RateAssumption DEF Init, TypeOK
<1>2. ASSUME NEW k \in Keys PROVE KeyOK(k)
  <2>1. /\ calls[k] = <<>> /\ ignored[k] = <<>>
        /\ Len(calls[k]) = 0 /\ Len(ignored[k]) = 0
        /\ count[k] = 0 /\ windowStart[k] = 0
    BY EmptySeq DEF Init
  <2>2. QED
    BY <2>1 DEF KeyOK, EntryOK, Sorted, Windows, Apart, AlertsOK, IgnoredOK
<1>3. QED
  <2>1. ClockOK
    <3>1. \A k \in Keys : Len(calls[k]) = 0
      BY EmptySeq DEF Init
    <3>2. QED
      BY <3>1, RateAssumption DEF ClockOK, Init
  <2>2. QED
    BY <1>1, <1>2, <2>1 DEF WindowInv, Init

(* A counted call keeps the invariant: for its own key by the lemmas       *)
(* above, and nothing another key says depends on it, except that a full   *)
(* hash must stay full, as it does when the caller has an entry already.   *)
LEMMA CountInv ==
  ASSUME WindowInv, NEW k \in Keys, NEW t \in clock .. MaxTime,
         Count(k, t)
  PROVE  WindowInv'
<1> DEFINE c == calls[k]
           N == Len(c)
           h == (N + 1) - NewCount(k, t) + 1
           e == [ts |-> t, head |-> h]
<1>1. TypeOK /\ ClockOK /\ KeyOK(k)
  BY DEF WindowInv
<1>2. /\ N \in Nat /\ t \in Nat /\ h \in 1 .. N + 1
      /\ NewCount(k, t) \in Nat /\ NewStart(k, t) \in Nat
      /\ N > 0 => c[N].ts <= t
      /\ \/ /\ h = N + 1
            /\ NewStart(k, t) = t
            /\ N > 0 => t - c[c[N].head].ts > Window
         \/ /\ N > 0
            /\ h = c[N].head
            /\ NewStart(k, t) = c[h].ts
            /\ t - c[h].ts <= Window
  BY <1>1, NewCall
<1>3. c \in Seq(Call) /\ e \in Call /\ e.ts = t /\ e.head = h
  BY <1>1, <1>2 DEF TypeOK, Call
<1>4. /\ calls' = [calls EXCEPT ![k] = Append(c, e)]
      /\ calls'[k] = Append(c, e)
      /\ \A j \in Keys : j # k => calls'[j] = calls[j]
  <2>1. calls' = [calls EXCEPT ![k] = Append(calls[k],
                    [ts |-> t,
                     head |-> (Len(calls[k]) + 1) - NewCount(k, t) + 1])]
    BY Zenon DEF Count
  <2>2. calls' = [calls EXCEPT ![k] = Append(c, e)]
    BY <2>1
  <2>3. QED
    BY <2>2, <1>1 DEF TypeOK
<1>5. /\ calls'[k] \in Seq(Call) /\ Len(calls'[k]) = N + 1
      /\ \A i \in 1 .. N : calls'[k][i] = c[i]
      /\ calls'[k][N + 1] = e
  BY <1>3, <1>4, AppendProperties
<1>6. TypeOK'
  <2>1. calls' \in [Keys -> Seq(Call)]
    BY <1>1, <1>4, <1>5 DEF TypeOK
  <2>2. [key |-> k, call |-> N + 1] \in Alert
    BY <1>2 DEF Alert
  <2>3. alerts' \subseteq Alert
    BY <1>1, <2>2 DEF TypeOK, Count
  <2>4. QED
    BY <1>1, <1>2, <2>1, <2>3 DEF TypeOK, Count
<1>11. ClockOK'
  <2>1. t > Window /\ t >= clock /\ clock \in Nat /\ clock' = t
    BY <1>1, <1>2, RateAssumption DEF TypeOK, ClockOK, Count
  <2>2. ASSUME NEW j \in Keys, NEW i \in 1 .. Len(calls[j])
        PROVE  calls[j][i].ts <= t
    <3>1. calls[j] \in Seq(Call) /\ calls[j][i].ts <= clock
      BY <1>1 DEF TypeOK, ClockOK
    <3>2. calls[j][i].ts \in Nat
      BY <3>1, CallTypes
    <3>3. QED
      BY <1>2, <2>1, <3>1, <3>2
  <2>3. ASSUME NEW i \in 1 .. N + 1 PROVE calls'[k][i].ts <= t
    <3>1. CASE i \in 1 .. N
      BY <1>5, <2>2, <3>1
    <3>2. CASE i = N + 1
      BY <1>2, <1>3, <1>5, <3>2
    <3>3. QED
      BY <1>2, <3>1, <3>2
  <2>4. QED
    BY <1>4, <1>5, <2>1, <2>2, <2>3 DEF ClockOK
<1>7. \A a \in alerts' : a.call \in 1 .. Len(calls'[a.key])
  <2>1. ASSUME NEW a \in alerts PROVE a.call \in 1 .. Len(calls'[a.key])
    <3>1. a.key \in Keys /\ a.call \in 1 .. Len(calls[a.key])
      BY <1>1 DEF WindowInv, TypeOK, Alert
    <3>2. QED
      BY <3>1, <1>2, <1>4, <1>5
  <2>2. N + 1 \in 1 .. Len(calls'[k])
    BY <1>2, <1>5
  <2>3. alerts' \subseteq alerts \union {[key |-> k, call |-> N + 1]}
    BY DEF Count
  <2>4. QED
    BY <2>1, <2>2, <2>3
<1>8. KeyOK(k)'
  <2>1. Sorted(calls'[k]) /\ Windows(calls'[k]) /\ Apart(calls'[k])
    <3>1. Sorted(c) /\ Windows(c) /\ Apart(c)
      BY <1>1 DEF KeyOK
    <3>2. QED
      BY <3>1, <1>2, <1>3, <1>4, ExtendWindows
  <2>2. EntryOK(k)'
    <3>1. count'[k] = NewCount(k, t) /\ windowStart'[k] = NewStart(k, t)
      BY <1>1 DEF Count, TypeOK
    <3>2. (N + 1) - h + 1 = NewCount(k, t)
      BY <1>2
    <3>3. calls'[k][h].ts = NewStart(k, t)
      <4>1. CASE h = N + 1 /\ NewStart(k, t) = t
        BY <4>1, <1>3, <1>5
      <4>2. CASE N > 0 /\ h = c[N].head /\ NewStart(k, t) = c[h].ts
        <5>1. c[N].head \in 1 .. N
          BY <4>2, <1>1, <1>2 DEF KeyOK, Windows
        <5>2. calls'[k][h] = c[h]
          BY <4>2, <5>1, <1>5
        <5>3. QED
          BY <4>2, <5>2
      <4>3. QED
        BY <4>1, <4>2, <1>2
    <3>4. Len(calls'[k]) = N + 1 /\ N + 1 # 0 /\ calls'[k][N + 1].head = h
      BY <1>2, <1>3, <1>5
    <3>5. (N + 1) - calls'[k][N + 1].head + 1 = NewCount(k, t)
      BY <3>2, <3>4
    <3> HIDE DEF h
    <3>6. QED
      BY <3>1, <3>3, <3>4, <3>5 DEF EntryOK
  <2>3. AlertsOK(k)'
    <3>1. T(k) \in Nat
      BY ThreshNat
    <3>2. ASSUME NEW n \in 1 .. N
          PROVE  [key |-> k, call |-> n] \in alerts' <=>
                   n = calls'[k][n].head + T(k) - 1
      <4>1. [key |-> k, call |-> n] \in alerts' <=>
              [key |-> k, call |-> n] \in alerts
        <5>1. [key |-> k, call |-> n] # [key |-> k, call |-> N + 1]
          BY <1>2
        <5>2. QED
          BY <5>1 DEF Count
      <4>2. [key |-> k, call |-> n] \in alerts <=> n = c[n].head + T(k) - 1
        BY <1>1 DEF KeyOK, AlertsOK
      <4>3. QED
        BY <4>1, <4>2, <1>5
    <3>3. [key |-> k, call |-> N + 1] \in alerts' <=> N + 1 = h + T(k) - 1
      <4>1. [key |-> k, call |-> N + 1] \notin alerts
        <5>1. ASSUME NEW a \in alerts, a = [key |-> k, call |-> N + 1]
              PROVE  FALSE
          <6>1. a.call \in 1 .. Len(calls[a.key])
            BY DEF WindowInv
          <6>2. a.key = k /\ a.call = N + 1
            BY <5>1
          <6>3. QED
            BY <6>1, <6>2, <1>2
        <5>2. QED
          BY <5>1
      <4>2. [key |-> k, call |-> N + 1] \in alerts' <=> NewCount(k, t) = T(k)
        BY <4>1 DEF Count, Fires
      <4>3. NewCount(k, t) = T(k) <=> N + 1 = h + T(k) - 1
        <5> DEFINE x == NewCount(k, t)
        <5>1. N \in Nat /\ x \in Nat /\ T(k) \in Nat
          BY <1>2, <3>1
        <5> HIDE DEF N, x
        <5>2. x = T(k) <=> N + 1 = ((N + 1) - x + 1) + T(k) - 1
          BY <5>1, CountIsThresh
        <5>3. QED
          BY <5>2 DEF x
      <4>4. QED
        BY <4>2, <4>3, Zenon
    <3>4. Len(calls'[k]) = N + 1 /\ calls'[k][N + 1].head = h
      BY <1>3, <1>5
    <3>5. ASSUME NEW n \in 1 .. N + 1
          PROVE  [key |-> k, call |-> n] \in alerts' <=>
                   n = calls'[k][n].head + T(k) - 1
      <4>1. n \in 1 .. N \/ n = N + 1
        BY <1>2
      <4>2. QED
        BY <4>1, <3>2, <3>3, <3>4
    <3>6. QED
      BY <3>4, <3>5 DEF AlertsOK, T
  <2>4. IgnoredOK(k)'
    <3>1. k \in tracked' /\ ignored' = ignored
      BY DEF Count
    <3>2. ignored[k] = <<>>
      BY <1>1 DEF Count, KeyOK, IgnoredOK
    <3>3. Len(ignored'[k]) = 0
      BY <3>1, <3>2, EmptySeq
    <3>4. QED
      BY <3>1, <3>2, <3>3 DEF IgnoredOK
  <2>5. QED
    BY <2>1, <2>2, <2>3, <2>4 DEF KeyOK
<1>9. ASSUME NEW j \in Keys, j # k PROVE KeyOK(j)'
  <2>1. KeyOK(j) /\ calls'[j] = calls[j] /\ ignored'[j] = ignored[j]
    BY <1>4, <1>9 DEF WindowInv, Count
  <2>2. Sorted(calls'[j]) /\ Windows(calls'[j]) /\ Apart(calls'[j])
    BY <2>1 DEF KeyOK
  <2>3. EntryOK(j)'
    <3>1. count'[j] = count[j] /\ windowStart'[j] = windowStart[j]
      BY <1>1, <1>9 DEF Count, TypeOK
    <3>2. QED
      BY <2>1, <3>1 DEF KeyOK, EntryOK
  <2>4. AlertsOK(j)'
    <3>1. ASSUME NEW n \in 1 .. Len(calls[j])
          PROVE  [key |-> j, call |-> n] \in alerts' <=>
                   [key |-> j, call |-> n] \in alerts
      <4>1. [key |-> j, call |-> n] # [key |-> k, call |-> N + 1]
        BY <1>9
      <4>2. QED
        BY <4>1 DEF Count
    <3>2. QED
      BY <2>1, <3>1 DEF KeyOK, AlertsOK, T
  <2>5. IgnoredOK(j)'
    <3>1. k \in tracked \/ HasRoom(k)
      BY DEF Count
    <3>2. ASSUME ignored[j] # <<>> PROVE j \notin tracked' /\ ~HasRoom(j)'
      <4>1. j \notin tracked /\ ~HasRoom(j)
        BY <2>1, <3>2 DEF KeyOK, IgnoredOK
      <4>2. tracked' = tracked \union {k}
        BY DEF Count
      <4>3. k \in tracked \/ k[1] # j[1]
        BY <3>1, <4>1 DEF HasRoom
      <4>4. {p \in Pids : <<j[1], p>> \in tracked'} =
              {p \in Pids : <<j[1], p>> \in tracked}
        BY <4>2, <4>3 DEF Keys
      <4>5. ~HasRoom(j)'
        BY <4>1, <4>4 DEF HasRoom
      <4>6. QED
        BY <1>9, <4>1, <4>2, <4>5
    <3>3. calls'[j] # <<>> => j \in tracked'
      BY <2>1 DEF KeyOK, IgnoredOK, Count
    <3>4. QED
      BY <2>1, <3>2, <3>3 DEF KeyOK, IgnoredOK
  <2>6. QED
    BY <2>2, <2>3, <2>4, <2>5 DEF KeyOK
<1>10. QED
  BY <1>6, <1>11, <1>7, <1>8, <1>9 DEF WindowInv

(* A call turned away keeps the invariant: only ignored changes.           *)
LEMMA TurnAwayInv ==
  ASSUME WindowInv, NEW k \in Keys, NEW t \in clock .. MaxTime,
         TurnAway(k, t)
  PROVE  WindowInv'
<1>1. TypeOK /\ KeyOK(k)
  BY DEF WindowInv
<1>2. k \notin tracked /\ ~HasRoom(k) /\ calls[k] = <<>>
  BY <1>1 DEF TurnAway, KeyOK, IgnoredOK
<1>3. t \in Nat /\ t > Window /\ t >= clock /\ clock \in Nat
  BY RateAssumption DEF WindowInv, TypeOK, ClockOK
<1>4. /\ ignored[k] \in Seq(Nat)
      /\ ignored'[k] = Append(ignored[k], t)
      /\ \A j \in Keys : j # k => ignored'[j] = ignored[j]
  BY <1>1 DEF TypeOK, TurnAway
<1>5. ignored'[k] \in Seq(Nat)
  BY <1>3, <1>4, AppendProperties
<1>6. TypeOK' /\ ClockOK'
  <2>1. TypeOK'
    BY <1>1, <1>3, <1>4, <1>5 DEF TypeOK, TurnAway
  <2>2. ASSUME NEW j \in Keys, NEW i \in 1 .. Len(calls[j])
        PROVE  calls[j][i].ts <= t
    <3>1. calls[j] \in Seq(Call) /\ calls[j][i].ts <= clock
      BY <1>1 DEF WindowInv, TypeOK, ClockOK
    <3>2. calls[j][i].ts \in Nat
      BY <3>1, CallTypes
    <3>3. QED
      BY <1>3, <3>1, <3>2
  <2>3. QED
    BY <1>3, <2>1, <2>2 DEF ClockOK, TurnAway
<1>7. ASSUME NEW j \in Keys PROVE KeyOK(j)'
  <2>1. KeyOK(j) /\ calls' = calls /\ tracked' = tracked /\ alerts' = alerts
        /\ count' = count /\ windowStart' = windowStart
    BY DEF WindowInv, TurnAway
  <2>2. Sorted(calls'[j]) /\ Windows(calls'[j]) /\ Apart(calls'[j])
    BY <2>1 DEF KeyOK
  <2>3. EntryOK(j)' /\ AlertsOK(j)'
    BY <2>1 DEF KeyOK, EntryOK, AlertsOK, T
  <2>4. IgnoredOK(j)'
    <3>1. HasRoom(j)' <=> HasRoom(j)
      BY <2>1 DEF HasRoom
    <3>2. CASE j = k
      BY <1>2, <2>1, <3>1, <3>2 DEF IgnoredOK
    <3>3. CASE j # k
      BY <1>4, <2>1, <3>1, <3>3 DEF KeyOK, IgnoredOK
    <3>4. QED
      BY <3>2, <3>3
  <2>5. QED
    BY <2>2, <2>3, <2>4 DEF KeyOK
<1>8. QED
  BY <1>6, <1>7 DEF WindowInv, TurnAway

(* A call extends the windows of its process and leaves those of others.   *)
LEMMA InvStep == WindowInv /\ [Next]_vars => WindowInv'
<1> SUFFICES ASSUME WindowInv, [Next]_vars PROVE WindowInv'
  OBVIOUS
<1>1. CASE UNCHANGED vars
  BY <1>1 DEF vars, WindowInv, TypeOK, ClockOK, KeyOK, EntryOK, Sorted, Windows, Apart,
              AlertsOK, IgnoredOK, HasRoom, T
<1>2. ASSUME NEW k \in Keys, SysEnter(k) PROVE WindowInv'
  <2>1. PICK t \in clock .. MaxTime : Count(k, t) \/ TurnAway(k, t)
    BY <1>2 DEF SysEnter
  <2>2. QED
    BY <2>1, CountInv, TurnAwayInv
<1>3. QED
  BY <1>1, <1>2 DEF Next

(* WindowInv, and with it the type invariant, holds in every reachable     *)
(* state: the entry of a process always describes its last window.         *)
THEOREM WindowInvariant == Spec => []WindowInv
<1>1. QED
  BY InvInit, InvStep, PTL DEF Spec

(* The variables keep their types: in particular a window head is a call   *)
(* of the process, so the counts never leave the natural numbers.          *)
THEOREM TypeCorrect == Spec => []TypeOK
<1>1. WindowInv => TypeOK
  BY DEF WindowInv
<1>2. QED
  BY <1>1, WindowInvariant, PTL

-----------------------------------------------------------------------------
(* What an alert says about the calls: it is the Thresh-th of its window.  *)
LEMMA AlertInWindow ==
  ASSUME WindowInv, NEW a \in alerts,
         NEW c, c = calls[a.key], NEW n, n = a.call
  PROVE  /\ a.key \in Keys /\ c \in Seq(Call) /\ n \in 1 .. Len(c)
         /\ c[n].head = n - T(a.key) + 1
         /\ c[n].head \in 1 .. n
         /\ \A m \in c[n].head .. n : c[m].head = c[n].head
         /\ c[n].ts - c[c[n].head].ts <= Window
<1>1. /\ a.key \in Keys /\ n \in Nat /\ a = [key |-> a.key, call |-> n]
      /\ c \in Seq(Call)
  BY DEF WindowInv, TypeOK, Alert
<1>2. n \in 1 .. Len(c)
  BY DEF WindowInv
<1>3. n = c[n].head + T(a.key) - 1
  BY <1>1, <1>2 DEF WindowInv, KeyOK, AlertsOK
<1>4. /\ c[n].head \in 1 .. n
      /\ \A m \in c[n].head .. n : c[m].head = c[n].head
      /\ c[n].ts - c[c[n].head].ts <= Window
  BY <1>1, <1>2 DEF WindowInv, KeyOK, Windows
<1>5. T(a.key) \in Nat
  BY <1>1, ThreshNat
<1>6. QED
  BY <1>1, <1>2, <1>3, <1>4, <1>5

(* No unfounded alert: Thresh calls within one window length.              *)
THEOREM AlertsAreJustified == Spec => []AlertJustified
<1>1. WindowInv => AlertJustified
  BY AlertInWindow DEF AlertJustified, Within
<1>2. QED
  BY <1>1, WindowInvariant, PTL

(* No call counts towards two alerts of its process.                       *)
THEOREM AlertsAreDisjoint == Spec => []AlertsDisjoint
<1>1. ASSUME WindowInv, NEW a \in alerts, NEW b \in alerts,
             a.key = b.key, a.call < b.call
      PROVE  b.call - a.call >= T(a.key)
  <2>1. /\ a.key \in Keys
        /\ a.call \in Nat /\ b.call \in Nat
        /\ calls[a.key][a.call].head = a.call - T(a.key) + 1
        /\ calls[a.key][b.call].head = b.call - T(a.key) + 1
        /\ \A m \in calls[a.key][b.call].head .. b.call :
              calls[a.key][m].head = calls[a.key][b.call].head
    BY <1>1, AlertInWindow
  <2>2. T(a.key) \in Nat
    BY <2>1, ThreshNat
  <2>3. QED
    BY <1>1, <2>1, <2>2
<1>2. WindowInv => AlertsDisjoint
  BY <1>1 DEF AlertsDisjoint
<1>3. QED
  BY <1>2, WindowInvariant, PTL

(* A storm of 2*Thresh-2 calls within one window length is caught.  If the *)
(* window of the last call holds Thresh of them its Thresh-th raised the   *)
(* alert; otherwise the window before it, which started before the storm   *)
(* did, holds the other calls of the storm and Thresh calls at least.      *)
THEOREM StormsAreCaught == Spec => []StormCaught
<1>1. ASSUME WindowInv, NEW k \in Keys, NEW n \in 1 .. Len(calls[k]),
             NEW i, i = n - (2 * T(k) - 2) + 1, Within(k, i, n)
      PROVE  \E a \in alerts : /\ a.key = k
                               /\ a.call \in 1 .. n
                               /\ calls[k][i].ts - calls[k][a.call].ts <= Window
  <2> DEFINE c == calls[k]
             Raises(m) == /\ m \in 1 .. n
                          /\ m = c[m].head + T(k) - 1
                          /\ c[i].ts - c[m].ts <= Window
  <2>1. /\ c \in Seq(Call) /\ Len(c) \in Nat /\ n \in Nat /\ n <= Len(c)
        /\ T(k) \in Nat /\ T(k) >= 2 /\ Window \in Nat
        /\ i \in 1 .. n - 1
        /\ c[n].ts - c[i].ts <= Window
    <3>1. c \in Seq(Call) /\ T(k) \in Nat /\ T(k) >= 2
      BY <1>1, ThreshNat DEF WindowInv, TypeOK
    <3>2. QED
      BY <1>1, <3>1, RateAssumption DEF Within
  <2>2. /\ \A j \in 1 .. n : c[j].ts \in Nat
        /\ \A j, m \in 1 .. n : j <= m => c[j].ts <= c[m].ts
        /\ \A j \in 1 .. n :
             /\ c[j].head \in 1 .. j
             /\ \A m \in c[j].head .. j : c[m].head = c[j].head
             /\ c[j].ts - c[c[j].head].ts <= Window
    <3>1. Sorted(c) /\ Windows(c)
      BY <1>1 DEF WindowInv, KeyOK
    <3>2. \A j \in 1 .. n : j \in 1 .. Len(c)
      BY <2>1
    <3>3. \A j \in 1 .. n : c[j].ts \in Nat
      BY <2>1, <3>2, CallTypes
    <3>4. QED
      BY <3>1, <3>2, <3>3 DEF Sorted, Windows
  <2>3. ASSUME NEW r \in 1 .. n, c[r].head + T(k) - 1 <= r, i <= r
        PROVE  Raises(c[r].head + T(k) - 1)
    <3> DEFINE x == c[r].head
               m == x + T(k) - 1
    <3>1. /\ x \in 1 .. r
          /\ \A j \in x .. r : c[j].head = x
          /\ c[r].ts - c[x].ts <= Window
      BY <2>2
    <3>2. m \in x .. r /\ m <= r
      BY <2>1, <2>3, <3>1
    <3>3. c[m].head = x
      BY <3>1, <3>2
    <3> HIDE DEF m, x
    <3>4. m \in 1 .. n /\ x \in 1 .. n /\ i \in 1 .. n /\ x <= m
      BY <2>1, <2>3, <3>1, <3>2
    <3>5. /\ c[i].ts \in Nat /\ c[r].ts \in Nat /\ c[m].ts \in Nat
          /\ c[x].ts \in Nat
      BY <2>2, <3>4
    <3>6. c[i].ts <= c[r].ts /\ c[x].ts <= c[m].ts
      BY <2>2, <2>3, <3>4
    <3>7. c[i].ts - c[m].ts <= Window
      <4>1. \A p, q, u, v \in Nat :
              p <= q /\ u <= v /\ q - u <= Window => p - v <= Window
        BY <2>1
      <4>2. QED
        BY <4>1, <3>1, <3>5, <3>6
    <3>8. QED
      BY <3>3, <3>4, <3>7 DEF m, x
  <2>4. \E m \in 1 .. n : Raises(m)
    <3> DEFINE h == c[n].head
    <3>1. h \in 1 .. n /\ n \in 1 .. n
      BY <2>1, <2>2
    <3>2. CASE h + T(k) - 1 <= n
      <4>1. Raises(h + T(k) - 1)
        BY <2>1, <2>3, <3>1, <3>2
      <4>2. QED
        BY <4>1
    <3>3. CASE ~(h + T(k) - 1 <= n)
      <4> HIDE DEF h
      <4>1. h >= i + T(k) - 1 /\ h - 1 \in 1 .. n /\ i <= h - 1 /\ h >= 2
        <5>1. \A t, m, g, j \in Nat :
                /\ t >= 2 /\ j \in 1 .. m - 1 /\ j = m - (2 * t - 2) + 1
                /\ g \in 1 .. m /\ g + t - 1 > m
                => g >= j + t - 1 /\ g - 1 \in 1 .. m /\ j <= g - 1 /\ g >= 2
          OBVIOUS
        <5>2. /\ i \in Nat /\ h \in Nat /\ h + T(k) - 1 > n
              /\ i = n - (2 * T(k) - 2) + 1
          BY <1>1, <2>1, <3>1, <3>3
        <5>3. QED
          BY <2>1, <3>1, <5>1, <5>2
      <4>2. c[h].head = h
        BY <2>2, <3>1 DEF h
      <4> DEFINE r == h - 1
                 s == c[r].head
      <4>3. r \in 1 .. n /\ s \in 1 .. r
        BY <2>2, <4>1
      <4>4. c[h].ts - c[s].ts > Window
        BY <1>1, <2>1, <3>1, <4>1, <4>2 DEF WindowInv, KeyOK, Apart
      <4>5. s < i
        <5>1. c[h].ts <= c[n].ts
          BY <2>2, <3>1
        <5>2. s \in 1 .. n /\ i \in 1 .. n
          BY <2>1, <4>3
        <5>3. /\ c[h].ts \in Nat /\ c[s].ts \in Nat /\ c[n].ts \in Nat
              /\ c[i].ts \in Nat
          BY <2>2, <3>1, <5>2
        <5>4. c[s].ts < c[i].ts
          <6>1. \A p, q, u, v \in Nat :
                  /\ q - p > Window
                  /\ q <= u
                  /\ u - v <= Window
                  => p < v
            BY <2>1
          <6>2. QED
            BY <2>1, <4>4, <5>1, <5>3, <6>1
        <5>5. QED
          BY <2>2, <5>2, <5>3, <5>4
      <4>6. s + T(k) - 1 <= r
        BY <2>1, <3>1, <4>1, <4>3, <4>5
      <4>7. Raises(s + T(k) - 1)
        BY <2>3, <4>1, <4>3, <4>6
      <4>8. QED
        BY <4>7
    <3>4. QED
      BY <3>2, <3>3
  <2>5. PICK m \in 1 .. n : Raises(m)
    BY <2>4
  <2>6. [key |-> k, call |-> m] \in alerts
    <3>1. m \in 1 .. Len(c)
      BY <2>1
    <3>2. QED
      BY <1>1, <2>5, <3>1 DEF WindowInv, KeyOK, AlertsOK
  <2>7. QED
    BY <2>5, <2>6
<1>2. WindowInv => StormCaught
  BY <1>1 DEF StormCaught
<1>3. QED
  BY <1>2, WindowInvariant, PTL
=============================================================================
