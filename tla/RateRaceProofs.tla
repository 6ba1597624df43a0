---------------------------- MODULE RateRaceProofs ----------------------------
(***************************************************************************)
(* What survives the races of RateRace, for any threads, processes, builds *)
(* and threshold, and that the processes of one thread are served as       *)
(* RateWindow specifies.                                                   *)
(***************************************************************************)
EXTENDS RateRace, FiniteSetTheorems, WellFoundedInduction, TLAPS

(* A thread whose call is counted in the history but not in the entry yet. *)
Counting == {"check", "reset_count", "reset_start", "load", "store"}

Active(p) == {th \in Threads : ProcOf[th] = p /\ pc[th] \in Counting}

(* The calls of a process whose count was stored.                          *)
Stored(p) == Len(calls[p]) - Cardinality(Active(p))

(* The variables that are nothing but read and written.                    *)
Base ==
  /\ build \in Builds
  /\ clock \in BootTime .. MaxTime
  /\ tracked \subseteq Pids
  /\ windowStart \in [Pids -> 0 .. MaxTime]
  /\ pc \in [Threads -> Counting \union {"idle", "compare"}]
  /\ now \in [Threads -> 0 .. MaxTime]
  /\ reg \in [Threads -> 0 .. MaxCalls]
  /\ made \in [Threads -> 0 .. MaxCalls]
  /\ calls \in [Pids -> Seq(BootTime .. MaxTime)]
  /\ ignored \in [Pids -> Seq(BootTime .. MaxTime)]
  /\ \A p \in Pids : Len(calls[p]) + Len(ignored[p]) <= MaxCalls
  /\ \A th \in Threads : pc[th] # "idle" => made[th] >= 1
  /\ build = "register" => \A th \in Threads : pc[th] \notin {"reset_count", "compare"}

(* A count, in the entry or on its way there, is never more than the calls *)
(* whose count was stored: an update that is lost makes it less.           *)
CountsOK ==
  /\ count \in [Pids -> Nat]
  /\ \A p \in Pids : count[p] <= Stored(p)
  /\ \A th \in Threads : pc[th] = "store" => reg[th] <= Stored(ProcOf[th])

(* What a count contributes towards the next alert.                        *)
Towards(c) == IF c < Thresh THEN c ELSE Thresh - 1

(* In the register build every stored call is counted towards an alert, or *)
(* is the one that raised it, or neither, but never two of these.          *)
AlertsOK ==
  /\ alerts \subseteq [pid : Pids, call : 1 .. MaxCalls] /\ IsFiniteSet(alerts)
  /\ \A p \in Pids : AlertsOf(p) # {} => Len(calls[p]) >= Thresh
  /\ build = "register" =>
       /\ \A p \in Pids :
            /\ Cardinality(AlertsOf(p)) + Towards(count[p]) <= Stored(p)
            /\ AlertsOf(p) # {} =>
                 Cardinality(AlertsOf(p)) + Thresh - 1 <= Stored(p)
       /\ \A th \in Threads :
            pc[th] = "store" =>
              Cardinality(AlertsOf(ProcOf[th])) + Towards(reg[th])
                <= Stored(ProcOf[th])

RaceOK == Base /\ CountsOK /\ AlertsOK

-----------------------------------------------------------------------------
(* The constants that are numbers are.                                     *)
LEMMA Bounds ==
  /\ Thresh \in Nat /\ Thresh >= 2 /\ Window \in Nat /\ MaxCalls \in Nat
  /\ BootTime \in Nat /\ MaxTime \in Nat /\ BootTime <= MaxTime
  /\ IsFiniteSet(Threads) /\ ProcOf \in [Threads -> Pids]
BY RaceAssumption

(* There are finitely many threads, so those of a process can be counted.  *)
LEMMA ActiveFinite ==
  ASSUME NEW p
  PROVE  IsFiniteSet(Active(p)) /\ Cardinality(Active(p)) \in Nat
<1>1. Active(p) \subseteq Threads
  BY DEF Active
<1> QED  BY <1>1, Bounds, FS_Subset, FS_CardinalityType

(* A step inside a run changes nobody's number of stored calls.            *)
LEMMA InsideKeepsStored ==
  ASSUME Base, NEW th \in Threads, NEW x \in Counting, pc[th] \in Counting,
         pc' = [pc EXCEPT ![th] = x], UNCHANGED calls
  PROVE  \A p \in Pids : Stored(p)' = Stored(p)
<1>1. ASSUME NEW p \in Pids PROVE Active(p)' = Active(p)
  <2>1. \A o \in Threads : pc'[o] \in Counting <=> pc[o] \in Counting
    BY DEF Base
  <2> QED  BY <2>1 DEF Active
<1> QED  BY <1>1 DEF Stored

(* A call that is entered is not stored yet.                               *)
LEMMA EnterKeepsStored ==
  ASSUME Base, NEW th \in Threads, pc[th] = "idle",
         pc' = [pc EXCEPT ![th] = "check"], NEW t \in BootTime .. MaxTime,
         calls' = [calls EXCEPT ![ProcOf[th]] = Append(calls[ProcOf[th]], t)]
  PROVE  \A p \in Pids : Stored(p)' = Stored(p) /\ Len(calls'[p]) >= Len(calls[p])
<1> DEFINE q == ProcOf[th]
<1>0. q \in Pids
  BY Bounds
<1>1. /\ calls'[q] = Append(calls[q], t) /\ calls[q] \in Seq(BootTime .. MaxTime)
      /\ \A p \in Pids \ {q} : calls'[p] = calls[p]
  BY <1>0 DEF Base
<1>2. Len(calls'[q]) = Len(calls[q]) + 1 /\ Len(calls[q]) \in Nat
  BY <1>1
<1>3. "check" \in Counting /\ "idle" \notin Counting
  BY DEF Counting
<1>4. \A o \in Threads : pc'[o] \in Counting <=> o = th \/ pc[o] \in Counting
  BY <1>3 DEF Base
<1>5. ASSUME NEW p \in Pids, p # q PROVE Active(p)' = Active(p)
  BY <1>4, <1>5 DEF Active
<1>6. Active(q)' = Active(q) \union {th} /\ th \notin Active(q)
  BY <1>3, <1>4 DEF Active
<1>7. Cardinality(Active(q)') = Cardinality(Active(q)) + 1
  BY <1>6, ActiveFinite, FS_AddElement
<1>8. Stored(q)' = Stored(q)
  <2> DEFINE c == Cardinality(Active(q))
  <2>1. c \in Nat
    BY ActiveFinite
  <2>2. Stored(q) = Len(calls[q]) - c /\ Stored(q)' = Len(calls'[q]) - (c + 1)
    BY <1>7 DEF Stored
  <2> HIDE DEF c
  <2> QED  BY <1>2, <2>1, <2>2
<1>9. ASSUME NEW p \in Pids, p # q PROVE Stored(p)' = Stored(p)
  BY <1>1, <1>5, <1>9 DEF Stored
<1>10. \A p \in Pids : calls[p] \in Seq(BootTime .. MaxTime)
  BY DEF Base
<1>11. \A p \in Pids : Len(calls'[p]) >= Len(calls[p])
  BY <1>1, <1>2, <1>10
<1> QED  BY <1>8, <1>9, <1>11

(* The store of a run is what counts its call.                             *)
LEMMA StoreAdds ==
  ASSUME Base, NEW th \in Threads, pc[th] \in Counting,
         NEW x, x \notin Counting,
         pc' = [pc EXCEPT ![th] = x], UNCHANGED calls
  PROVE  /\ Stored(ProcOf[th])' = Stored(ProcOf[th]) + 1
         /\ Stored(ProcOf[th]) + 1 <= Len(calls[ProcOf[th]])
         /\ \A p \in Pids \ {ProcOf[th]} : Stored(p)' = Stored(p)
<1> DEFINE q == ProcOf[th]
<1>0. q \in Pids
  BY Bounds
<1>1. \A o \in Threads : pc'[o] \in Counting <=> o # th /\ pc[o] \in Counting
  BY DEF Base
<1>2. ASSUME NEW p \in Pids, p # q PROVE Active(p)' = Active(p)
  BY <1>1, <1>2 DEF Active
<1>3. Active(q)' = Active(q) \ {th} /\ th \in Active(q)
  BY <1>1 DEF Active
<1>4. Cardinality(Active(q)') = Cardinality(Active(q)) - 1
  BY <1>3, ActiveFinite, FS_RemoveElement
<1>5. Cardinality(Active(q)) >= 1
  BY <1>3, ActiveFinite, FS_EmptySet
<1>6. Len(calls[q]) \in Nat
  BY <1>0 DEF Base
<1>7. Stored(q)' = Stored(q) + 1 /\ Stored(q) + 1 <= Len(calls[q])
  BY <1>4, <1>5, <1>6, ActiveFinite DEF Stored
<1>8. ASSUME NEW p \in Pids, p # q PROVE Stored(p)' = Stored(p)
  BY <1>2, <1>8 DEF Stored
<1> QED  BY <1>7, <1>8

(* The number of stored calls is one.                                      *)
LEMMA StoredType ==
  ASSUME Base, NEW p \in Pids
  PROVE  Stored(p) \in Int /\ Stored(p) <= Len(calls[p]) /\ Len(calls[p]) \in Nat
<1>1. Len(calls[p]) \in Nat
  BY DEF Base
<1> QED  BY <1>1, ActiveFinite DEF Stored

-----------------------------------------------------------------------------
(* Base is kept by every step.                                             *)
LEMMA KeepsBase ==
  ASSUME Base, CountsOK, NEW th \in Threads, Step(th)
  PROVE  Base'
<1>0. /\ ProcOf[th] \in Pids /\ calls[ProcOf[th]] \in Seq(BootTime .. MaxTime)
      /\ Len(calls[ProcOf[th]]) \in Nat
      /\ ignored[ProcOf[th]] \in Seq(BootTime .. MaxTime)
  BY Bounds DEF Base
<1>1. CASE Enter(th)
  <2> DEFINE p == ProcOf[th]
  <2>1. PICK t \in clock .. MaxTime :
          /\ clock' = t
          /\ \/ /\ tracked' = tracked \union {p}
                /\ calls' = [calls EXCEPT ![p] = Append(calls[p], t)]
                /\ now' = [now EXCEPT ![th] = t]
                /\ made' = [made EXCEPT ![th] = Len(calls[p]) + 1]
                /\ pc' = [pc EXCEPT ![th] = "check"]
                /\ UNCHANGED ignored
             \/ /\ ignored' = [ignored EXCEPT ![p] = Append(ignored[p], t)]
                /\ UNCHANGED <<tracked, calls, now, made, pc>>
    BY <1>1, Zenon DEF Enter
  <2>2. t \in BootTime .. MaxTime /\ t \in 0 .. MaxTime
    BY <2>1, Bounds DEF Base
  <2>3. /\ UNCHANGED <<build, windowStart, reg>>
        /\ Len(calls[p]) + Len(ignored[p]) < MaxCalls
    BY <1>1 DEF Enter
  <2>4. /\ Append(calls[p], t) \in Seq(BootTime .. MaxTime)
        /\ Len(Append(calls[p], t)) = Len(calls[p]) + 1
        /\ Append(ignored[p], t) \in Seq(BootTime .. MaxTime)
        /\ Len(Append(ignored[p], t)) = Len(ignored[p]) + 1
        /\ Len(ignored[p]) \in Nat
    BY <1>0, <2>2
  <2>5. Len(calls[p]) + 1 \in 1 .. MaxCalls
    <3> DEFINE n == Len(calls[p])
               i == Len(ignored[p])
    <3>1. n \in Nat /\ i \in Nat /\ MaxCalls \in Nat /\ n + i < MaxCalls
      BY <1>0, <2>3, <2>4, Bounds
    <3> HIDE DEF n, i
    <3>2. n + 1 \in 1 .. MaxCalls
      BY <3>1
    <3> QED  BY <3>2 DEF n
  <2>6. CASE /\ tracked' = tracked \union {p}
             /\ calls' = [calls EXCEPT ![p] = Append(calls[p], t)]
             /\ now' = [now EXCEPT ![th] = t]
             /\ made' = [made EXCEPT ![th] = Len(calls[p]) + 1]
             /\ pc' = [pc EXCEPT ![th] = "check"]
             /\ UNCHANGED ignored
    <3>1. /\ calls' \in [Pids -> Seq(BootTime .. MaxTime)]
          /\ \A o \in Pids : Len(calls'[o]) + Len(ignored[o]) <= MaxCalls
      BY <1>0, <2>3, <2>4, <2>6, Bounds DEF Base
    <3>2. /\ made' \in [Threads -> 0 .. MaxCalls]
          /\ \A o \in Threads : pc'[o] # "idle" => made'[o] >= 1
      BY <2>5, <2>6 DEF Base
    <3>3. /\ pc' \in [Threads -> Counting \union {"idle", "compare"}]
          /\ build' = "register" =>
               \A o \in Threads : pc'[o] \notin {"reset_count", "compare"}
      BY <2>3, <2>6 DEF Base, Counting
    <3>4. /\ now' \in [Threads -> 0 .. MaxTime] /\ tracked' \subseteq Pids
          /\ clock' \in BootTime .. MaxTime
      BY <1>0, <2>1, <2>2, <2>6 DEF Base
    <3> QED  BY <2>3, <2>6, <3>1, <3>2, <3>3, <3>4 DEF Base
  <2>7. CASE /\ ignored' = [ignored EXCEPT ![p] = Append(ignored[p], t)]
             /\ UNCHANGED <<tracked, calls, now, made, pc>>
    <3>1. /\ ignored' \in [Pids -> Seq(BootTime .. MaxTime)]
          /\ \A o \in Pids : Len(calls[o]) + Len(ignored'[o]) <= MaxCalls
      BY <1>0, <2>3, <2>4, <2>7, Bounds DEF Base
    <3> QED  BY <2>1, <2>2, <2>3, <2>7, <3>1 DEF Base
  <2> QED  BY <2>1, <2>6, <2>7
<1>2. CASE Check(th)
  <2>1. /\ pc[th] = "check"
        /\ \E x \in {"load", "reset_count", "reset_start"} :
             /\ pc' = [pc EXCEPT ![th] = x]
             /\ build = "register" => x # "reset_count"
        /\ UNCHANGED <<build, clock, entry, now, reg, made, history>>
    BY <1>2 DEF Check, Base
  <2> QED  BY <2>1 DEF Base, Counting, entry, history
<1>3. CASE ResetCount(th)
  BY <1>3 DEF ResetCount, Base, Counting, history
<1>4. CASE ResetStart(th)
  <2>1. now[th] \in 0 .. MaxTime /\ 0 \in 0 .. MaxCalls
    BY Bounds DEF Base
  <2> QED  BY <1>0, <1>4, <2>1 DEF ResetStart, Base, Counting, history
<1>5. CASE Load(th)
  <2>1. count[ProcOf[th]] \in 0 .. MaxCalls
    <3> DEFINE p == ProcOf[th]
               n == Len(calls[p])
               i == Len(ignored[p])
               c == count[p]
    <3>1. c \in Nat /\ c <= Stored(p) /\ n + i <= MaxCalls /\ i \in Nat
      BY <1>0 DEF CountsOK, Base
    <3>2. /\ Stored(p) \in Int /\ Stored(p) <= n /\ n \in Nat
          /\ MaxCalls \in Nat
      BY <1>0, StoredType, Bounds
    <3> HIDE DEF p, n, i, c
    <3>3. c \in 0 .. MaxCalls
      BY <3>1, <3>2
    <3> QED  BY <3>3 DEF c, p
  <2> QED  BY <1>0, <1>5, <2>1 DEF Load, Base, Counting, entry, history
<1>6. CASE Store(th)
  <2>1. /\ pc[th] = "store"
        /\ \/ build = "memory" /\ pc' = [pc EXCEPT ![th] = "compare"]
           \/ build # "memory" /\ pc' = [pc EXCEPT ![th] = "idle"]
        /\ UNCHANGED <<build, clock, tracked, windowStart, now, reg, made, history>>
    BY <1>6 DEF Store
  <2> QED  BY <2>1 DEF Base, history
<1>7. CASE Compare(th)
  BY <1>7 DEF Compare, Base, entry, history
<1> QED  BY <1>1, <1>2, <1>3, <1>4, <1>5, <1>6, <1>7 DEF Step

-----------------------------------------------------------------------------
(* Only the store of a run changes a number of stored calls.               *)
LEMMA OthersKeepStored ==
  ASSUME Base, NEW th \in Threads, Step(th), ~Store(th)
  PROVE  \A p \in Pids : Stored(p)' = Stored(p) /\ Len(calls'[p]) >= Len(calls[p])
<1>0. \A p \in Pids : Len(calls[p]) \in Nat
  BY DEF Base
<1>1. CASE Enter(th)
  <2> DEFINE p == ProcOf[th]
  <2>1. PICK t \in clock .. MaxTime :
          \/ /\ calls' = [calls EXCEPT ![p] = Append(calls[p], t)]
             /\ pc' = [pc EXCEPT ![th] = "check"]
          \/ UNCHANGED <<calls, pc>>
    BY <1>1, Zenon DEF Enter
  <2>2. t \in BootTime .. MaxTime /\ pc[th] = "idle"
    BY <1>1, <2>1, Bounds DEF Base, Enter, Running
  <2>3. CASE UNCHANGED <<calls, pc>>
    BY <1>0, <2>3 DEF Stored, Active
  <2> QED  BY <2>1, <2>2, <2>3, EnterKeepsStored
<1>2. CASE Check(th) \/ ResetCount(th) \/ ResetStart(th) \/ Load(th)
  <2>1. PICK x \in Counting : pc' = [pc EXCEPT ![th] = x]
    BY <1>2 DEF Check, ResetCount, ResetStart, Load, Counting
  <2>2. pc[th] \in Counting /\ UNCHANGED calls
    BY <1>2 DEF Check, ResetCount, ResetStart, Load, Counting, history
  <2>3. \A p \in Pids : Stored(p)' = Stored(p)
    BY <2>1, <2>2, InsideKeepsStored
  <2>4. \A p \in Pids : Len(calls'[p]) >= Len(calls[p])
    BY <1>0, <2>2
  <2> QED  BY <2>3, <2>4
<1>3. CASE Compare(th)
  <2>1. pc' = [pc EXCEPT ![th] = "idle"] /\ pc[th] = "compare" /\ UNCHANGED calls
    BY <1>3 DEF Compare, history
  <2>2. \A o \in Threads : pc'[o] \in Counting <=> pc[o] \in Counting
    BY <2>1 DEF Base, Counting
  <2>3. \A p : Active(p)' = Active(p)
    BY <2>2 DEF Active
  <2> QED  BY <1>0, <2>1, <2>3 DEF Stored
<1> QED  BY <1>1, <1>2, <1>3 DEF Step

(* The store of a run counts its call.                                     *)
LEMMA StoreIs ==
  ASSUME Base, NEW th \in Threads, Store(th)
  PROVE  /\ Stored(ProcOf[th])' = Stored(ProcOf[th]) + 1
         /\ Stored(ProcOf[th]) + 1 <= Len(calls[ProcOf[th]])
         /\ \A p \in Pids \ {ProcOf[th]} : Stored(p)' = Stored(p)
         /\ \A o \in Threads : pc'[o] = "store" <=> o # th /\ pc[o] = "store"
<1>1. /\ pc[th] = "store" /\ UNCHANGED calls
      /\ \E x \in {"idle", "compare"} : pc' = [pc EXCEPT ![th] = x]
  BY DEF Store, history
<1>2. "store" \in Counting /\ "idle" \notin Counting /\ "compare" \notin Counting
  BY DEF Counting
<1>3. \A o \in Threads : pc'[o] = "store" <=> o # th /\ pc[o] = "store"
  BY <1>1 DEF Base
<1> QED  BY <1>1, <1>2, <1>3, StoreAdds

(* A step keeps CountsOK.                                                  *)
LEMMA KeepsCounts ==
  ASSUME Base, CountsOK, NEW th \in Threads, Step(th)
  PROVE  CountsOK'
<1> DEFINE q == ProcOf[th]
<1>0. /\ q \in Pids /\ count[q] \in Nat /\ reg[th] \in Nat
      /\ \A p \in Pids : Stored(p) \in Int
  BY Bounds, StoredType DEF Base, CountsOK
<1>1. CASE Enter(th) \/ Check(th) \/ Compare(th)
  <2>1. \A p \in Pids : Stored(p)' = Stored(p)
    BY <1>1, OthersKeepStored DEF Enter, Check, Compare, Store, Running
  <2>2. \A o \in Threads : pc'[o] = "store" => pc[o] = "store"
    BY <1>1 DEF Enter, Check, Compare, Base
  <2>3. UNCHANGED <<count, reg>>
    BY <1>1 DEF Enter, Check, Compare, entry
  <2> QED  BY <2>1, <2>2, <2>3, Bounds DEF CountsOK
<1>2. CASE ResetCount(th)
  <2>1. \A p \in Pids : Stored(p)' = Stored(p)
    BY <1>2, OthersKeepStored DEF ResetCount, Store
  <2>2. count' = [count EXCEPT ![q] = 0] /\ UNCHANGED reg
    BY <1>2 DEF ResetCount
  <2>3. \A o \in Threads : pc'[o] = "store" => pc[o] = "store"
    BY <1>2 DEF ResetCount, Base
  <2>4. 0 <= Stored(q)
    BY <1>0 DEF CountsOK
  <2>5. count' \in [Pids -> Nat] /\ \A p \in Pids : count'[p] <= Stored(p)'
    BY <1>0, <2>1, <2>2, <2>4 DEF CountsOK
  <2> QED  BY <2>1, <2>2, <2>3, <2>5, Bounds DEF CountsOK
<1>3. CASE ResetStart(th) \/ Load(th)
  <2>1. \A p \in Pids : Stored(p)' = Stored(p)
    BY <1>3, OthersKeepStored DEF ResetStart, Load, Store
  <2>2. /\ UNCHANGED count /\ reg' = [reg EXCEPT ![th] = reg'[th]]
        /\ reg'[th] \in {0, count[q]}
    BY <1>3 DEF ResetStart, Load, entry, Base
  <2>3. reg'[th] <= Stored(q)
    BY <1>0, <2>2 DEF CountsOK
  <2>4. \A o \in Threads \ {th} : /\ pc'[o] = "store" => pc[o] = "store"
                                  /\ reg'[o] = reg[o]
    BY <1>3 DEF ResetStart, Load, Base
  <2>5. \A o \in Threads : pc'[o] = "store" => reg'[o] <= Stored(ProcOf[o])'
    BY <2>1, <2>3, <2>4, Bounds DEF CountsOK
  <2> QED  BY <2>1, <2>2, <2>5 DEF CountsOK
<1>4. CASE Store(th)
  <2>1. /\ Stored(q)' = Stored(q) + 1
        /\ \A p \in Pids \ {q} : Stored(p)' = Stored(p)
        /\ \A o \in Threads : pc'[o] = "store" <=> o # th /\ pc[o] = "store"
    BY <1>4, StoreIs
  <2>2. /\ count' = [count EXCEPT ![q] = reg[th] + 1] /\ UNCHANGED reg
        /\ pc[th] = "store"
    BY <1>4 DEF Store
  <2>3. reg[th] <= Stored(q)
    BY <2>2 DEF CountsOK
  <2>4. count' \in [Pids -> Nat] /\ \A p \in Pids : count'[p] <= Stored(p)'
    <3>1. reg[th] + 1 \in Nat /\ reg[th] + 1 <= Stored(q)'
      BY <1>0, <2>1, <2>3
    <3> QED  BY <1>0, <2>1, <2>2, <3>1 DEF CountsOK
  <2>5. ASSUME NEW o \in Threads, pc'[o] = "store"
        PROVE  reg'[o] <= Stored(ProcOf[o])'
    <3>1. reg[o] \in Nat /\ ProcOf[o] \in Pids /\ reg[o] <= Stored(ProcOf[o])
      BY <2>1, <2>5, Bounds DEF CountsOK, Base
    <3>2. Stored(ProcOf[o])' \in {Stored(ProcOf[o]), Stored(ProcOf[o]) + 1}
      BY <2>1, <3>1
    <3> QED  BY <1>0, <2>2, <3>1, <3>2
  <2> QED  BY <2>4, <2>5 DEF CountsOK
<1> QED  BY <1>1, <1>2, <1>3, <1>4 DEF Step

-----------------------------------------------------------------------------
(* A comparison adds at most one alert, and only at the threshold.         *)
LEMMA AlertingIs ==
  ASSUME alerts \subseteq [pid : Pids, call : 1 .. MaxCalls], IsFiniteSet(alerts),
         NEW th \in Threads, made[th] \in 1 .. MaxCalls, NEW c, Alerting(th, c)
  PROVE  /\ alerts' \subseteq [pid : Pids, call : 1 .. MaxCalls]
         /\ IsFiniteSet(alerts') /\ (c # Thresh => alerts' = alerts)
         /\ \A p \in Pids \ {ProcOf[th]} : AlertsOf(p)' = AlertsOf(p)
         /\ Cardinality(AlertsOf(ProcOf[th])') <= Cardinality(AlertsOf(ProcOf[th])) + 1
<1> DEFINE q == ProcOf[th]
           a == [pid |-> q, call |-> made[th]]
<1>0. a \in [pid : Pids, call : 1 .. MaxCalls] /\ a.pid = q
  BY Bounds
<1>1. IsFiniteSet(AlertsOf(q)) /\ Cardinality(AlertsOf(q)) \in Nat
  BY FS_Subset, FS_CardinalityType DEF AlertsOf
<1>2. CASE c # Thresh
  <2>1. alerts' = alerts
    BY <1>2 DEF Alerting
  <2> QED  BY <1>1, <2>1 DEF AlertsOf
<1>3. CASE c = Thresh
  <2>1. alerts' = alerts \union {a}
    BY <1>3 DEF Alerting
  <2> HIDE DEF a
  <2>2. IsFiniteSet(alerts')
    BY <2>1, FS_AddElement
  <2>3. \A p \in Pids \ {q} : AlertsOf(p)' = AlertsOf(p)
    BY <1>0, <2>1 DEF AlertsOf
  <2>4. AlertsOf(q)' = AlertsOf(q) \union {a}
    BY <1>0, <2>1 DEF AlertsOf
  <2>5. Cardinality(AlertsOf(q) \union {a}) <= Cardinality(AlertsOf(q)) + 1
    <3> DEFINE A == AlertsOf(q)
               n == Cardinality(A)
    <3>1. Cardinality(A \union {a}) \in {n, n + 1}
      BY <1>1, FS_AddElement
    <3> HIDE DEF A, n
    <3>2. n \in Nat
      BY <1>1 DEF n, A
    <3>3. Cardinality(A \union {a}) <= n + 1
      BY <3>1, <3>2
    <3> QED  BY <3>3 DEF A, n
  <2> QED  BY <1>0, <1>3, <2>1, <2>2, <2>3, <2>4, <2>5
<1> QED  BY <1>2, <1>3

(* What a count contributes is below the threshold, and more for a larger. *)
LEMMA TowardsIs ==
  ASSUME NEW c \in Nat
  PROVE  /\ Towards(c) \in Nat /\ Towards(0) = 0
         /\ Towards(c + 1) <= Towards(c) + 1
         /\ c + 1 = Thresh => Towards(c) = Thresh - 1 /\ Towards(c + 1) = Thresh - 1
BY Bounds DEF Towards

(* How many alerts a process has raised is a number.                       *)
LEMMA AlertsCounted ==
  ASSUME AlertsOK, NEW p
  PROVE  Cardinality(AlertsOf(p)) \in Nat
BY FS_Subset, FS_CardinalityType DEF AlertsOK, AlertsOf

(* A step that submits nothing keeps AlertsOK.                             *)
LEMMA QuietKeepsAlerts ==
  ASSUME Base, CountsOK, AlertsOK, NEW th \in Threads, Step(th),
         ~Store(th), ~Compare(th)
  PROVE  AlertsOK'
<1> DEFINE q == ProcOf[th]
<1>1. UNCHANGED <<alerts, build>>
  BY DEF Step, Enter, Check, ResetCount, ResetStart, Load
<1>2. \A p \in Pids : /\ Stored(p)' = Stored(p) /\ Len(calls'[p]) >= Len(calls[p])
                      /\ Stored(p) \in Int /\ Len(calls[p]) \in Nat
                      /\ Len(calls'[p]) \in Nat /\ AlertsOf(p)' = AlertsOf(p)
                      /\ Cardinality(AlertsOf(p)) \in Nat
  <2>1. \A p \in Pids : Len(calls'[p]) \in Nat
    BY KeepsBase DEF Base
  <2> QED  BY <1>1, <2>1, OthersKeepStored, StoredType, AlertsCounted DEF AlertsOf
<1>3. \A p \in Pids : AlertsOf(p)' # {} => Len(calls'[p]) >= Thresh
  BY <1>2, Bounds DEF AlertsOK
<1>4. ASSUME build = "register"
      PROVE  /\ UNCHANGED count
             /\ \A o \in Threads : pc'[o] = "store" =>
                  \/ pc[o] = "store" /\ reg'[o] = reg[o]
                  \/ reg'[o] \in {0, count[ProcOf[o]]}
  <2>1. ~ResetCount(th)
    BY <1>4 DEF ResetCount, Base
  <2> QED  BY <2>1 DEF Step, Enter, Check, ResetStart, Load, entry, Base
<1>5. ASSUME build = "register", NEW p \in Pids
      PROVE  /\ Cardinality(AlertsOf(p)') + Towards(count'[p]) <= Stored(p)'
             /\ AlertsOf(p)' # {} =>
                  Cardinality(AlertsOf(p)') + Thresh - 1 <= Stored(p)'
  BY <1>2, <1>4, <1>5 DEF AlertsOK
<1>6. ASSUME build = "register", NEW o \in Threads, pc'[o] = "store"
      PROVE  Cardinality(AlertsOf(ProcOf[o])') + Towards(reg'[o]) <= Stored(ProcOf[o])'
  <2>0. ProcOf[o] \in Pids /\ count[ProcOf[o]] \in Nat
    BY Bounds DEF CountsOK
  <2> DEFINE p == ProcOf[o]
             n == Cardinality(AlertsOf(p))
  <2>1. n + Towards(count[p]) <= Stored(p) /\ n \in Nat /\ Stored(p) \in Int
    BY <1>2, <1>6, <2>0 DEF AlertsOK
  <2>2. Towards(count[p]) \in Nat /\ Towards(0) = 0
    BY <2>0, TowardsIs
  <2>3. n + Towards(0) <= Stored(p)
    BY <2>1, <2>2
  <2>4. pc[o] = "store" => n + Towards(reg[o]) <= Stored(p)
    BY <1>6 DEF AlertsOK
  <2>5. n + Towards(reg'[o]) <= Stored(p)
    BY <1>4, <1>6, <2>1, <2>3, <2>4
  <2> QED  BY <1>2, <2>0, <2>5
<1> QED  BY <1>1, <1>3, <1>5, <1>6 DEF AlertsOK

(* A store compares what it stores, in the register build.                 *)
LEMMA StoreKeepsAlerts ==
  ASSUME Base, CountsOK, AlertsOK, NEW th \in Threads, Store(th)
  PROVE  AlertsOK'
<1> DEFINE q == ProcOf[th]
           n(p) == Cardinality(AlertsOf(p))
<1>0. /\ pc[th] = "store" /\ UNCHANGED <<build, reg, made, calls>>
      /\ count' = [count EXCEPT ![q] = reg[th] + 1]
      /\ IF build = "memory" THEN UNCHANGED alerts ELSE Alerting(th, reg[th] + 1)
  BY DEF Store, history
<1>1. /\ q \in Pids /\ reg[th] \in Nat /\ made[th] \in 1 .. MaxCalls
      /\ \A p \in Pids : count[p] \in Nat /\ Len(calls[p]) \in Nat
      /\ \A p \in Pids : Stored(p) \in Int /\ n(p) \in Nat
  <2>1. /\ reg[th] \in 0 .. MaxCalls /\ made[th] \in 0 .. MaxCalls /\ made[th] >= 1
    BY <1>0 DEF Base
  <2>2. \A p \in Pids : /\ count[p] \in Nat /\ Len(calls[p]) \in Nat
                        /\ Stored(p) \in Int /\ n(p) \in Nat
    BY StoredType, AlertsCounted DEF CountsOK
  <2> QED  BY <2>1, <2>2, Bounds
<1>2. /\ Stored(q)' = Stored(q) + 1 /\ Stored(q) + 1 <= Len(calls[q])
      /\ \A p \in Pids \ {q} : Stored(p)' = Stored(p)
      /\ \A o \in Threads : pc'[o] = "store" <=> o # th /\ pc[o] = "store"
  BY StoreIs
<1>3. CASE build = "memory"
  <2>1. build' # "register" /\ UNCHANGED <<alerts, calls>>
    BY <1>0, <1>3
  <2> QED  BY <2>1 DEF AlertsOK, AlertsOf
<1>4. CASE build # "memory"
  <2> DEFINE c == reg[th] + 1
  <2>1. /\ build = "register" /\ Alerting(th, c)
        /\ alerts \subseteq [pid : Pids, call : 1 .. MaxCalls] /\ IsFiniteSet(alerts)
    BY <1>0, <1>4, RaceAssumption DEF Base, AlertsOK
  <2>2. /\ alerts' \subseteq [pid : Pids, call : 1 .. MaxCalls]
        /\ IsFiniteSet(alerts') /\ (c # Thresh => alerts' = alerts)
        /\ \A p \in Pids \ {q} : AlertsOf(p)' = AlertsOf(p)
        /\ Cardinality(AlertsOf(q)') <= n(q) + 1
    BY <1>1, <2>1, AlertingIs
  <2>3. /\ n(q) + Towards(reg[th]) <= Stored(q)
        /\ n(q) + Towards(count[q]) <= Stored(q)
        /\ AlertsOf(q) # {} => n(q) + Thresh - 1 <= Stored(q)
        /\ AlertsOf(q) # {} => Len(calls[q]) >= Thresh
    BY <1>0, <1>1, <2>1 DEF AlertsOK
  <2>4. /\ Towards(reg[th]) \in Nat /\ Towards(c) \in Nat
        /\ Towards(c) <= Towards(reg[th]) + 1
        /\ c = Thresh => Towards(reg[th]) = Thresh - 1 /\ Towards(c) = Thresh - 1
    <3>1. reg[th] \in Nat /\ c \in Nat
      BY <1>1
    <3>2. Towards(c) \in Nat
      BY <3>1, TowardsIs
    <3> QED  BY <3>1, <3>2, TowardsIs
  <2>5. IsFiniteSet(AlertsOf(q)') /\ Cardinality(AlertsOf(q)') \in Nat
    BY <2>2, FS_Subset, FS_CardinalityType DEF AlertsOf
  <2> HIDE DEF c
  <2>6. /\ Cardinality(AlertsOf(q)') + Towards(c) <= Stored(q)'
        /\ Cardinality(AlertsOf(q)') <= n(q) + 1
        /\ AlertsOf(q)' # {} => Cardinality(AlertsOf(q)') + Thresh - 1 <= Stored(q)'
        /\ AlertsOf(q)' # {} => Len(calls[q]) >= Thresh
    <3> DEFINE m == Cardinality(AlertsOf(q)')
    <3>0. /\ m \in Nat /\ m <= n(q) + 1 /\ n(q) \in Nat /\ Thresh \in Nat
          /\ Stored(q) \in Int /\ Len(calls[q]) \in Nat
      BY <1>1, <2>2, <2>5, Bounds
    <3>1. CASE c # Thresh
      <4>1. m = n(q) /\ (AlertsOf(q)' # {} => AlertsOf(q) # {})
        BY <2>2, <3>1 DEF AlertsOf
      <4> HIDE DEF m, n
      <4> QED  BY <1>2, <2>3, <2>4, <3>0, <4>1 DEF m
    <3>2. CASE c = Thresh
      <4> HIDE DEF m, n
      <4> QED  BY <1>2, <2>3, <2>4, <3>0, <3>2 DEF m
    <3> QED  BY <3>1, <3>2
  <2>7. ASSUME NEW p \in Pids
        PROVE  /\ AlertsOf(p)' # {} => Len(calls'[p]) >= Thresh
               /\ Cardinality(AlertsOf(p)') + Towards(count'[p]) <= Stored(p)'
               /\ AlertsOf(p)' # {} =>
                    Cardinality(AlertsOf(p)') + Thresh - 1 <= Stored(p)'
    <3>1. CASE p = q
      <4>1. count'[q] = c
        BY <1>0, <1>1 DEF CountsOK, c
      <4> QED  BY <1>0, <2>6, <3>1, <4>1
    <3>2. CASE p # q
      <4>1. count'[p] = count[p]
        BY <1>0, <3>2 DEF CountsOK
      <4> QED  BY <1>0, <1>2, <2>1, <2>2, <3>2, <4>1 DEF AlertsOK
    <3> QED  BY <3>1, <3>2
  <2>8. ASSUME NEW o \in Threads, pc'[o] = "store"
        PROVE  Cardinality(AlertsOf(ProcOf[o])') + Towards(reg'[o]) <= Stored(ProcOf[o])'
    <3>1. pc[o] = "store" /\ reg'[o] = reg[o] /\ ProcOf[o] \in Pids /\ reg[o] \in Nat
      BY <1>0, <1>2, <2>8, Bounds DEF Base
    <3>2. n(ProcOf[o]) + Towards(reg[o]) <= Stored(ProcOf[o])
      BY <2>1, <3>1 DEF AlertsOK
    <3>3. CASE ProcOf[o] = q
      <4> DEFINE m == Cardinality(AlertsOf(q)')
      <4>1. /\ m \in Nat /\ m <= n(q) + 1 /\ n(q) \in Nat
            /\ Stored(q) \in Int /\ Towards(reg[o]) \in Nat
        BY <1>1, <2>2, <2>5, <3>1, TowardsIs
      <4>2. n(q) + Towards(reg[o]) <= Stored(q)
        BY <3>2, <3>3
      <4> HIDE DEF m, n
      <4>3. m + Towards(reg[o]) <= Stored(q) + 1
        BY <4>1, <4>2
      <4> QED  BY <1>2, <3>1, <3>3, <4>3 DEF m
    <3>4. CASE ProcOf[o] # q
      BY <1>2, <2>2, <3>1, <3>2, <3>4
    <3> QED  BY <3>3, <3>4
  <2> QED  BY <2>2, <2>7, <2>8 DEF AlertsOK
<1> QED  BY <1>3, <1>4

(* A comparison with the entry finds no more than was stored there.        *)
LEMMA CompareKeepsAlerts ==
  ASSUME Base, CountsOK, AlertsOK, NEW th \in Threads, Compare(th)
  PROVE  AlertsOK'
<1> DEFINE q == ProcOf[th]
<1>0. /\ pc[th] = "compare" /\ UNCHANGED <<build, calls>> /\ Alerting(th, count[q])
      /\ alerts \subseteq [pid : Pids, call : 1 .. MaxCalls] /\ IsFiniteSet(alerts)
  BY DEF Compare, history, AlertsOK
<1>1. build' # "register"
  BY <1>0 DEF Base
<1>2. made[th] \in 1 .. MaxCalls /\ q \in Pids
  <2>1. made[th] \in 0 .. MaxCalls /\ made[th] >= 1
    BY <1>0 DEF Base
  <2> QED  BY <2>1, Bounds
<1>3. /\ alerts' \subseteq [pid : Pids, call : 1 .. MaxCalls]
      /\ IsFiniteSet(alerts') /\ (count[q] # Thresh => alerts' = alerts)
      /\ \A p \in Pids \ {q} : AlertsOf(p)' = AlertsOf(p)
  BY <1>0, <1>2, AlertingIs
<1>4. ASSUME NEW p \in Pids, AlertsOf(p)' # {} PROVE Len(calls'[p]) >= Thresh
  <2>1. CASE AlertsOf(p)' = AlertsOf(p)
    BY <1>0, <1>4, <2>1 DEF AlertsOK
  <2>2. CASE AlertsOf(p)' # AlertsOf(p)
    <3>1. p = q /\ count[p] = Thresh
      BY <1>3, <2>2 DEF AlertsOf
    <3>2. /\ count[p] <= Stored(p) /\ Stored(p) \in Int
          /\ Stored(p) <= Len(calls[p]) /\ Len(calls[p]) \in Nat
      BY StoredType DEF CountsOK
    <3> QED  BY <1>0, <3>1, <3>2, Bounds
  <2> QED  BY <2>1, <2>2
<1> QED  BY <1>1, <1>3, <1>4 DEF AlertsOK

-----------------------------------------------------------------------------
(* RaceOK is an invariant.                                                 *)
THEOREM RaceCorrect == Spec => []RaceOK
<1>1. Init => RaceOK
  <2> SUFFICES ASSUME Init PROVE RaceOK
      OBVIOUS
  <2>1. Base
    <3>1. \A p \in Pids : calls[p] = <<>> /\ ignored[p] = <<>>
      BY DEF Init
    <3> QED  BY <3>1, Bounds DEF Init, Base
  <2>2. \A p \in Pids : Active(p) = {} /\ Len(calls[p]) = 0
    BY DEF Init, Active, Counting
  <2>3. \A p \in Pids : Stored(p) = 0
    BY <2>2, FS_EmptySet DEF Stored
  <2>4. CountsOK
    BY <2>3 DEF Init, CountsOK
  <2>5. \A p : AlertsOf(p) = {}
    BY DEF Init, AlertsOf
  <2>6. Towards(0) = 0
    BY TowardsIs
  <2>7. AlertsOK
    <3>1. alerts = {} /\ IsFiniteSet(alerts) /\ Cardinality({}) = 0
      BY FS_EmptySet DEF Init
    <3>2. alerts \subseteq [pid : Pids, call : 1 .. MaxCalls]
      BY <3>1
    <3>3. \A p \in Pids : Cardinality(AlertsOf(p)) + Towards(count[p]) <= Stored(p)
      <4> TAKE p \in Pids
      <4>1. count[p] = 0
        BY DEF Init
      <4>2. Cardinality(AlertsOf(p)) = 0
        BY <2>5, <3>1
      <4>3. Towards(count[p]) = 0
        BY <2>6, <4>1
      <4> DEFINE m == Cardinality(AlertsOf(p))
                 t == Towards(count[p])
                 n == Stored(p)
      <4>4. m = 0 /\ t = 0 /\ n = 0
        BY <2>3, <4>2, <4>3
      <4> HIDE DEF m, t, n
      <4>5. m + t <= n
        BY <4>4
      <4> QED  BY <4>5 DEF m, t, n
    <3>4. \A th \in Threads : pc[th] # "store"
      BY DEF Init
    <3> QED  BY <2>5, <3>1, <3>2, <3>3, <3>4 DEF AlertsOK
  <2> QED  BY <2>1, <2>4, <2>7 DEF RaceOK
<1>2. RaceOK /\ [Next]_vars => RaceOK'
  <2> SUFFICES ASSUME RaceOK, [Next]_vars PROVE RaceOK'
      OBVIOUS
  <2>0. Base /\ CountsOK /\ AlertsOK
    BY DEF RaceOK
  <2>1. ASSUME NEW th \in Threads, Step(th) PROVE RaceOK'
    <3>1. AlertsOK'
      BY <2>0, <2>1, QuietKeepsAlerts, StoreKeepsAlerts, CompareKeepsAlerts
    <3> QED  BY <2>0, <2>1, <3>1, KeepsBase, KeepsCounts DEF RaceOK
  <2>2. CASE UNCHANGED vars
    <3>1. Base' /\ CountsOK' /\ AlertsOK'
      BY <2>0, <2>2
      DEF vars, Base, CountsOK, AlertsOK, Stored, Active, AlertsOf
    <3> QED  BY <3>1 DEF RaceOK
  <2> QED  BY <2>1, <2>2 DEF Next
<1> QED  BY <1>1, <1>2, PTL DEF Spec

(* The variables have their types, however the accesses race.              *)
THEOREM TypeCorrect == Spec => []TypeOK
<1>1. RaceOK => TypeOK
  <2> SUFFICES ASSUME RaceOK PROVE TypeOK
      OBVIOUS
  <2>0. Base /\ CountsOK /\ AlertsOK
    BY DEF RaceOK
  <2>1. ASSUME NEW p \in Pids PROVE count[p] \in 0 .. MaxCalls
    <3> DEFINE n == Len(calls[p])
               i == Len(ignored[p])
               c == count[p]
    <3>1. c \in Nat /\ c <= Stored(p) /\ n + i <= MaxCalls /\ i \in Nat
      BY <2>0 DEF CountsOK, Base
    <3>2. /\ Stored(p) \in Int /\ Stored(p) <= n /\ n \in Nat
          /\ MaxCalls \in Nat
      BY <2>0, StoredType, Bounds
    <3> HIDE DEF n, i, c
    <3>3. c \in 0 .. MaxCalls
      BY <3>1, <3>2
    <3> QED  BY <3>3 DEF c
  <2>2. count \in [Pids -> 0 .. MaxCalls]
    BY <2>0, <2>1 DEF CountsOK
  <2> QED  BY <2>0, <2>2 DEF Base, AlertsOK, Counting, TypeOK
<1> QED  BY <1>1, RaceCorrect, PTL

(* A process that alerts has made Thresh calls, whatever the races lose;   *)
(* and in the register build each alert takes a call of its own beyond     *)
(* them.                                                                   *)
THEOREM AlertsAreBounded == Spec => []AlertsBounded
<1>1. RaceOK => AlertsBounded
  <2> SUFFICES ASSUME RaceOK, NEW p \in Pids, AlertsOf(p) # {}
               PROVE  /\ Len(calls[p]) >= Thresh
                      /\ build = "register" =>
                           Cardinality(AlertsOf(p)) <= Len(calls[p]) - Thresh + 1
      BY DEF AlertsBounded
  <2>1. /\ Len(calls[p]) >= Thresh
        /\ build = "register" =>
             Cardinality(AlertsOf(p)) + Thresh - 1 <= Stored(p)
    BY DEF RaceOK, AlertsOK
  <2>2. /\ Stored(p) \in Int /\ Stored(p) <= Len(calls[p]) /\ Len(calls[p]) \in Nat
        /\ Cardinality(AlertsOf(p)) \in Nat
    BY StoredType, AlertsCounted DEF RaceOK
  <2> DEFINE m == Cardinality(AlertsOf(p))
             n == Len(calls[p])
  <2>3. build = "register" => m + Thresh - 1 <= Stored(p)
    BY <2>1
  <2>4. Stored(p) \in Int /\ Stored(p) <= n /\ n \in Nat /\ m \in Nat /\ Thresh \in Nat
    BY <2>2, Bounds
  <2> HIDE DEF m, n
  <2>5. build = "register" => m <= n - Thresh + 1
    BY <2>3, <2>4
  <2> QED  BY <2>1, <2>5 DEF m, n
<1> QED  BY <1>1, RaceCorrect, PTL

-----------------------------------------------------------------------------
(* The order of the natural numbers is well-founded.                       *)
LEMMA Descending == IsWellFoundedOn({p \in Nat \X Nat : p[1] < p[2]}, Nat)
BY NatLessThanWellFounded DEF OpToRel

(* Induction, with a set in the place of the property.                     *)
LEMMA Induction ==
  ASSUME NEW T \in SUBSET Nat, 0 \in T, \A n \in T : n + 1 \in T
  PROVE  T = Nat
<1> SUFFICES ASSUME Nat \ T # {} PROVE FALSE
    OBVIOUS
<1> DEFINE R == {p \in Nat \X Nat : p[1] < p[2]}
<1>1. IsWellFoundedOn(R, Nat)
  BY Descending
<1> HIDE DEF R
<1>2. PICK x \in Nat \ T : \A y \in Nat \ T : ~(<<y, x>> \in R)
  BY <1>1, WFMin
<1>3. x # 0 /\ x - 1 \in Nat
  BY <1>2
<1>4. <<x - 1, x>> \in R
  BY <1>3 DEF R
<1>5. x - 1 \in T
  BY <1>2, <1>3, <1>4
<1> QED  BY <1>2, <1>3, <1>5

-----------------------------------------------------------------------------
(* The heads of the first n calls: the recursive function of Heads.        *)
HeadRun(f, ts, n) ==
  f = [i \in 1 .. n |-> IF i = 1 THEN 1
                        ELSE IF ts[i] - ts[f[i - 1]] > Window THEN i ELSE f[i - 1]]

(* The next head after h, the head of the last of n calls.                 *)
NextHead(ts, n, t, h) ==
  IF n = 0 THEN 1 ELSE IF t - ts[h] > Window THEN n + 1 ELSE h

(* There are such functions, for any number of calls.                      *)
LEMMA HeadsExist ==
  ASSUME NEW ts, NEW n \in Nat
  PROVE  \E f : HeadRun(f, ts, n)
<1> DEFINE T == {m \in Nat : \E f : HeadRun(f, ts, m)}
<1>1. 0 \in T
  <2> DEFINE g == [i \in 1 .. 0 |-> 1]
  <2>1. HeadRun(g, ts, 0)
    BY DEF HeadRun
  <2> QED  BY <2>1
<1>2. ASSUME NEW m \in T PROVE m + 1 \in T
  <2>1. PICK f : HeadRun(f, ts, m)
    OBVIOUS
  <2> DEFINE g == [i \in 1 .. m + 1 |->
                     IF i = m + 1 THEN NextHead(ts, m, ts[i], f[m]) ELSE f[i]]
  <2>2. \A i \in 1 .. m :
          f[i] = IF i = 1 THEN 1
                 ELSE IF ts[i] - ts[f[i - 1]] > Window THEN i ELSE f[i - 1]
    BY <2>1 DEF HeadRun
  <2>3. \A i \in 1 .. m + 1 :
          g[i] = IF i = 1 THEN 1
                 ELSE IF ts[i] - ts[g[i - 1]] > Window THEN i ELSE g[i - 1]
    BY <2>2 DEF NextHead
  <2>4. HeadRun(g, ts, m + 1)
    BY <2>3 DEF HeadRun
  <2> QED  BY <2>4
<1>3. T = Nat
  <2> HIDE DEF T
  <2>1. T \in SUBSET Nat
    BY DEF T
  <2> QED  BY <1>1, <1>2, <2>1, Induction
<1> QED  BY <1>3

(* The head of a call is one of the calls up to it.                        *)
LEMMA HeadsInRange ==
  ASSUME NEW ts, NEW n \in Nat, NEW f, HeadRun(f, ts, n)
  PROVE  \A i \in 1 .. n : f[i] \in 1 .. i
<1> DEFINE T == {m \in Nat : \A i \in 1 .. n : i <= m => f[i] \in 1 .. i}
<1>0. \A i \in 1 .. n :
        f[i] = IF i = 1 THEN 1
               ELSE IF ts[i] - ts[f[i - 1]] > Window THEN i ELSE f[i - 1]
  BY DEF HeadRun
<1>1. 0 \in T
  OBVIOUS
<1>2. ASSUME NEW m \in T PROVE m + 1 \in T
  <2> SUFFICES ASSUME NEW i \in 1 .. n, i <= m + 1 PROVE f[i] \in 1 .. i
      OBVIOUS
  <2>1. i # 1 => i - 1 \in 1 .. n /\ i - 1 <= m
    OBVIOUS
  <2>2. i # 1 => f[i - 1] \in 1 .. i - 1
    BY <2>1
  <2> QED  BY <1>0, <2>2
<1>3. T = Nat
  <2> HIDE DEF T
  <2>1. T \in SUBSET Nat
    BY DEF T
  <2> QED  BY <1>1, <1>2, <2>1, Induction
<1> QED  BY <1>3

(* The heads of calls do not depend on the calls that follow.              *)
LEMMA HeadsAgree ==
  ASSUME NEW ts, NEW n \in Nat, NEW f, HeadRun(f, ts, n),
         NEW us, NEW m \in Nat, NEW g, HeadRun(g, us, m), n <= m,
         \A i \in 1 .. n : us[i] = ts[i]
  PROVE  \A i \in 1 .. n : g[i] = f[i]
<1> DEFINE T == {k \in Nat : \A i \in 1 .. n : i <= k => g[i] = f[i]}
<1>0. \A i \in 1 .. n :
        /\ f[i] = IF i = 1 THEN 1
                  ELSE IF ts[i] - ts[f[i - 1]] > Window THEN i ELSE f[i - 1]
        /\ g[i] = IF i = 1 THEN 1
                  ELSE IF us[i] - us[g[i - 1]] > Window THEN i ELSE g[i - 1]
  BY DEF HeadRun
<1>1. 0 \in T
  OBVIOUS
<1>2. ASSUME NEW k \in T PROVE k + 1 \in T
  <2> SUFFICES ASSUME NEW i \in 1 .. n, i <= k + 1 PROVE g[i] = f[i]
      OBVIOUS
  <2>1. i # 1 => i - 1 \in 1 .. n /\ i - 1 <= k
    OBVIOUS
  <2>2. i # 1 => g[i - 1] = f[i - 1] /\ f[i - 1] \in 1 .. n
    BY <2>1, HeadsInRange
  <2> QED  BY <1>0, <2>2
<1>3. T = Nat
  <2> HIDE DEF T
  <2>1. T \in SUBSET Nat
    BY DEF T
  <2> QED  BY <1>1, <1>2, <2>1, Induction
<1> QED  BY <1>3

(* Heads is made of such a function.                                       *)
LEMMA HeadsAre ==
  ASSUME NEW ts \in Seq(Nat)
  PROVE  \E f : /\ HeadRun(f, ts, Len(ts))
                /\ Heads(ts) = [i \in 1 .. Len(ts) |-> [ts |-> ts[i], head |-> f[i]]]
<1> DEFINE f == CHOOSE g : HeadRun(g, ts, Len(ts))
<1>1. HeadRun(f, ts, Len(ts))
  <2>1. Len(ts) \in Nat
    OBVIOUS
  <2>2. \E g : HeadRun(g, ts, Len(ts))
    BY <2>1, HeadsExist, Zenon
  <2> QED  BY <2>2, Zenon
<1>2. Heads(ts) = [i \in 1 .. Len(ts) |-> [ts |-> ts[i], head |-> f[i]]]
  BY DEF Heads, HeadRun
<1> HIDE DEF f
<1> QED  BY <1>1, <1>2

(* Each further call adds its own head.                                    *)
LEMMA HeadsAppend ==
  ASSUME NEW ts \in Seq(Nat), NEW t \in Nat
  PROVE  /\ Heads(ts) \in Seq([ts : Nat, head : Nat]) /\ Len(Heads(ts)) = Len(ts)
         /\ \A i \in 1 .. Len(ts) : Heads(ts)[i].head \in 1 .. i
         /\ Heads(Append(ts, t)) =
              Append(Heads(ts),
                     [ts |-> t,
                      head |-> NextHead(ts, Len(ts), t, Heads(ts)[Len(ts)].head)])
<1> DEFINE n == Len(ts)
           us == Append(ts, t)
<1>0. /\ n \in Nat /\ us \in Seq(Nat) /\ Len(us) = n + 1 /\ us[n + 1] = t
      /\ \A i \in 1 .. n : us[i] = ts[i] /\ ts[i] \in Nat
  OBVIOUS
<1> HIDE DEF us, n
<1>1. PICK f : /\ HeadRun(f, ts, n)
               /\ Heads(ts) = [i \in 1 .. n |-> [ts |-> ts[i], head |-> f[i]]]
  BY HeadsAre DEF n
<1>2. PICK g : /\ HeadRun(g, us, n + 1)
               /\ Heads(us) = [i \in 1 .. n + 1 |-> [ts |-> us[i], head |-> g[i]]]
  BY <1>0, HeadsAre
<1>3. \A i \in 1 .. n : f[i] \in 1 .. i
  BY <1>0, <1>1, HeadsInRange
<1>4. \A i \in 1 .. n : g[i] = f[i]
  <2>1. n \in Nat /\ n + 1 \in Nat /\ n <= n + 1
    BY <1>0
  <2>2. \A i \in 1 .. n : us[i] = ts[i]
    BY <1>0
  <2>3. HeadRun(f, ts, n) /\ HeadRun(g, us, n + 1)
    BY <1>1, <1>2
  <2> QED  BY <2>1, <2>2, <2>3, HeadsAgree
<1>5. \A i \in 1 .. n : /\ Heads(ts)[i] = [ts |-> ts[i], head |-> f[i]]
                         /\ Heads(ts)[i].head = f[i]
  BY <1>1
<1>6. Heads(ts) \in Seq([ts : Nat, head : Nat]) /\ Len(Heads(ts)) = n
  BY <1>0, <1>1, <1>3
<1>7. g[n + 1] = NextHead(ts, n, t, f[n])
  <2>1. g[n + 1] = IF n + 1 = 1 THEN 1
                   ELSE IF us[n + 1] - us[g[n]] > Window THEN n + 1 ELSE g[n]
    <3>1. n + 1 \in 1 .. n + 1 /\ (n + 1) - 1 = n
      BY <1>0
    <3> QED  BY <1>2, <3>1 DEF HeadRun
  <2>2. n # 0 => g[n] = f[n] /\ f[n] \in 1 .. n /\ us[f[n]] = ts[f[n]]
    BY <1>0, <1>3, <1>4
  <2> QED  BY <1>0, <2>1, <2>2 DEF NextHead
<1>8. Heads(us) = Append(Heads(ts), [ts |-> t, head |-> NextHead(ts, n, t, f[n])])
  <2> DEFINE e == [ts |-> t, head |-> NextHead(ts, n, t, f[n])]
             hs == Append(Heads(ts), e)
  <2>1. /\ Len(hs) = n + 1 /\ hs[n + 1] = e /\ hs = [i \in 1 .. n + 1 |-> hs[i]]
        /\ \A i \in 1 .. n : hs[i] = Heads(ts)[i]
    BY <1>0, <1>6
  <2> HIDE DEF hs
  <2>2. ASSUME NEW i \in 1 .. n + 1 PROVE Heads(us)[i] = hs[i]
    <3>1. Heads(us)[i] = [ts |-> us[i], head |-> g[i]]
      BY <1>2
    <3>2. CASE i = n + 1
      <4>1. us[i] = t /\ g[i] = NextHead(ts, n, t, f[n])
        BY <1>0, <1>7, <3>2
      <4> QED  BY <2>1, <3>1, <3>2, <4>1
    <3>3. CASE i # n + 1
      <4>1. i \in 1 .. n
        BY <1>0, <3>3
      <4>2. us[i] = ts[i] /\ g[i] = f[i]
        BY <1>0, <1>4, <4>1
      <4>3. hs[i] = [ts |-> ts[i], head |-> f[i]]
        BY <1>5, <2>1, <4>1
      <4> QED  BY <3>1, <4>2, <4>3
    <3> QED  BY <3>2, <3>3
  <2> QED  BY <1>2, <2>1, <2>2 DEF hs
<1>9. n # 0 => Heads(ts)[n].head = f[n]
  <2>1. n # 0 => n \in 1 .. n
    BY <1>0
  <2> QED  BY <1>5, <2>1
<1>10. NextHead(ts, n, t, Heads(ts)[n].head) = NextHead(ts, n, t, f[n])
  BY <1>9 DEF NextHead
<1>11. \A i \in 1 .. n : Heads(ts)[i].head \in 1 .. i
  BY <1>3, <1>5
<1> QED  BY <1>6, <1>8, <1>10, <1>11, Zenon DEF us, n
-----------------------------------------------------------------------------
(* The times that the runs of single-threaded processes have read.         *)
Times == {BootTime} \union UNION {ToSet(calls[p] \o ignored[p]) : p \in Solo}

(* What the entry of a single-threaded process is, or will be when the run *)
(* under way ends, describes the window of its last call.                  *)
Served(p) ==
  LET n == Len(calls[p])
      h == Heads(calls[p])[n].head
  IN /\ WillCount(p) = IF n = 0 THEN 0 ELSE n - h + 1
     /\ WillStart(p) = IF n = 0 THEN 0 ELSE calls[p][h]
     /\ build = "memory" /\ pc[Runner(p)] = "reset_start" => count[p] = 0

SoloOK ==
  /\ \A t \in Times : t <= clock
  /\ \E m \in Times : \A t \in Times : t <= m
  /\ \A p \in Solo : Served(p)

(* What a step may leave a single-threaded process with.                   *)
AlertCalls(p) == {a.call : a \in AlertsOf(p)} \union WillAlert(p)

Kept(p) ==
  /\ WillCount(p)' = WillCount(p) /\ WillStart(p)' = WillStart(p)
  /\ AlertCalls(p)' = AlertCalls(p)
  /\ calls'[p] = calls[p] /\ ignored'[p] = ignored[p]

(* The variables that decide it, those of its thread included.             *)
Unmoved(p) ==
  LET th == Runner(p)
  IN /\ pc'[th] = pc[th] /\ now'[th] = now[th] /\ reg'[th] = reg[th]
     /\ made'[th] = made[th] /\ count'[p] = count[p]
     /\ windowStart'[p] = windowStart[p] /\ build' = build
     /\ calls'[p] = calls[p] /\ ignored'[p] = ignored[p]
     /\ AlertsOf(p)' = AlertsOf(p)

(* The runner of a single-threaded process is its only thread.             *)
LEMMA RunnerIs ==
  ASSUME NEW p \in Solo
  PROVE  /\ p \in Pids /\ Runner(p) \in Threads /\ ProcOf[Runner(p)] = p
         /\ \A th \in Threads : ProcOf[th] = p => th = Runner(p)
<1> DEFINE S == {th \in Threads : ProcOf[th] = p}
<1>1. IsFiniteSet(S) /\ Cardinality(S) = 1 /\ p \in Pids
  BY Bounds, FS_Subset DEF Solo
<1>2. PICK x : S = {x}
  BY <1>1, FS_Singleton
<1>3. x \in Threads /\ ProcOf[x] = p
  BY <1>2
<1>4. Runner(p) \in Threads /\ ProcOf[Runner(p)] = p
  BY <1>3 DEF Runner
<1> QED  BY <1>1, <1>2, <1>4

(* Whoever is not moved is left as it was.                                 *)
LEMMA UnmovedIsKept ==
  ASSUME NEW p \in Solo, Served(p), Unmoved(p)
  PROVE  Kept(p) /\ Served(p)'
<1> DEFINE th == Runner(p)
<1>1. WillCount(p)' = WillCount(p) /\ WillStart(p)' = WillStart(p)
  BY DEF WillCount, WillStart, WillReset, Unmoved
<1>2. WillAlert(p)' = WillAlert(p)
  BY <1>1 DEF WillAlert, Running, Unmoved
<1>3. AlertCalls(p)' = AlertCalls(p)
  BY <1>2 DEF AlertCalls, Unmoved
<1>4. Served(p)'
  BY <1>1 DEF Served, Unmoved
<1> QED  BY <1>1, <1>3, <1>4 DEF Kept, Unmoved

(* A step of another thread does not move a single-threaded process.       *)
LEMMA OthersDoNotMove ==
  ASSUME Base, CountsOK, AlertsOK, NEW th \in Threads, Step(th),
         NEW p \in Solo, th # Runner(p)
  PROVE  Unmoved(p)
<1> DEFINE r == Runner(p)
           q == ProcOf[th]
<1>0. r \in Threads /\ p \in Pids /\ q # p /\ q \in Pids
  BY RunnerIs, Bounds
<1>1. /\ pc'[r] = pc[r] /\ now'[r] = now[r] /\ reg'[r] = reg[r] /\ made'[r] = made[r]
      /\ build' = build
  BY <1>0 DEF Base, Step, Enter, Check, ResetCount, ResetStart, Load, Store, Compare
<1>2. /\ count'[p] = count[p] /\ windowStart'[p] = windowStart[p]
  BY <1>0 DEF Base, CountsOK, Step, Enter, Check, ResetCount, ResetStart, Load,
              Store, Compare, entry
<1>3. calls'[p] = calls[p] /\ ignored'[p] = ignored[p]
  BY <1>0 DEF Base, Step, Enter, Check, ResetCount, ResetStart, Load, Store,
              Compare, history
<1>4. alerts' = alerts \/ \E c : Alerting(th, c)
  <2>1. CASE Store(th)
    BY <2>1, Zenon DEF Store
  <2>2. CASE Compare(th)
    BY <2>2, Zenon DEF Compare
  <2>3. CASE ~Store(th) /\ ~Compare(th)
    BY <2>3 DEF Step, Enter, Check, ResetCount, ResetStart, Load
  <2> QED  BY <2>1, <2>2, <2>3
<1>5. alerts' = alerts \/ alerts' = alerts \union {[pid |-> q, call |-> made[th]]}
  BY <1>4 DEF Alerting
<1>6. AlertsOf(p)' = AlertsOf(p)
  BY <1>0, <1>5 DEF AlertsOf
<1> QED  BY <1>1, <1>2, <1>3, <1>6 DEF Unmoved

(* The calls that alerted, after a comparison.                             *)
LEMMA AlertingAdds ==
  ASSUME NEW th \in Threads, NEW p, ProcOf[th] = p, NEW c, Alerting(th, c)
  PROVE  {a.call : a \in AlertsOf(p)'} =
           {a.call : a \in AlertsOf(p)} \union
             IF c = Thresh THEN {made[th]} ELSE {}
<1> DEFINE e == [pid |-> p, call |-> made[th]]
<1>1. CASE c = Thresh
  <2>1. alerts' = alerts \union {e} /\ e.pid = p /\ e.call = made[th]
    BY <1>1 DEF Alerting
  <2> HIDE DEF e
  <2>2. AlertsOf(p)' = AlertsOf(p) \union {e}
    BY <2>1 DEF AlertsOf
  <2> QED  BY <1>1, <2>1, <2>2
<1>2. CASE c # Thresh
  BY <1>2 DEF Alerting, AlertsOf
<1> QED  BY <1>1, <1>2

(* A run does, access by access, what was to be expected of it at its      *)
(* start.                                                                  *)
LEMMA RunGoesOn ==
  ASSUME Base, CountsOK, AlertsOK, NEW th \in Threads, Step(th), ~Enter(th),
         NEW p \in Solo, th = Runner(p), Served(p)
  PROVE  Kept(p) /\ Served(p)'
<1>0. /\ th \in Threads /\ p \in Pids /\ ProcOf[th] = p /\ calls' = calls
      /\ ignored' = ignored /\ build' = build /\ made' = made /\ now' = now
      /\ tracked' = tracked
  BY RunnerIs DEF Step, Check, ResetCount, ResetStart, Load, Store, Compare,
                  history, entry
<1>1. CASE Check(th)
  <2>1. /\ pc[th] = "check" /\ UNCHANGED <<count, windowStart, reg, alerts>>
        /\ ~Expired(now[th], windowStart[p]) => pc'[th] = "load"
        /\ Expired(now[th], windowStart[p]) => pc'[th] \in {"reset_count", "reset_start"}
        /\ Expired(now[th], windowStart[p]) /\ build = "memory" =>
             pc'[th] = "reset_count"
    BY <1>0, <1>1 DEF Check, Base, entry
  <2>2. WillCount(p)' = WillCount(p)
    <3>1. CASE Expired(now[th], windowStart[p])
      <4>1. WillCount(p) = 1
        BY <1>0, <2>1, <3>1 DEF WillCount, WillReset
      <4>2. WillCount(p)' = 1
        BY <1>0, <2>1, <3>1 DEF WillCount, WillReset
      <4> QED  BY <4>1, <4>2
    <3>2. CASE ~Expired(now[th], windowStart[p])
      <4>1. WillCount(p) = count[p] + 1
        BY <1>0, <2>1, <3>2 DEF WillCount, WillReset
      <4>2. WillCount(p)' = count[p] + 1
        BY <1>0, <2>1, <3>2 DEF WillCount, WillReset
      <4> QED  BY <4>1, <4>2
    <3> QED  BY <3>1, <3>2
  <2>3. WillStart(p)' = WillStart(p)
    BY <1>0, <2>1 DEF WillStart, WillReset
  <2>4. AlertCalls(p)' = AlertCalls(p)
    BY <1>0, <2>1, <2>2 DEF AlertCalls, AlertsOf, WillAlert, Running
  <2>5. Served(p)'
    BY <1>0, <2>1, <2>2, <2>3 DEF Served
  <2> QED  BY <1>0, <2>2, <2>3, <2>4, <2>5 DEF Kept
<1>2. CASE ResetCount(th)
  <2>1. /\ pc[th] = "reset_count" /\ UNCHANGED <<windowStart, reg, alerts>>
        /\ pc'[th] = "reset_start" /\ count'[p] = 0
    BY <1>0, <1>2 DEF ResetCount, Base, CountsOK
  <2>2. WillCount(p)' = WillCount(p) /\ WillStart(p)' = WillStart(p)
    BY <1>0, <2>1 DEF WillCount, WillStart, WillReset
  <2>4. AlertCalls(p)' = AlertCalls(p)
    BY <1>0, <2>1, <2>2 DEF AlertCalls, AlertsOf, WillAlert, Running
  <2>5. Served(p)'
    BY <1>0, <2>1, <2>2 DEF Served
  <2> QED  BY <1>0, <2>2, <2>4, <2>5 DEF Kept
<1>3. CASE ResetStart(th)
  <2>1. /\ pc[th] = "reset_start" /\ UNCHANGED <<count, alerts>>
        /\ windowStart'[p] = now[th] /\ reg'[th] = 0
        /\ pc'[th] = IF build = "memory" THEN "load" ELSE "store"
    BY <1>0, <1>3 DEF ResetStart, Base
  <2>2. build = "memory" => count[p] = 0
    BY <1>0, <2>1 DEF Served
  <2>3. WillCount(p)' = WillCount(p) /\ WillStart(p)' = WillStart(p)
    BY <1>0, <2>1, <2>2 DEF WillCount, WillStart, WillReset
  <2>4. AlertCalls(p)' = AlertCalls(p)
    BY <1>0, <2>1, <2>3 DEF AlertCalls, AlertsOf, WillAlert, Running
  <2>5. Served(p)'
    BY <1>0, <2>1, <2>3 DEF Served
  <2> QED  BY <1>0, <2>3, <2>4, <2>5 DEF Kept
<1>4. CASE Load(th)
  <2>1. /\ pc[th] = "load" /\ UNCHANGED <<count, windowStart, alerts>>
        /\ reg'[th] = count[p] /\ pc'[th] = "store"
    BY <1>0, <1>4 DEF Load, Base, entry
  <2>2. WillCount(p)' = WillCount(p) /\ WillStart(p)' = WillStart(p)
    BY <1>0, <2>1 DEF WillCount, WillStart, WillReset
  <2>4. AlertCalls(p)' = AlertCalls(p)
    BY <1>0, <2>1, <2>2 DEF AlertCalls, AlertsOf, WillAlert, Running
  <2>5. Served(p)'
    BY <1>0, <2>1, <2>2 DEF Served
  <2> QED  BY <1>0, <2>2, <2>4, <2>5 DEF Kept
<1>5. CASE Store(th)
  <2>1. /\ pc[th] = "store" /\ UNCHANGED <<windowStart, reg>>
        /\ count'[p] = reg[th] + 1
        /\ IF build = "memory"
           THEN pc'[th] = "compare" /\ UNCHANGED alerts
           ELSE pc'[th] = "idle" /\ Alerting(th, reg[th] + 1)
    BY <1>0, <1>5 DEF Store, Base, CountsOK
  <2>2. WillCount(p)' = WillCount(p) /\ WillStart(p)' = WillStart(p)
    BY <1>0, <2>1 DEF WillCount, WillStart, WillReset
  <2>3. WillCount(p) = reg[th] + 1
    BY <1>0, <2>1 DEF WillCount, WillReset
  <2>4. AlertCalls(p)' = AlertCalls(p)
    <3>1. CASE build = "memory"
      BY <1>0, <2>1, <2>2, <3>1 DEF AlertCalls, AlertsOf, WillAlert, Running
    <3>2. CASE build # "memory"
      <4>1. WillAlert(p)' = {}
        BY <1>0, <2>1, <3>2 DEF WillAlert, Running
      <4>2. WillAlert(p) = IF reg[th] + 1 = Thresh THEN {made[th]} ELSE {}
        BY <1>0, <2>1, <2>3 DEF WillAlert, Running
      <4>3. {a.call : a \in AlertsOf(p)'} =
              {a.call : a \in AlertsOf(p)} \union
                IF reg[th] + 1 = Thresh THEN {made[th]} ELSE {}
        BY <1>0, <2>1, <3>2, AlertingAdds
      <4> QED  BY <4>1, <4>2, <4>3 DEF AlertCalls
    <3> QED  BY <3>1, <3>2
  <2>5. Served(p)'
    BY <1>0, <2>1, <2>2 DEF Served
  <2> QED  BY <1>0, <2>2, <2>4, <2>5 DEF Kept
<1>6. CASE Compare(th)
  <2>1. /\ pc[th] = "compare" /\ UNCHANGED <<count, windowStart, reg>>
        /\ pc'[th] = "idle" /\ Alerting(th, count[p])
    BY <1>0, <1>6 DEF Compare, Base, entry
  <2>2. WillCount(p)' = WillCount(p) /\ WillStart(p)' = WillStart(p)
    BY <1>0, <2>1 DEF WillCount, WillStart, WillReset
  <2>3. WillCount(p) = count[p]
    BY <1>0, <2>1 DEF WillCount, WillReset
  <2>4. AlertCalls(p)' = AlertCalls(p)
    <3>1. WillAlert(p)' = {}
      BY <1>0, <2>1 DEF WillAlert, Running
    <3>2. WillAlert(p) = IF count[p] = Thresh THEN {made[th]} ELSE {}
      BY <1>0, <2>1, <2>3 DEF WillAlert, Running
    <3>3. {a.call : a \in AlertsOf(p)'} =
            {a.call : a \in AlertsOf(p)} \union
              IF count[p] = Thresh THEN {made[th]} ELSE {}
      BY <1>0, <2>1, AlertingAdds
    <3> QED  BY <3>1, <3>2, <3>3 DEF AlertCalls
  <2>5. Served(p)'
    BY <1>0, <2>1, <2>2 DEF Served
  <2> QED  BY <1>0, <2>2, <2>4, <2>5 DEF Kept
<1> QED  BY <1>1, <1>2, <1>3, <1>4, <1>5, <1>6 DEF Step

-----------------------------------------------------------------------------
(* The times of a process, counted calls or not.                           *)
LEMMA TimesOf ==
  ASSUME NEW S, NEW c \in Seq(S), NEW i \in Seq(S)
  PROVE  /\ ToSet(c \o i) = ToSet(c) \union ToSet(i)
         /\ ToSet(c) \subseteq S /\ ToSet(i) \subseteq S
         /\ \A n \in 1 .. Len(c) : c[n] \in ToSet(c)
<1>1. /\ c \o i \in Seq(S) /\ Len(c) \in Nat /\ Len(i) \in Nat
      /\ Len(c \o i) = Len(c) + Len(i)
      /\ \A n \in 1 .. Len(c) : (c \o i)[n] = c[n]
      /\ \A n \in 1 .. Len(i) : (c \o i)[Len(c) + n] = i[n]
  OBVIOUS
<1>2. ASSUME NEW n \in 1 .. Len(c \o i)
      PROVE  (c \o i)[n] \in ToSet(c) \union ToSet(i)
  <2>1. CASE n <= Len(c)
    BY <1>1, <2>1 DEF ToSet
  <2>2. CASE n > Len(c)
    <3>1. n - Len(c) \in 1 .. Len(i) /\ n = Len(c) + (n - Len(c))
      BY <1>1, <2>2
    <3> QED  BY <1>1, <3>1 DEF ToSet
  <2> QED  BY <1>1, <2>1, <2>2
<1>3. ASSUME NEW n \in 1 .. Len(c) PROVE c[n] \in ToSet(c \o i)
  <2>1. n \in 1 .. Len(c \o i)
    BY <1>1
  <2> QED  BY <1>1, <2>1 DEF ToSet
<1>4. ASSUME NEW n \in 1 .. Len(i) PROVE i[n] \in ToSet(c \o i)
  <2>1. Len(c) + n \in 1 .. Len(c \o i)
    BY <1>1
  <2> QED  BY <1>1, <2>1 DEF ToSet
<1>5. /\ DOMAIN c = 1 .. Len(c) /\ DOMAIN i = 1 .. Len(i)
      /\ DOMAIN (c \o i) = 1 .. Len(c \o i)
  BY <1>1
<1>6. ToSet(c \o i) \subseteq ToSet(c) \union ToSet(i)
  <2> SUFFICES ASSUME NEW x \in ToSet(c \o i) PROVE x \in ToSet(c) \union ToSet(i)
      OBVIOUS
  <2>1. PICK n \in 1 .. Len(c \o i) : x = (c \o i)[n]
    BY <1>5, Zenon DEF ToSet
  <2> QED  BY <1>2, <2>1, Zenon
<1>7. ToSet(c) \subseteq ToSet(c \o i) /\ ToSet(i) \subseteq ToSet(c \o i)
  <2>1. ASSUME NEW x \in ToSet(c) PROVE x \in ToSet(c \o i)
    <3>1. PICK n \in 1 .. Len(c) : x = c[n]
      BY <1>5, <2>1, Zenon DEF ToSet
    <3> QED  BY <1>3, <3>1, Zenon
  <2>2. ASSUME NEW x \in ToSet(i) PROVE x \in ToSet(c \o i)
    <3>1. PICK n \in 1 .. Len(i) : x = i[n]
      BY <1>5, <2>2, Zenon DEF ToSet
    <3> QED  BY <1>4, <3>1, Zenon
  <2> QED  BY <2>1, <2>2
<1>8. ToSet(c) \subseteq S /\ ToSet(i) \subseteq S
  <2>1. (\A n \in 1 .. Len(c) : c[n] \in S) /\ (\A n \in 1 .. Len(i) : i[n] \in S)
    OBVIOUS
  <2> QED  BY <1>5, <2>1, Zenon DEF ToSet
<1>9. \A n \in 1 .. Len(c) : c[n] \in ToSet(c)
  BY <1>5, Zenon DEF ToSet
<1> QED  BY <1>6, <1>7, <1>8, <1>9

(* The times read are numbers, and those of calls are among them.          *)
LEMMA TimesAre ==
  ASSUME Base
  PROVE  /\ Times \subseteq BootTime .. MaxTime /\ BootTime \in Times
         /\ \A p \in Solo : \A i \in 1 .. Len(calls[p]) : calls[p][i] \in Times
<1>1. \A p \in Solo : /\ calls[p] \in Seq(BootTime .. MaxTime)
                      /\ ignored[p] \in Seq(BootTime .. MaxTime)
  BY DEF Base, Solo
<1>2. BootTime \in BootTime .. MaxTime
  BY Bounds
<1>3. \A p \in Solo : /\ ToSet(calls[p] \o ignored[p]) \subseteq BootTime .. MaxTime
                      /\ \A i \in 1 .. Len(calls[p]) :
                           calls[p][i] \in ToSet(calls[p] \o ignored[p])
  <2> SUFFICES ASSUME NEW p \in Solo
               PROVE  /\ ToSet(calls[p] \o ignored[p]) \subseteq BootTime .. MaxTime
                      /\ \A i \in 1 .. Len(calls[p]) :
                           calls[p][i] \in ToSet(calls[p] \o ignored[p])
      OBVIOUS
  <2> DEFINE S == BootTime .. MaxTime
             c == calls[p]
             g == ignored[p]
  <2>1. c \in Seq(S) /\ g \in Seq(S)
    BY <1>1
  <2> HIDE DEF S, c, g
  <2>2. /\ ToSet(c \o g) = ToSet(c) \union ToSet(g)
        /\ ToSet(c) \subseteq S /\ ToSet(g) \subseteq S
        /\ \A i \in 1 .. Len(c) : c[i] \in ToSet(c)
    BY <2>1, TimesOf
  <2>3. ToSet(c \o g) \subseteq S /\ \A i \in 1 .. Len(c) : c[i] \in ToSet(c \o g)
    BY <2>2
  <2> QED  BY <2>3 DEF S, c, g
<1> QED  BY <1>2, <1>3 DEF Times

(* With room for every process, each has an entry or gets one.             *)
LEMMA RoomForEach ==
  ASSUME Base, Cardinality(Pids) <= MapSize, NEW p \in Pids, p \notin tracked
  PROVE  HasRoom
<1>1. IsFiniteSet(Pids) /\ tracked \subseteq Pids /\ tracked # Pids /\ MapSize \in Nat
  BY RaceAssumption DEF Base
<1>2. /\ Cardinality(tracked) \in Nat /\ Cardinality(Pids) \in Nat
      /\ Cardinality(tracked) <= Cardinality(Pids)
      /\ Cardinality(tracked) # Cardinality(Pids)
  BY <1>1, FS_Subset, FS_CardinalityType
<1> QED  BY <1>1, <1>2 DEF HasRoom

(* How a call of a process is counted when its run is done.                *)
Counted(p, t) == IF Expired(t, WillStart(p)) THEN 1 ELSE WillCount(p) + 1
Started(p, t) == IF Expired(t, WillStart(p)) THEN t ELSE WillStart(p)

(* What the first access of a run settles.                                 *)
Begins(p, t) ==
  /\ tracked' = tracked \union {p}
  /\ calls' = [calls EXCEPT ![p] = Append(calls[p], t)] /\ ignored' = ignored
  /\ WillCount(p)' = Counted(p, t) /\ WillStart(p)' = Started(p, t)
  /\ AlertCalls(p)' = AlertCalls(p) \union
                        IF Counted(p, t) = Thresh THEN {Len(calls[p]) + 1} ELSE {}

(* The head of a call is that of its window: Counted says how far back.    *)
LEMMA NextHeadIs ==
  ASSUME Base, SoloOK, NEW p \in Solo, NEW t \in clock .. MaxTime
  PROVE  LET n == Len(calls[p])
             h == NextHead(calls[p], n, t, Heads(calls[p])[n].head)
         IN /\ h = n + 1 - Counted(p, t) + 1
            /\ Counted(p, t) = n + 1 - h + 1
            /\ Started(p, t) = Append(calls[p], t)[h]
            /\ h \in 1 .. n + 1
<1> DEFINE n == Len(calls[p])
           g == Heads(calls[p])[n].head
           c == Counted(p, t)
           h == NextHead(calls[p], n, t, g)
           w == WillStart(p)
<1>0. /\ calls[p] \in Seq(BootTime .. MaxTime) /\ calls[p] \in Seq(Nat) /\ n \in Nat
      /\ t \in Nat /\ BootTime \in Nat /\ BootTime > Window /\ Window \in Nat
      /\ BootTime <= t /\ MaxTime \in Nat /\ clock \in Nat /\ clock <= t
  <2>1. BootTime .. MaxTime \subseteq Nat
    BY Bounds
  <2> QED  BY <2>1, Bounds, RaceAssumption DEF Base, Solo
<1>1. n # 0 => /\ g \in 1 .. n /\ calls[p][g] \in Nat /\ calls[p][g] <= t
               /\ WillCount(p) = n - g + 1 /\ w = calls[p][g]
  <2> SUFFICES ASSUME n # 0
               PROVE  /\ g \in 1 .. n /\ calls[p][g] \in Nat /\ calls[p][g] <= t
                      /\ WillCount(p) = n - g + 1 /\ w = calls[p][g]
      OBVIOUS
  <2>1. g \in 1 .. n
    <3>1. \A i \in 1 .. n : Heads(calls[p])[i].head \in 1 .. i
      BY <1>0, HeadsAppend
    <3>2. n \in 1 .. n
      BY <1>0
    <3> QED  BY <3>1, <3>2
  <2>2. calls[p][g] \in Times /\ calls[p][g] \in Nat
    BY <1>0, <2>1, TimesAre
  <2>3. calls[p][g] <= clock
    BY <2>2 DEF SoloOK
  <2>4. WillCount(p) = n - g + 1 /\ w = calls[p][g]
    BY DEF SoloOK, Served
  <2> QED  BY <1>0, <2>1, <2>2, <2>3, <2>4
<1>2. n = 0 => WillCount(p) = 0 /\ w = 0
  BY DEF SoloOK, Served
<1>3. w \in Nat /\ w <= t
  BY <1>0, <1>1, <1>2
<1>4. Expired(t, w) <=> t - w > Window
  BY <1>0, <1>3 DEF Expired, Elapsed
<1>5. /\ c = IF t - w > Window THEN 1 ELSE WillCount(p) + 1
      /\ Started(p, t) = IF t - w > Window THEN t ELSE w
  BY <1>4 DEF Counted, Started
<1>6. h = IF n = 0 THEN 1 ELSE IF t - calls[p][g] > Window THEN n + 1 ELSE g
  BY DEF NextHead
<1>7. /\ Append(calls[p], t)[n + 1] = t
      /\ \A i \in 1 .. n : Append(calls[p], t)[i] = calls[p][i]
  BY <1>0
<1> HIDE DEF n, g, c, h, w
<1>8. CASE n = 0
  <2>1. t - w > Window
    BY <1>0, <1>2, <1>8
  <2> QED  BY <1>0, <1>5, <1>6, <1>7, <1>8, <2>1 DEF n, g, c, h, w
<1>9. CASE n # 0 /\ t - w > Window
  <2>1. h = n + 1 /\ c = 1 /\ Started(p, t) = t
    BY <1>1, <1>5, <1>6, <1>9
  <2>2. h = n + 1 - c + 1 /\ c = n + 1 - h + 1 /\ h \in 1 .. n + 1
    BY <1>0, <2>1
  <2> QED  BY <1>7, <2>1, <2>2 DEF n, g, c, h, w
<1>10. CASE n # 0 /\ ~(t - w > Window)
  <2>1. h = g /\ c = n - g + 2 /\ Started(p, t) = w
    BY <1>0, <1>1, <1>5, <1>6, <1>10
  <2>2. h = n + 1 - c + 1 /\ c = n + 1 - h + 1 /\ h \in 1 .. n + 1
    BY <1>0, <1>1, <1>10, <2>1
  <2>3. Append(calls[p], t)[h] = w
    BY <1>1, <1>7, <1>10, <2>1
  <2> QED  BY <2>1, <2>2, <2>3 DEF n, g, c, h, w
<1> QED  BY <1>8, <1>9, <1>10

(* What a sequence holds after an element came in at its end.              *)
LEMMA ToSetAppend ==
  ASSUME NEW E, NEW s \in Seq(E), NEW e \in E
  PROVE  ToSet(Append(s, e)) = ToSet(s) \union {e}
<1>1. /\ DOMAIN Append(s, e) = DOMAIN s \union {Len(s) + 1}
      /\ Append(s, e)[Len(s) + 1] = e
      /\ \A i \in DOMAIN s : Append(s, e)[i] = s[i]
  OBVIOUS
<1> QED  BY <1>1 DEF ToSet

(* What Enter does when there is room.                                     *)
LEMMA EnterIs ==
  ASSUME Base, Cardinality(Pids) <= MapSize, NEW th \in Threads, Enter(th)
  PROVE  \E t \in clock .. MaxTime :
           /\ clock' = t /\ pc[th] = "idle" /\ ProcOf[th] \in Pids
           /\ Len(calls[ProcOf[th]]) + Len(ignored[ProcOf[th]]) < MaxCalls
           /\ tracked' = tracked \union {ProcOf[th]}
           /\ calls' = [calls EXCEPT ![ProcOf[th]] = Append(calls[ProcOf[th]], t)]
           /\ now' = [now EXCEPT ![th] = t]
           /\ made' = [made EXCEPT ![th] = Len(calls[ProcOf[th]]) + 1]
           /\ pc' = [pc EXCEPT ![th] = "check"]
           /\ UNCHANGED <<build, count, windowStart, reg, ignored, alerts>>
<1> DEFINE p == ProcOf[th]
<1>1. p \in Pids /\ (p \in tracked \/ HasRoom)
  BY Bounds, RoomForEach
<1>2. /\ pc[th] = "idle" /\ UNCHANGED <<build, count, windowStart, reg, alerts>>
      /\ Len(calls[p]) + Len(ignored[p]) < MaxCalls
  BY DEF Enter, Running
<1>3. PICK t \in clock .. MaxTime :
        /\ clock' = t
        /\ IF p \in tracked \/ HasRoom
           THEN /\ tracked' = tracked \union {p}
                /\ calls' = [calls EXCEPT ![p] = Append(calls[p], t)]
                /\ now' = [now EXCEPT ![th] = t]
                /\ made' = [made EXCEPT ![th] = Len(calls[p]) + 1]
                /\ pc' = [pc EXCEPT ![th] = "check"]
                /\ UNCHANGED ignored
           ELSE TRUE
  BY Zenon DEF Enter
<1> QED  BY <1>1, <1>2, <1>3

(* A run of a single-threaded process begins: how its call will be counted *)
(* is then certain, and the entry will describe its window.                *)
LEMMA EnterBegins ==
  ASSUME Base, CountsOK, SoloOK, Cardinality(Pids) <= MapSize,
         NEW th \in Threads, Enter(th), ProcOf[th] \in Solo
  PROVE  \E t \in clock .. MaxTime :
           /\ clock' = t /\ Begins(ProcOf[th], t) /\ Served(ProcOf[th])'
           /\ Len(calls[ProcOf[th]]) + Len(ignored[ProcOf[th]]) < MaxCalls
<1> DEFINE p == ProcOf[th]
           n == Len(calls[p])
<1>1. PICK t \in clock .. MaxTime :
        /\ clock' = t /\ pc[th] = "idle"
        /\ Len(calls[p]) + Len(ignored[p]) < MaxCalls
        /\ tracked' = tracked \union {p}
        /\ calls' = [calls EXCEPT ![p] = Append(calls[p], t)]
        /\ now' = [now EXCEPT ![th] = t]
        /\ made' = [made EXCEPT ![th] = Len(calls[p]) + 1]
        /\ pc' = [pc EXCEPT ![th] = "check"]
        /\ UNCHANGED <<build, count, windowStart, reg, ignored, alerts>>
  BY EnterIs
<1>2. th = Runner(p) /\ p \in Pids
  BY RunnerIs
<1>3. /\ pc'[th] = "check" /\ now'[th] = t /\ made'[th] = n + 1
      /\ calls'[p] = Append(calls[p], t)
  BY <1>1, <1>2 DEF Base
<1>4. WillCount(p) = count[p] /\ WillStart(p) = windowStart[p] /\ WillAlert(p) = {}
  BY <1>1, <1>2 DEF WillCount, WillStart, WillReset, WillAlert, Running
<1>5. WillCount(p)' = Counted(p, t)
  <2>1. CASE Expired(t, windowStart[p])
    BY <1>1, <1>2, <1>3, <1>4, <2>1 DEF WillCount, WillReset, Counted
  <2>2. CASE ~Expired(t, windowStart[p])
    BY <1>1, <1>2, <1>3, <1>4, <2>2 DEF WillCount, WillReset, Counted
  <2> QED  BY <2>1, <2>2
<1>6. WillStart(p)' = Started(p, t)
  <2>1. CASE Expired(t, windowStart[p])
    BY <1>1, <1>2, <1>3, <1>4, <2>1 DEF WillStart, WillReset, Started
  <2>2. CASE ~Expired(t, windowStart[p])
    BY <1>1, <1>2, <1>3, <1>4, <2>2 DEF WillStart, WillReset, Started
  <2> QED  BY <2>1, <2>2
<1>7. AlertCalls(p)' = AlertCalls(p) \union
                         IF Counted(p, t) = Thresh THEN {n + 1} ELSE {}
  <2>1. WillAlert(p)' = IF Counted(p, t) = Thresh THEN {n + 1} ELSE {}
    BY <1>2, <1>3, <1>5 DEF WillAlert, Running
  <2>2. AlertsOf(p)' = AlertsOf(p)
    BY <1>1 DEF AlertsOf
  <2> QED  BY <1>4, <2>1, <2>2 DEF AlertCalls
<1>8. Begins(p, t)
  BY <1>1, <1>5, <1>6, <1>7 DEF Begins
<1>9. Served(p)'
  <2> DEFINE h == NextHead(calls[p], n, t, Heads(calls[p])[n].head)
             us == Append(calls[p], t)
  <2>1. /\ Counted(p, t) = n + 1 - h + 1 /\ Started(p, t) = us[h]
        /\ h \in 1 .. n + 1
    BY <1>2, NextHeadIs
  <2>2. calls[p] \in Seq(Nat) /\ t \in Nat /\ n \in Nat
    <3>1. BootTime .. MaxTime \subseteq Nat /\ clock \in Nat /\ MaxTime \in Nat
      BY Bounds DEF Base
    <3>2. calls[p] \in Seq(BootTime .. MaxTime)
      BY <1>2 DEF Base
    <3>3. calls[p] \in Seq(Nat)
      BY <3>2, Bounds
    <3>4. t \in Nat
      BY <3>1
    <3> QED  BY <3>3, <3>4
  <2>3. /\ Heads(us) = Append(Heads(calls[p]), [ts |-> t, head |-> h])
        /\ Heads(calls[p]) \in Seq([ts : Nat, head : Nat]) /\ Len(Heads(calls[p])) = n
    BY <2>2, HeadsAppend
  <2>4. Len(us) = n + 1
    BY <2>2
  <2>5. Heads(us)[n + 1] = [ts |-> t, head |-> h]
    BY <2>3
  <2>6. Heads(us)[n + 1].head = h
    BY <2>5
  <2>7. n + 1 # 0
    BY <2>2
  <2>8. pc'[Runner(p)] # "reset_start"
    BY <1>2, <1>3
  <2> HIDE DEF h, us, n
  <2>9. calls'[p] = us
    BY <1>3 DEF us
  <2>10. /\ Len(calls'[p]) # 0 /\ Heads(calls'[p])[Len(calls'[p])].head = h
         /\ WillCount(p)' = Len(calls'[p]) - h + 1 /\ WillStart(p)' = calls'[p][h]
    <3>1. Len(calls'[p]) = n + 1 /\ Len(calls'[p]) # 0
      BY <2>4, <2>7, <2>9
    <3>2. Heads(calls'[p])[Len(calls'[p])].head = h
      BY <2>6, <2>9, <3>1
    <3>3. WillCount(p)' = n + 1 - h + 1
      BY <1>5, <2>1
    <3>4. WillStart(p)' = calls'[p][h]
      BY <1>6, <2>1, <2>9
    <3>5. WillCount(p)' = Len(calls'[p]) - h + 1
      BY <2>1, <2>2, <3>1, <3>3
    <3> QED  BY <3>1, <3>2, <3>4, <3>5
  <2> QED  BY <2>8, <2>10 DEF Served
<1> QED  BY <1>1, <1>8, <1>9

(* The clock of the single-threaded processes is the time of their last    *)
(* call.                                                                   *)
LEMMA SoloClockIs ==
  ASSUME Base, SoloOK
  PROVE  /\ SoloClock \in Times /\ \A t \in Times : t <= SoloClock
         /\ \A m \in Times : (\A t \in Times : t <= m) => SoloClock = m
<1>1. Times \subseteq Nat
  <2>1. BootTime .. MaxTime \subseteq Nat
    BY Bounds
  <2> QED  BY <2>1, TimesAre
<1>2. \E m \in Times : \A t \in Times : m >= t
  BY <1>1 DEF SoloOK
<1>3. SoloClock = Max(Times)
  BY DEF SoloClock, Times
<1>4. Max(Times) \in Times /\ \A t \in Times : Max(Times) >= t
  BY <1>2, Zenon DEF Max
<1>5. \A t \in Times : t <= SoloClock
  BY <1>1, <1>3, <1>4
<1>6. SoloClock \in Nat /\ SoloClock \in Times
  BY <1>1, <1>3, <1>4
<1>7. ASSUME NEW m \in Times, \A t \in Times : t <= m PROVE SoloClock = m
  <2>1. SoloClock <= m /\ m <= SoloClock /\ m \in Nat
    BY <1>1, <1>5, <1>6, <1>7
  <2> QED  BY <1>6, <2>1
<1> QED  BY <1>5, <1>6, <1>7

(* A run of a single-threaded process that begins adds the latest time.    *)
LEMMA TimesGrow ==
  ASSUME Base, NEW p \in Solo, NEW t \in BootTime .. MaxTime,
         calls' = [calls EXCEPT ![p] = Append(calls[p], t)], ignored' = ignored
  PROVE  Times' = Times \union {t}
<1> DEFINE S == BootTime .. MaxTime
           T(q) == ToSet(calls[q] \o ignored[q])
<1>0. p \in Pids /\ p \in Solo
  BY RunnerIs
<1>1. \A q \in Solo : calls[q] \in Seq(S) /\ ignored[q] \in Seq(S)
  BY DEF Base, Solo
<1>2. /\ calls'[p] = Append(calls[p], t) /\ ignored'[p] = ignored[p]
      /\ \A q \in Solo \ {p} : calls'[q] = calls[q] /\ ignored'[q] = ignored[q]
  BY <1>0 DEF Base, Solo
<1>3. T(p)' = T(p) \union {t}
  <2> DEFINE c == calls[p]
             g == ignored[p]
  <2>1. c \in Seq(S) /\ g \in Seq(S) /\ t \in S /\ Append(c, t) \in Seq(S)
    BY <1>1
  <2> HIDE DEF S, c, g
  <2>2. ToSet(c \o g) = ToSet(c) \union ToSet(g)
    BY <2>1, TimesOf
  <2>3. ToSet(Append(c, t) \o g) = ToSet(Append(c, t)) \union ToSet(g)
    BY <2>1, TimesOf
  <2>4. ToSet(Append(c, t)) = ToSet(c) \union {t}
    BY <2>1, ToSetAppend
  <2>5. ToSet(Append(c, t) \o g) = ToSet(c \o g) \union {t}
    BY <2>2, <2>3, <2>4
  <2> QED  BY <1>2, <2>5 DEF c, g
<1>4. \A q \in Solo \ {p} : T(q)' = T(q)
  BY <1>2
<1>5. Times = {BootTime} \union UNION {T(q) : q \in Solo}
  BY DEF Times
<1>6. Times' = {BootTime} \union UNION {T(q)' : q \in Solo}
  BY DEF Times
<1> HIDE DEF T
<1>7. UNION {T(q)' : q \in Solo} = (UNION {T(q) : q \in Solo}) \union {t}
  BY <1>0, <1>3, <1>4
<1> QED  BY <1>5, <1>6, <1>7

(* Without one the times stay as they are.                                 *)
LEMMA TimesStay ==
  ASSUME \A p \in Solo : calls'[p] = calls[p] /\ ignored'[p] = ignored[p]
  PROVE  Times' = Times /\ SoloClock' = SoloClock
<1>1. Times' = Times
  BY DEF Times
<1>2. SoloClock = Max(Times) /\ SoloClock' = Max(Times')
  BY DEF SoloClock, Times
<1> QED  BY <1>1, <1>2

-----------------------------------------------------------------------------
(* A sequence over a set is one over a larger set.                         *)
LEMMA Wider ==
  ASSUME NEW A, NEW B, A \subseteq B, NEW s \in Seq(A)
  PROVE  s \in Seq(B)
OBVIOUS

(* The calls that single-threaded processes made are fewer than the bound  *)
(* of RateWindow when one of them may make another.                        *)
LEMMA MadeBelow ==
  ASSUME Base, NEW p \in Solo, Len(calls[p]) + Len(ignored[p]) < MaxCalls
  PROVE  Cardinality(W!Made) < MaxCalls * Cardinality(Solo)
<1> DEFINE k == <<Rule, p>>
           S == SoloKeys \X (1 .. MaxCalls)
<1>1. \A q \in Solo : /\ Heads(calls[q]) \in Seq([ts : Nat, head : Nat])
                      /\ Len(Heads(calls[q])) = Len(calls[q])
                      /\ Len(calls[q]) \in Nat /\ Len(ignored[q]) \in Nat
                      /\ ignored[q] \in Seq(Nat)
                      /\ Len(calls[q]) + Len(ignored[q]) <= MaxCalls
  <2> SUFFICES ASSUME NEW q \in Solo
               PROVE  /\ Heads(calls[q]) \in Seq([ts : Nat, head : Nat])
                      /\ Len(Heads(calls[q])) = Len(calls[q])
                      /\ Len(calls[q]) \in Nat /\ Len(ignored[q]) \in Nat
                      /\ ignored[q] \in Seq(Nat)
                      /\ Len(calls[q]) + Len(ignored[q]) <= MaxCalls
      OBVIOUS
  <2>1. /\ calls[q] \in Seq(BootTime .. MaxTime) /\ ignored[q] \in Seq(BootTime .. MaxTime)
        /\ Len(calls[q]) + Len(ignored[q]) <= MaxCalls
    BY DEF Base, Solo
  <2>2. calls[q] \in Seq(Nat) /\ ignored[q] \in Seq(Nat) /\ 0 \in Nat
    BY <2>1, Bounds
  <2>3. Heads(calls[q]) \in Seq([ts : Nat, head : Nat]) /\ Len(Heads(calls[q])) = Len(calls[q])
    BY <2>2, HeadsAppend
  <2>4. Len(calls[q]) \in Nat /\ Len(ignored[q]) \in Nat
    BY <2>2
  <2> QED  BY <2>1, <2>2, <2>3, <2>4
<1>2. ASSUME NEW q \in Solo
      PROVE  DOMAIN (Heads(calls[q]) \o ignored[q]) =
               1 .. Len(calls[q]) + Len(ignored[q])
  <2> DEFINE hs == Heads(calls[q])
             g == ignored[q]
  <2>1. hs \in Seq([ts : Nat, head : Nat]) /\ g \in Seq(Nat) /\ Len(hs) = Len(calls[q])
    BY <1>1
  <2> HIDE DEF hs, g
  <2> DEFINE E == [ts : Nat, head : Nat] \union Nat
  <2>2. DOMAIN (hs \o g) = 1 .. Len(hs) + Len(g)
    <3>1. hs \in Seq(E) /\ g \in Seq(E)
      BY <2>1, Wider
    <3> HIDE DEF E
    <3>2. hs \o g \in Seq(E) /\ Len(hs \o g) = Len(hs) + Len(g)
      BY <3>1
    <3> QED  BY <3>2
  <2> QED  BY <2>1, <2>2 DEF hs, g
<1>3. W!Made = UNION {{j} \X (1 .. Len(calls[j[2]]) + Len(ignored[j[2]])) : j \in SoloKeys}
  <2>1. \A j \in SoloKeys :
          DOMAIN ([i \in SoloKeys |-> Heads(calls[i[2]])][j] \o
                  [i \in SoloKeys |-> ignored[i[2]]][j]) =
            1 .. Len(calls[j[2]]) + Len(ignored[j[2]])
    BY <1>2 DEF SoloKeys
  <2>2. W!Keys = SoloKeys
    BY DEF W!Keys, SoloKeys
  <2> QED  BY <2>1, <2>2 DEF W!Made
<1>4. MaxCalls \in Nat /\ k \in SoloKeys
  BY Bounds DEF SoloKeys
<1>5. W!Made \subseteq S
  <2> SUFFICES ASSUME NEW x \in W!Made PROVE x \in S
      OBVIOUS
  <2>1. PICK j \in SoloKeys : x \in {j} \X (1 .. Len(calls[j[2]]) + Len(ignored[j[2]]))
    BY <1>3
  <2>2. j[2] \in Solo
    BY DEF SoloKeys
  <2>3. 1 .. Len(calls[j[2]]) + Len(ignored[j[2]]) \subseteq 1 .. MaxCalls
    <3> DEFINE a == Len(calls[j[2]])
               b == Len(ignored[j[2]])
    <3>1. a \in Nat /\ b \in Nat /\ a + b <= MaxCalls /\ MaxCalls \in Nat
      BY <1>1, <1>4, <2>2
    <3> HIDE DEF a, b
    <3>2. 1 .. a + b \subseteq 1 .. MaxCalls
      BY <3>1
    <3> QED  BY <3>2 DEF a, b
  <2> QED  BY <2>1, <2>3
<1>6. <<k, MaxCalls>> \in S /\ <<k, MaxCalls>> \notin W!Made
  <2>1. Len(calls[p]) \in Nat /\ Len(ignored[p]) \in Nat
    BY <1>1
  <2>2. MaxCalls \in 1 .. MaxCalls /\ MaxCalls \notin 1 .. Len(calls[p]) + Len(ignored[p])
    <3> DEFINE a == Len(calls[p])
               b == Len(ignored[p])
    <3>1. a \in Nat /\ b \in Nat /\ a + b < MaxCalls /\ MaxCalls \in Nat
      BY <1>4, <2>1
    <3> HIDE DEF a, b
    <3>2. MaxCalls \in 1 .. MaxCalls /\ MaxCalls \notin 1 .. a + b
      BY <3>1
    <3> QED  BY <3>2 DEF a, b
  <2>3. ASSUME NEW j \in SoloKeys,
               <<k, MaxCalls>> \in {j} \X (1 .. Len(calls[j[2]]) + Len(ignored[j[2]]))
        PROVE  FALSE
    <3>1. j = k /\ MaxCalls \in 1 .. Len(calls[j[2]]) + Len(ignored[j[2]])
      BY <2>3
    <3> QED  BY <2>2, <3>1
  <2>4. <<k, MaxCalls>> \in S
    BY <1>4, <2>2
  <2> QED  BY <1>3, <2>3, <2>4
<1>7. /\ IsFiniteSet(Solo) /\ Cardinality(Solo) \in Nat
  <2>1. Solo \subseteq Pids /\ IsFiniteSet(Pids)
    BY RaceAssumption DEF Solo
  <2> QED  BY <2>1, FS_Subset, FS_CardinalityType
<1>8. IsFiniteSet(SoloKeys) /\ Cardinality(SoloKeys) = Cardinality(Solo)
  <2>1. IsFiniteSet({Rule}) /\ Cardinality({Rule}) = 1
    BY FS_Singleton
  <2>2. /\ IsFiniteSet({Rule} \X Solo)
        /\ Cardinality({Rule} \X Solo) = Cardinality({Rule}) * Cardinality(Solo)
    BY <1>7, <2>1, FS_Product
  <2> QED  BY <1>7, <2>1, <2>2 DEF SoloKeys
<1>9. IsFiniteSet(S) /\ Cardinality(S) = Cardinality(Solo) * MaxCalls
  <2>1. IsFiniteSet(1 .. MaxCalls) /\ Cardinality(1 .. MaxCalls) = MaxCalls
    BY <1>4, FS_Interval
  <2>2. /\ IsFiniteSet(S)
        /\ Cardinality(S) = Cardinality(SoloKeys) * Cardinality(1 .. MaxCalls)
    BY <1>8, <2>1, FS_Product
  <2> QED  BY <1>8, <2>1, <2>2, Zenon
<1>10. /\ Cardinality(W!Made) \in Nat /\ Cardinality(S) \in Nat
       /\ Cardinality(W!Made) <= Cardinality(S)
       /\ Cardinality(W!Made) # Cardinality(S)
  <2> HIDE DEF S
  <2>1. W!Made # S
    BY <1>6
  <2> QED  BY <1>5, <1>9, <2>1, FS_Subset, FS_CardinalityType
<1> DEFINE m == Cardinality(W!Made)
           s == Cardinality(S)
           c == Cardinality(Solo)
<1>11. m \in Nat /\ s \in Nat /\ m < s
  BY <1>10
<1>12. s = c * MaxCalls /\ c \in Nat /\ MaxCalls \in Nat
  BY <1>4, <1>7, <1>9
<1> HIDE DEF m, s, c
<1>13. c * MaxCalls = MaxCalls * c
  BY <1>12
<1>14. m < MaxCalls * c
  BY <1>11, <1>12, <1>13
<1> QED  BY <1>14 DEF m, c

(* When every single-threaded process is kept, RateWindow stutters.        *)
LEMMA KeptStutters ==
  ASSUME \A p \in Solo : Kept(p) /\ (p \in tracked' <=> p \in tracked)
  PROVE  UNCHANGED W!vars
<1>1. SoloClock' = SoloClock
  BY TimesStay DEF Kept
<1>2. \A k \in SoloKeys : k[2] \in Solo
  BY DEF SoloKeys
<1>3. (SoloKeys \intersect ({Rule} \X tracked))' = SoloKeys \intersect ({Rule} \X tracked)
  BY DEF SoloKeys
<1>4. /\ [k \in SoloKeys |-> WillCount(k[2])]' = [k \in SoloKeys |-> WillCount(k[2])]
      /\ [k \in SoloKeys |-> WillStart(k[2])]' = [k \in SoloKeys |-> WillStart(k[2])]
      /\ [k \in SoloKeys |-> Heads(calls[k[2]])]' = [k \in SoloKeys |-> Heads(calls[k[2]])]
      /\ [k \in SoloKeys |-> ignored[k[2]]]' = [k \in SoloKeys |-> ignored[k[2]]]
  BY <1>2 DEF Kept
<1>5. \A p \in Solo : AlertCalls(p)' = AlertCalls(p)
  BY DEF Kept
<1> QED  BY <1>1, <1>3, <1>4, <1>5 DEF W!vars, AlertCalls

(* RateWindow counts by the same definition.                               *)
LEMMA SameCardinality ==
  ASSUME NEW S
  PROVE  W!Cardinality(S) = Cardinality(S)
BY DEF Cardinality, W!Cardinality

(* The first access of a run is the step of RateWindow.                    *)
LEMMA BeginsCounts ==
  ASSUME Base, SoloOK, Cardinality(Pids) <= MapSize,
         NEW p \in Solo, NEW t \in clock .. MaxTime, Begins(p, t),
         Len(calls[p]) + Len(ignored[p]) < MaxCalls,
         \A q \in Solo \ {p} : Kept(q)
  PROVE  W!Next
<1> DEFINE k == <<Rule, p>>
           n == Len(calls[p])
           c == Counted(p, t)
           counts == [j \in SoloKeys |-> WillCount(j[2])]
           starts == [j \in SoloKeys |-> WillStart(j[2])]
           heads == [j \in SoloKeys |-> Heads(calls[j[2]])]
           turned == [j \in SoloKeys |-> ignored[j[2]]]
           raised == UNION {{[key |-> <<Rule, q>>, call |-> i] : i \in AlertCalls(q)} :
                              q \in Solo}
           entries == SoloKeys \intersect ({Rule} \X tracked)
           times == SoloClock
<1>0. /\ k \in SoloKeys /\ k[2] = p /\ k[1] = Rule /\ p \in Pids
      /\ \A j \in SoloKeys : j[2] \in Solo /\ j = <<Rule, j[2]>>
      /\ \A j \in SoloKeys : j # k => j[2] \in Solo \ {p}
  BY RunnerIs DEF SoloKeys
<1>1. /\ t \in BootTime .. MaxTime /\ t \in Nat /\ clock \in Nat /\ clock <= t
      /\ calls[p] \in Seq(Nat) /\ n \in Nat
  <2>1. /\ clock \in BootTime .. MaxTime /\ BootTime \in Nat /\ MaxTime \in Nat
        /\ calls[p] \in Seq(BootTime .. MaxTime)
    BY <1>0, Bounds DEF Base
  <2>2. BootTime .. MaxTime \subseteq Nat
    BY <2>1
  <2>3. calls[p] \in Seq(Nat)
    BY <2>1, <2>2, Wider
  <2> QED  BY <2>1, <2>3
<1>2. counts' = [counts EXCEPT ![k] = c]
  <2>1. WillCount(p)' = c /\ \A q \in Solo \ {p} : WillCount(q)' = WillCount(q)
    BY DEF Begins, Kept
  <2> HIDE DEF c
  <2> QED  BY <1>0, <2>1
<1>3. starts' = [starts EXCEPT ![k] = Started(p, t)]
  <2>1. /\ WillStart(p)' = Started(p, t)
        /\ \A q \in Solo \ {p} : WillStart(q)' = WillStart(q)
    BY DEF Begins, Kept
  <2> QED  BY <1>0, <2>1
<1>4. /\ calls'[p] = Append(calls[p], t) /\ ignored' = ignored
      /\ calls' = [calls EXCEPT ![p] = Append(calls[p], t)]
  BY <1>0 DEF Begins, Base
<1>5. heads' = [heads EXCEPT ![k] = Append(heads[k], [ts |-> t, head |-> n + 1 - c + 1])]
  <2>1. /\ Heads(calls'[p]) =
             Append(Heads(calls[p]),
                    [ts |-> t, head |-> NextHead(calls[p], n, t, Heads(calls[p])[n].head)])
    BY <1>1, <1>4, HeadsAppend
  <2>2. NextHead(calls[p], n, t, Heads(calls[p])[n].head) = n + 1 - c + 1
    BY NextHeadIs
  <2>3. Heads(calls'[p]) = Append(Heads(calls[p]), [ts |-> t, head |-> n + 1 - c + 1])
    BY <2>1, <2>2, Zenon
  <2>4. \A q \in Solo \ {p} : Heads(calls'[q]) = Heads(calls[q])
    BY DEF Kept
  <2> HIDE DEF n, c
  <2>5. heads[k] = Heads(calls[p])
    BY <1>0
  <2> QED  BY <1>0, <2>3, <2>4, <2>5
<1>6. turned' = turned
  BY <1>4
<1>7. entries' = entries \union {k}
  BY <1>0 DEF Begins
<1>8. raised' = IF c = Thresh THEN raised \union {[key |-> k, call |-> n + 1]} ELSE raised
  <2>1. AlertCalls(p)' = AlertCalls(p) \union IF c = Thresh THEN {n + 1} ELSE {}
    BY DEF Begins
  <2>2. \A q \in Solo \ {p} : AlertCalls(q)' = AlertCalls(q)
    BY DEF Kept
  <2> HIDE DEF n, c
  <2>3. CASE c = Thresh
    BY <2>1, <2>2, <2>3
  <2>4. CASE c # Thresh
    <3>1. \A q \in Solo : AlertCalls(q)' = AlertCalls(q)
      BY <2>1, <2>2, <2>4
    <3> QED  BY <2>4, <3>1
  <2> QED  BY <2>3, <2>4
<1>9. SoloClock' = t /\ t \in SoloClock .. MaxTime
  <2>1. Times' = Times \union {t}
    BY <1>1, <1>4, TimesGrow
  <2>2. \A s \in Times : s \in Nat /\ s <= t
    <3>1. Times \subseteq Nat
      BY TimesAre, Bounds
    <3>2. \A s \in Times : s <= clock
      BY DEF SoloOK
    <3> QED  BY <1>1, <3>1, <3>2
  <2>3. t \in Times' /\ \A s \in Times' : s <= t
    BY <1>1, <2>1, <2>2
  <2>4. SoloClock' = Max(Times')
    BY DEF SoloClock, Times
  <2>5. Max(Times') \in Times' /\ \A s \in Times' : Max(Times') >= s
    <3>1. \E m \in Times' : \A s \in Times' : m >= s
      BY <1>1, <2>1, <2>2, <2>3
    <3> QED  BY <3>1, Zenon DEF Max
  <2>6. Max(Times') = t
    <3> DEFINE m == Max(Times')
    <3>1. m \in Times \union {t} /\ m >= t
      BY <2>1, <2>3, <2>5
    <3> HIDE DEF m
    <3>2. m = t
      <4>1. m \in Nat /\ t \in Nat /\ m <= t
        BY <1>1, <2>2, <3>1
      <4> QED  BY <3>1, <4>1
    <3> QED  BY <3>2 DEF m
  <2>7. SoloClock \in Times
    BY SoloClockIs
  <2>8. SoloClock \in Nat /\ SoloClock <= t
    BY <2>2, <2>7
  <2> QED  BY <1>1, <2>4, <2>6, <2>8
<1>10. k \in entries \/ W!HasRoom(k)
  <2> SUFFICES ASSUME k \notin entries PROVE W!HasRoom(k)
      OBVIOUS
  <2> DEFINE T == {q \in Solo : <<k[1], q>> \in entries}
  <2>1. T \subseteq Pids \ {p} /\ p \in Pids
    BY <1>0 DEF Solo
  <2>2. IsFiniteSet(Pids) /\ MapSize \in Nat
    BY RaceAssumption
  <2>3. /\ IsFiniteSet(T) /\ T \subseteq Pids /\ T # Pids
    BY <2>1, <2>2, FS_Subset
  <2>4. /\ Cardinality(T) \in Nat /\ Cardinality(Pids) \in Nat
        /\ Cardinality(T) <= Cardinality(Pids) /\ Cardinality(T) # Cardinality(Pids)
    BY <2>2, <2>3, FS_Subset, FS_CardinalityType
  <2>5. Cardinality(T) < MapSize
    <3> HIDE DEF T
    <3> QED  BY <2>2, <2>4
  <2> QED  BY <2>5, SameCardinality DEF W!HasRoom
<1>11. Cardinality(W!Made) < MaxCalls * Cardinality(Solo)
  BY MadeBelow

<1>12. /\ counts[k] = WillCount(p) /\ starts[k] = WillStart(p)
       /\ heads[k] = Heads(calls[p]) /\ Len(heads[k]) = n
  <2>1. Len(Heads(calls[p])) = Len(calls[p])
    BY <1>1, HeadsAppend
  <2> QED  BY <1>0, <2>1
<1>13. W!NewCount(k, t) = c /\ W!NewStart(k, t) = Started(p, t)
  <2>1. /\ W!NewCount(k, t) = IF Expired(t, starts[k]) THEN 1 ELSE counts[k] + 1
        /\ W!NewStart(k, t) = IF Expired(t, starts[k]) THEN t ELSE starts[k]
    BY DEF W!NewCount, W!NewStart, W!Expired, W!Elapsed, Expired, Elapsed
  <2> QED  BY <1>12, <2>1 DEF Counted, Started
<1>14. W!Fires(k, c) <=> c = Thresh
  <2> HIDE DEF c
  <2> QED  BY <1>0 DEF W!Fires, W!T
<1>15. W!Count(k, t)
  <2>1. c \in Int
    <3>1. calls[p] \in Seq(BootTime .. MaxTime)
      BY <1>0 DEF Base
    <3> DEFINE h == NextHead(calls[p], n, t, Heads(calls[p])[n].head)
    <3>2. c = n + 1 - h + 1 /\ h \in 1 .. n + 1
      BY NextHeadIs
    <3> HIDE DEF c, h, n
    <3> QED  BY <1>1, <3>2
  <2> HIDE DEF c, n
  <2>2. n + 1 - c + 1 = (n + 1) - c + 1
    BY <1>1, <2>1
  <2>3. k \in entries \/ W!HasRoom(k)
    BY <1>10
  <2>4. starts' = [starts EXCEPT ![k] = W!NewStart(k, t)]
    BY <1>3, <1>13, Zenon
  <2>5. counts' = [counts EXCEPT ![k] = W!NewCount(k, t)]
    BY <1>2, <1>13, Zenon
  <2>6. heads' = [heads EXCEPT ![k] =
                    Append(heads[k], [ts |-> t,
                                      head |-> (Len(heads[k]) + 1) - W!NewCount(k, t) + 1])]
    BY <1>5, <1>12, <1>13, <2>2, Zenon
  <2>7. raised' = IF W!Fires(k, W!NewCount(k, t))
                  THEN raised \union {[key |-> k, call |-> Len(heads[k]) + 1]} ELSE raised
    BY <1>8, <1>12, <1>13, <1>14
  <2>8. turned' = turned /\ entries' = entries \union {k} /\ SoloClock' = t
    BY <1>6, <1>7, <1>9
  <2> QED  BY <2>3, <2>4, <2>5, <2>6, <2>7, <2>8, Zenon DEF W!Count, AlertCalls
<1>16. W!SysEnter(k)
  <2>1. W!Cardinality(W!Made) < MaxCalls * Cardinality(Solo)
    BY <1>11, SameCardinality, Zenon
  <2>2. \E s \in SoloClock .. MaxTime : W!Count(k, s)
    BY <1>9, <1>15, Zenon
  <2> QED  BY <2>1, <2>2, Zenon DEF W!SysEnter
<1> QED  BY <1>0, <1>16 DEF W!Next, W!Keys, SoloKeys

-----------------------------------------------------------------------------
(* At the start nothing is counted on either side.                         *)
LEMMA StartsAlike ==
  ASSUME Init
  PROVE  SoloOK /\ W!Init
<1>1. \A p \in Solo :
        /\ calls[p] = <<>> /\ ignored[p] = <<>> /\ count[p] = 0 /\ windowStart[p] = 0
        /\ pc[Runner(p)] = "idle" /\ AlertsOf(p) = {}
  BY RunnerIs DEF Init, Solo, AlertsOf
<1>2. \A p \in Solo : WillCount(p) = 0 /\ WillStart(p) = 0 /\ WillAlert(p) = {}
  BY <1>1 DEF WillCount, WillStart, WillReset, WillAlert, Running
<1>3. \A p \in Solo : ToSet(calls[p] \o ignored[p]) = {}
  <2>1. <<>> \o <<>> = <<>> /\ ToSet(<<>>) = {}
    BY DEF ToSet
  <2> QED  BY <1>1, <2>1, Zenon
<1>4. Times = {BootTime}
  BY <1>3 DEF Times
<1>5. SoloOK
  <2>1. \A p \in Solo : Served(p)
    BY <1>1, <1>2 DEF Served
  <2>2. clock = BootTime /\ BootTime <= BootTime
    BY Bounds DEF Init
  <2> QED  BY <1>4, <2>1, <2>2 DEF SoloOK
<1>6. SoloClock = BootTime
  <2>1. SoloClock = Max({BootTime})
    BY <1>4 DEF SoloClock, Times
  <2>2. \E m \in {BootTime} : \A s \in {BootTime} : m >= s
    BY Bounds
  <2>3. Max({BootTime}) \in {BootTime}
    BY <2>2, Zenon DEF Max
  <2> QED  BY <2>1, <2>3
<1>7. Heads(<<>>) = <<>>
  BY DEF Heads
<1>8. W!Init
  <2>1. \A k \in SoloKeys : k[2] \in Solo
    BY DEF SoloKeys
  <2>2. W!Keys = SoloKeys
    BY DEF W!Keys, SoloKeys
  <2>3. tracked = {}
    BY DEF Init
  <2>4. \A p \in Solo : {a.call : a \in AlertsOf(p)} \union WillAlert(p) = {}
    BY <1>1, <1>2
  <2>5. SoloKeys \intersect ({Rule} \X tracked) = {}
    BY <2>3
  <2>6. UNION {{[key |-> <<Rule, p>>, call |-> n] :
                  n \in {a.call : a \in AlertsOf(p)} \union WillAlert(p)} :
                 p \in Solo} = {}
    BY <2>4
  <2>7. /\ [k \in SoloKeys |-> WillCount(k[2])] = [k \in SoloKeys |-> 0]
        /\ [k \in SoloKeys |-> WillStart(k[2])] = [k \in SoloKeys |-> 0]
    BY <1>2, <2>1
  <2>8. [k \in SoloKeys |-> Heads(calls[k[2]])] = [k \in SoloKeys |-> <<>>]
    BY <1>1, <1>7, <2>1
  <2>9. [k \in SoloKeys |-> ignored[k[2]]] = [k \in SoloKeys |-> <<>>]
    BY <1>1, <2>1
  <2> QED  BY <1>6, <2>2, <2>5, <2>6, <2>7, <2>8, <2>9 DEF W!Init
<1> QED  BY <1>5, <1>8

(* No step spoils what holds of the single-threaded processes, and each is *)
(* one of RateWindow's or changes nothing it sees.                         *)
LEMMA StepsAlike ==
  ASSUME Base, CountsOK, AlertsOK, SoloOK, Cardinality(Pids) <= MapSize, [Next]_vars
  PROVE  SoloOK' /\ (W!Next \/ UNCHANGED W!vars)
<1>0. /\ \A q \in Solo : Served(q)
      /\ \A q \in Solo : /\ q \in Pids /\ Runner(q) \in Threads
                         /\ ProcOf[Runner(q)] = q
      /\ clock \in Nat /\ Times \subseteq Nat
  <2>1. BootTime .. MaxTime \subseteq Nat
    BY Bounds
  <2> QED  BY <2>1, RunnerIs, TimesAre DEF SoloOK, Base
<1>1. ASSUME \A q \in Solo : Kept(q) /\ Served(q)' /\ (q \in tracked' <=> q \in tracked),
             clock' \in Nat, clock <= clock'
      PROVE  SoloOK' /\ UNCHANGED W!vars
  <2>1. Times' = Times
    BY <1>1, TimesStay DEF Kept
  <2>2. \A s \in Times : s <= clock'
    BY <1>0, <1>1 DEF SoloOK
  <2>3. SoloOK'
    BY <1>1, <2>1, <2>2 DEF SoloOK
  <2> QED  BY <1>1, <2>3, KeptStutters
<1>2. ASSUME NEW th \in Threads, Step(th) PROVE SoloOK' /\ (W!Next \/ UNCHANGED W!vars)
  <2>1. ASSUME NEW q \in Solo, th # Runner(q) PROVE Kept(q) /\ Served(q)'
    BY <1>0, <1>2, <2>1, OthersDoNotMove, UnmovedIsKept
  <2>2. CASE Enter(th) /\ ProcOf[th] \in Solo
    <3> DEFINE p == ProcOf[th]
    <3>1. PICK t \in clock .. MaxTime :
            /\ clock' = t /\ Begins(p, t) /\ Served(p)'
            /\ Len(calls[p]) + Len(ignored[p]) < MaxCalls
      BY <2>2, EnterBegins
    <3>2. \A q \in Solo \ {p} : Kept(q) /\ Served(q)'
      BY <1>0, <2>1
    <3>3. W!Next
      BY <2>2, <3>1, <3>2, BeginsCounts
    <3>4. t \in Nat /\ clock <= t /\ t \in BootTime .. MaxTime
      BY <1>0, Bounds DEF Base
    <3>5. Times' = Times \union {t}
      BY <2>2, <3>1, <3>4, TimesGrow DEF Begins
    <3>6. \A s \in Times : s <= t
      BY <1>0, <3>4 DEF SoloOK
    <3>7. t \in Times' /\ \A s \in Times' : s <= t
      BY <3>4, <3>5, <3>6
    <3>8. \A q \in Solo : Served(q)'
      BY <3>1, <3>2
    <3> QED  BY <3>1, <3>3, <3>7, <3>8 DEF SoloOK
  <2>3. CASE Enter(th) /\ ProcOf[th] \notin Solo
    <3>1. PICK t \in clock .. MaxTime :
            clock' = t /\ tracked' = tracked \union {ProcOf[th]}
      BY <2>3, EnterIs
    <3>2. \A q \in Solo : Kept(q) /\ Served(q)' /\ (q \in tracked' <=> q \in tracked)
      BY <1>0, <2>1, <2>3, <3>1
    <3>3. clock' \in Nat /\ clock <= clock'
      BY <1>0, <3>1, Bounds
    <3> QED  BY <1>1, <3>2, <3>3
  <2>4. CASE ~Enter(th)
    <3>1. tracked' = tracked /\ clock' = clock
      BY <1>2, <2>4 DEF Step, Check, ResetCount, ResetStart, Load, Store, Compare, entry
    <3>2. ASSUME NEW q \in Solo, th = Runner(q) PROVE Kept(q) /\ Served(q)'
      BY <1>0, <1>2, <2>4, <3>2, RunGoesOn
    <3>3. \A q \in Solo : Kept(q) /\ Served(q)' /\ (q \in tracked' <=> q \in tracked)
      BY <2>1, <3>1, <3>2
    <3> QED  BY <1>0, <1>1, <3>1, <3>3
  <2> QED  BY <2>2, <2>3, <2>4
<1>3. CASE UNCHANGED vars
  <2>1. \A q \in Solo : Unmoved(q) /\ (q \in tracked' <=> q \in tracked)
    BY <1>3 DEF vars, Unmoved, AlertsOf
  <2>2. \A q \in Solo : Kept(q) /\ Served(q)' /\ (q \in tracked' <=> q \in tracked)
    BY <1>0, <2>1, UnmovedIsKept
  <2>3. clock' = clock
    BY <1>3 DEF vars
  <2> QED  BY <1>0, <1>1, <2>2, <2>3
<1> QED  BY <1>2, <1>3 DEF Next

(* The processes of one thread are served as RateWindow promises, by both  *)
(* builds and in every interleaving of their runs with those of others, as *)
(* long as the hash has room for every process.                            *)
THEOREM RateWindowIsImplemented ==
  ASSUME Cardinality(Pids) <= MapSize
  PROVE  Spec => ImplementsRateWindow
<1>1. Init => SoloOK /\ W!Init
  BY StartsAlike
<1>2. RaceOK /\ SoloOK /\ [Next]_vars => SoloOK' /\ [W!Next]_(W!vars)
  BY StepsAlike DEF RaceOK
<1> QED  BY <1>1, <1>2, RaceCorrect, PTL DEF Spec, ImplementsRateWindow, W!Spec

-----------------------------------------------------------------------------
(* What RateWindowProofs proves of RateWindow holds under the mapping.     *)
P == INSTANCE RateWindowProofs WITH
  Rules <- {Rule},
  Pids <- Solo,
  Thresh <- [r \in {Rule} |-> Thresh],
  MaxCalls <- MaxCalls * Cardinality(Solo),
  clock <- SoloClock,
  tracked <- SoloKeys \intersect ({Rule} \X tracked),
  count <- [k \in SoloKeys |-> WillCount(k[2])],
  windowStart <- [k \in SoloKeys |-> WillStart(k[2])],
  calls <- [k \in SoloKeys |-> Heads(calls[k[2]])],
  ignored <- [k \in SoloKeys |-> ignored[k[2]]],
  alerts <- UNION {{[key |-> <<Rule, p>>, call |-> n] :
                      n \in {a.call : a \in AlertsOf(p)} \union WillAlert(p)} :
                     p \in Solo}

(* The constants of the mapping are what RateWindow asks for.              *)
LEMMA MappingFits == P!RateAssumption
<1>1. IsFiniteSet(Pids) /\ Solo \subseteq Pids
  BY RaceAssumption DEF Solo
<1>2. IsFiniteSet(Solo) /\ Cardinality(Solo) \in Nat
  BY <1>1, FS_Subset, FS_CardinalityType
<1>3. P!IsFiniteSet(Solo)
  BY <1>2 DEF IsFiniteSet, P!IsFiniteSet
<1>4. MaxCalls * Cardinality(Solo) \in Nat
  BY <1>2, RaceAssumption
<1>5. [r \in {Rule} |-> Thresh] \in [{Rule} -> Nat \ {0, 1}]
  BY RaceAssumption
<1> QED  BY <1>3, <1>4, <1>5, RaceAssumption DEF P!RateAssumption

(* Both instances are of one specification.                                *)
LEMMA SameInstance == W!Spec => P!Spec
<1>1. W!Init => P!Init
  BY Zenon DEF W!Init, P!Init, W!Keys, P!Keys
<1>2. [W!Next]_(W!vars) => [P!Next]_(P!vars)
  BY Zenon DEF W!Next, P!Next, W!vars, P!vars, W!Keys, P!Keys, W!SysEnter, P!SysEnter,
     W!Made, P!Made, W!Count, P!Count, W!TurnAway, P!TurnAway, W!HasRoom, P!HasRoom,
     W!Fires, P!Fires, W!T, P!T, W!NewCount, P!NewCount, W!NewStart, P!NewStart,
     W!Expired, P!Expired, W!Elapsed, P!Elapsed, W!Cardinality, P!Cardinality
<1> QED  BY <1>1, <1>2, PTL DEF W!Spec, P!Spec

(* Calls i to n of a process were made within one window length.           *)
Together(p, i, n) == i >= 1 /\ calls[p][n] - calls[p][i] <= Window

(* What this says of a single-threaded process, in the terms of RateRace:  *)
(* a call that alerts, or will when its run ends, is the last of Thresh    *)
(* calls within one window length; two of them are at least Thresh calls   *)
(* apart; and 2*Thresh-2 calls within one window length include one that   *)
(* alerts or come within a window length after it.                         *)
SoloAlertsRight ==
  \A p \in Solo :
    /\ \A c \in AlertCalls(p) : /\ c \in 1 .. Len(calls[p])
                                /\ Together(p, c - Thresh + 1, c)
    /\ \A c, d \in AlertCalls(p) : c < d => d - c >= Thresh
    /\ \A n \in 1 .. Len(calls[p]) :
         Together(p, n - (2 * Thresh - 2) + 1, n) =>
           \E c \in AlertCalls(p) :
             /\ c \in 1 .. n
             /\ calls[p][n - (2 * Thresh - 2) + 1] - calls[p][c] <= Window

(* The windows of a process hold its calls at their times.                 *)
LEMMA HeadsKeepTimes ==
  ASSUME Base, NEW p \in Solo
  PROVE  /\ Len(Heads(calls[p])) = Len(calls[p]) /\ Len(calls[p]) \in Nat
         /\ \A i \in 1 .. Len(calls[p]) : Heads(calls[p])[i].ts = calls[p][i]
<1>1. calls[p] \in Seq(Nat) /\ Len(calls[p]) \in Nat
  <2>1. calls[p] \in Seq(BootTime .. MaxTime)
    BY DEF Base, Solo
  <2> QED  BY <2>1, Wider, Bounds
<1>2. PICK f : Heads(calls[p]) = [i \in 1 .. Len(calls[p]) |->
                                    [ts |-> calls[p][i], head |-> f[i]]]
  BY <1>1, HeadsAre
<1>3. Len(Heads(calls[p])) = Len(calls[p])
  BY <1>1, HeadsAppend
<1> QED  BY <1>1, <1>2, <1>3

(* Alerts, founded and apart, and storms, as RateWindow states them, say   *)
(* this of the calls of RateRace.                                          *)
LEMMA RightIsRight ==
  ASSUME Base, P!AlertJustified, P!AlertsDisjoint, P!StormCaught
  PROVE  SoloAlertsRight
<1> SUFFICES ASSUME NEW p \in Solo
             PROVE  /\ \A c \in AlertCalls(p) : /\ c \in 1 .. Len(calls[p])
                                                /\ Together(p, c - Thresh + 1, c)
                    /\ \A c, d \in AlertCalls(p) : c < d => d - c >= Thresh
                    /\ \A n \in 1 .. Len(calls[p]) :
                         Together(p, n - (2 * Thresh - 2) + 1, n) =>
                           \E c \in AlertCalls(p) :
                             /\ c \in 1 .. n
                             /\ calls[p][n - (2 * Thresh - 2) + 1] - calls[p][c] <= Window
    BY DEF SoloAlertsRight
<1> DEFINE k == <<Rule, p>>
           heads == [j \in SoloKeys |-> Heads(calls[j[2]])]
           raised == UNION {{[key |-> <<Rule, q>>, call |-> n] :
                               n \in {a.call : a \in AlertsOf(q)} \union WillAlert(q)} :
                              q \in Solo}
           hs == Heads(calls[p])
           ts == calls[p]
<1>1. k \in SoloKeys /\ k \in P!Keys /\ heads[k] = hs /\ P!T(k) = Thresh
  BY DEF SoloKeys, P!Keys, P!T
<1>2. /\ Len(hs) = Len(ts) /\ Len(ts) \in Nat
      /\ \A i \in 1 .. Len(ts) : hs[i].ts = ts[i]
  BY HeadsKeepTimes
<1>3. \A c : c \in AlertCalls(p) <=> [key |-> k, call |-> c] \in raised
  <2>1. raised = UNION {{[key |-> <<Rule, q>>, call |-> n] : n \in AlertCalls(q)} : q \in Solo}
    BY Zenon DEF AlertCalls
  <2> HIDE DEF raised
  <2>2. ASSUME NEW c \in AlertCalls(p) PROVE [key |-> k, call |-> c] \in raised
    BY <2>1
  <2>3. ASSUME NEW c, [key |-> k, call |-> c] \in raised PROVE c \in AlertCalls(p)
    <3>1. PICK q \in Solo : \E n \in AlertCalls(q) :
            [key |-> k, call |-> c] = [key |-> <<Rule, q>>, call |-> n]
      BY <2>1, <2>3
    <3>2. q = p /\ c \in AlertCalls(q)
      BY <3>1
    <3> QED  BY <3>1, <3>2
  <2> QED  BY <2>2, <2>3
<1>4. \A a \in raised : a = [key |-> a.key, call |-> a.call]
  OBVIOUS
<1>5. Thresh \in Nat /\ Thresh >= 2
  BY Bounds
<1>6. \A a \in raised : /\ a.call \in 1 .. Len(heads[a.key])
                        /\ P!Within(a.key, a.call - P!T(a.key) + 1, a.call)
  BY Zenon DEF P!AlertJustified
<1>7. \A a, b \in raised :
        a.key = b.key /\ a.call < b.call => b.call - a.call >= P!T(a.key)
  BY Zenon DEF P!AlertsDisjoint
<1>8. \A n \in 1 .. Len(heads[k]) :
        P!Within(k, n - (2 * P!T(k) - 2) + 1, n) =>
          \E a \in raised : /\ a.key = k /\ a.call \in 1 .. n
                            /\ heads[k][n - (2 * P!T(k) - 2) + 1].ts - heads[k][a.call].ts
                                 <= Window
  BY <1>1, Zenon DEF P!StormCaught
<1>9. \A i, n : P!Within(k, i, n) <=> i >= 1 /\ heads[k][n].ts - heads[k][i].ts <= Window
  BY DEF P!Within
<1> HIDE DEF raised, heads, hs, ts
<1>10. ASSUME NEW c \in AlertCalls(p)
       PROVE  c \in 1 .. Len(ts) /\ Together(p, c - Thresh + 1, c)
  <2> DEFINE a == [key |-> k, call |-> c]
  <2>1. a \in raised /\ a.key = k /\ a.call = c
    BY <1>3
  <2>2. c \in 1 .. Len(hs) /\ P!Within(k, c - Thresh + 1, c)
    BY <1>1, <1>6, <2>1
  <2>3. c - Thresh + 1 >= 1 /\ hs[c].ts - hs[c - Thresh + 1].ts <= Window
    BY <1>1, <1>9, <2>2
  <2>4. c \in 1 .. Len(ts) /\ c - Thresh + 1 \in 1 .. Len(ts)
    BY <1>2, <1>5, <2>2, <2>3
  <2> QED  BY <1>2, <2>3, <2>4 DEF Together, ts
<1>11. ASSUME NEW c \in AlertCalls(p), NEW d \in AlertCalls(p), c < d
       PROVE  d - c >= Thresh
  <2> DEFINE a == [key |-> k, call |-> c]
             b == [key |-> k, call |-> d]
  <2>1. a \in raised /\ a.key = k /\ a.call = c /\ b \in raised /\ b.key = k /\ b.call = d
    BY <1>3
  <2> QED  BY <1>1, <1>7, <1>11, <2>1
<1>12. ASSUME NEW n \in 1 .. Len(ts), Together(p, n - (2 * Thresh - 2) + 1, n)
       PROVE  \E c \in AlertCalls(p) :
                c \in 1 .. n /\ ts[n - (2 * Thresh - 2) + 1] - ts[c] <= Window
  <2> DEFINE i == n - (2 * Thresh - 2) + 1
  <2>1. i >= 1 /\ ts[n] - ts[i] <= Window /\ i \in 1 .. n /\ n \in 1 .. Len(ts)
        /\ i \in 1 .. Len(ts)
    <3>1. i >= 1 /\ ts[n] - ts[i] <= Window
      BY <1>12 DEF Together, ts
    <3> QED  BY <1>2, <1>5, <3>1
  <2>2. P!Within(k, n - (2 * P!T(k) - 2) + 1, n)
    BY <1>1, <1>2, <1>9, <2>1
  <2>3. PICK a \in raised : /\ a.key = k /\ a.call \in 1 .. n
                            /\ hs[i].ts - hs[a.call].ts <= Window
    BY <1>1, <1>2, <1>8, <2>2
  <2>4. a.call \in AlertCalls(p)
    BY <1>3, <1>4, <2>3
  <2>5. a.call \in 1 .. Len(ts)
    BY <1>2, <2>1, <2>3
  <2> QED  BY <1>2, <2>1, <2>3, <2>4, <2>5
<1> QED  BY <1>10, <1>11, <1>12 DEF ts

(* The alerts for a process of one thread are founded, apart and in time,  *)
(* in both builds and however the runs of other processes overlap with     *)
(* its own, as long as the hash has room for every process.                *)
THEOREM SoloAlertsAreRight ==
  ASSUME Cardinality(Pids) <= MapSize
  PROVE  Spec => []SoloAlertsRight
<1>1. P!Spec => []P!AlertJustified
  BY MappingFits, P!AlertsAreJustified
<1>2. P!Spec => []P!AlertsDisjoint
  BY MappingFits, P!AlertsAreDisjoint
<1>3. P!Spec => []P!StormCaught
  BY MappingFits, P!StormsAreCaught
<1>4. Base /\ P!AlertJustified /\ P!AlertsDisjoint /\ P!StormCaught => SoloAlertsRight
  BY RightIsRight
<1>5. RaceOK => Base
  BY DEF RaceOK
<1>6. Spec => W!Spec
  BY RateWindowIsImplemented, Zenon DEF ImplementsRateWindow
<1> QED  BY <1>1, <1>2, <1>3, <1>4, <1>5, <1>6, SameInstance, RaceCorrect, PTL

=============================================================================
