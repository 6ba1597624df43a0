------------------------------ MODULE PerfBuffer ------------------------------
(***************************************************************************)
(* The channel every probe reports through: a BPF_PERF_OUTPUT map, which   *)
(* is a ring buffer per CPU that BCC opens with open_perf_buffer and reads *)
(* with perf_buffer_poll.  It is not code of this repository; this is what *)
(* the probes and app.py can observe of it.                                *)
(*                                                                         *)
(* perf_submit writes to the ring of the CPU it runs on.  It fails, and no *)
(* probe looks at its result, while the ring is not open and when the ring *)
(* is full.  The rings of different CPUs are read in no particular order.  *)
(***************************************************************************)
EXTENDS Naturals, Sequences, SequencesExt

CONSTANTS
  Cpus,      \* the processors
  RingSize   \* events that fit in the ring of a processor

ASSUME PerfBufferAssumption == RingSize \in Nat

VARIABLES
  opened,     \* the processors whose ring is open
  ring,       \* per processor: the events submitted and not yet read
  delivered,  \* the events handed to the Python callback
  lost        \* the events no callback will see

perfVars == <<opened, ring, delivered, lost>>

InRings == UNION {ToSet(ring[cpu]) : cpu \in Cpus}

(* Everything perf_submit was called with.                                 *)
Submitted == delivered \union lost \union InRings

PerfTypeOK(Event) ==
  /\ opened \subseteq Cpus
  /\ ring \in [Cpus -> Seq(Event)]
  /\ \A cpu \in Cpus : Len(ring[cpu]) <= RingSize
  /\ delivered \subseteq Event
  /\ lost \subseteq Event

-----------------------------------------------------------------------------
PerfInit ==
  /\ opened = {}
  /\ ring = [cpu \in Cpus |-> <<>>]
  /\ delivered = {}
  /\ lost = {}

(* open_perf_buffer opens the rings one processor after the other.         *)
OpenRing(cpu) ==
  /\ cpu \notin opened
  /\ opened' = opened \union {cpu}
  /\ UNCHANGED <<ring, delivered, lost>>

PerfSubmit(cpu, e) ==
  /\ IF cpu \in opened /\ Len(ring[cpu]) < RingSize
     THEN /\ ring' = [ring EXCEPT ![cpu] = Append(@, e)]
          /\ UNCHANGED lost
     ELSE /\ lost' = lost \union {e}
          /\ UNCHANGED ring
  /\ UNCHANGED <<opened, delivered>>

(* perf_buffer_poll hands the oldest event of a ring to the callback.      *)
Deliver(cpu) ==
  /\ ring[cpu] # <<>>
  /\ delivered' = delivered \union {Head(ring[cpu])}
  /\ ring' = [ring EXCEPT ![cpu] = Tail(@)]
  /\ UNCHANGED <<opened, lost>>
=============================================================================
