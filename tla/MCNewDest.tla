------------------------------ MODULE MCNewDest ------------------------------
(* Small instances of NewDest: two or three threads and two destinations.  *)
EXTENDS NewDest, TLC

(* Threads, destinations and processors are each alike.                    *)
Alike ==
  Permutations(Threads) \union Permutations(Ips) \union Permutations(Cpus)
=============================================================================
