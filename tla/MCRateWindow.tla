----------------------------- MODULE MCRateWindow -----------------------------
(* Small instances of RateWindow: windows of two ticks, low thresholds.    *)
EXTENDS RateWindow, TLC

MCThreshMixed == [r \in Rules |-> IF r = "openat" THEN 3 ELSE 2]

AlikePids == Permutations(Pids)
=============================================================================
