--------------------------- MODULE MCTimedChecks ---------------------------
(* TimedChecks with ticks of half a second, on the slowest machine that     *)
(* MachineAssumption allows: a process needs up to 5.5 s to its first       *)
(* statement, a wake-up with its connection up to 3 s.                      *)
EXTENDS TimedChecks
=============================================================================
