--------------------------------- MODULE MCLive --------------------------------
(***************************************************************************)
(* Two trades of two contracts on either side, so that an entry or a level *)
(* of the first can meet the second, in part or whole (a rung of the       *)
(* ladder is empty); two attempts at a stop; two protect calls (the        *)
(* entry's and one of _reprotect); a countdown that survives one failed    *)
(* refresh but not two.                                                    *)
(*                                                                         *)
(* MCFaults leaves out the faults under which the properties do not hold:  *)
(* a cancel that fails on an open order and an entry answered without an   *)
(* id (the loop tracks what is not there), an arming that fails (the entry *)
(* is unguarded by the countdown from the start) and a failed listing at   *)
(* start (leftovers are not seen).                                         *)
(***************************************************************************)
EXTENDS LiveTrader

MCDirections == {1, -1}
MCLong == {1}
MCShort == {-1}

MCFaults == {"read", "refuse", "lost", "unfilled", "receipt", "crash", "interrupt", "refresh"}

\* Bound: the second trade meets at most one level of the first, and is protected by
\* the entry's call alone.
SecondTradeBound ==
    trade = 2 => /\ Cardinality({t \in triggers : t.trade = 1}) <= 1
                 /\ job.call <= 1

\* One fault each for the runs that show a disagreement.
MCCloseFaults == {"refuse", "unfilled"}
MCInterruptFaults == {"interrupt"}
MCCancelFaults == {"cancel"}
================================================================================
