--------------------------------- MODULE MCRisk --------------------------------
(***************************************************************************)
(* Small instances of RiskManager for TLC.  Readings of 100, 99 and 97     *)
(* stand for "at the mark", "at the 1% daily limit" and "at the 3%         *)
(* drawdown limit" of config.yaml; 0 is an unusable reading.  One clock    *)
(* unit is the clock tolerance, a day is 2 units, and the clock runs from  *)
(* 1 to MaxTime across one midnight.                                       *)
(***************************************************************************)
EXTENDS RiskManager

MCEquities == {0, 97, 99, 100}

\* One ordinary correction; two in a row exceed the tolerance.
MCClockSteps == {-1, 1}
================================================================================
