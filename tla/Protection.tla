------------------------------- MODULE Protection ------------------------------
(***************************************************************************)
(* execution/protection.py: ProtectionEngine.protect, one action per call  *)
(* to the exchange.  arm the countdown -> place the stop -> read it back   *)
(* -> only then the take-profit ladder; no verified stop after SlAttempts  *)
(* tries -> market-close.                                                  *)
(*                                                                         *)
(* Faults of its own:                                                      *)
(*   "arm"      protect's arming of the countdown raises                   *)
(*   "refresh"  a later refresh, or the release at the end, raises         *)
(*   "receipt"  a stop is accepted that never becomes a live trigger       *)
(***************************************************************************)
EXTENDS OrderManager

CONSTANTS
    SlAttempts,      \* protection.sl_retry_attempts
    Tp1Pct, Tp2Pct,  \* tp1_close_pct and tp2_close_pct, in percent
    Outage           \* refreshes in a row that may fail before the countdown expires

ASSUME ProtectionAssumption ==
    /\ SlAttempts \in Nat \ {0}
    /\ Tp1Pct \in 1..99 /\ Tp2Pct \in 1..99 /\ Tp1Pct + Tp2Pct < 100
    /\ Outage \in Nat \ {0}

VARIABLES
    job,    \* the protect call in hand: its caller, arguments and progress
    missed  \* refreshes of the countdown that failed in a row

protection == <<job, missed>>

Job == [caller : {"enter", "reprotect"}, call : Nat, direction : {1, -1},
        size : -Size..Size, try : 1..SlAttempts, levels : SUBSET Trigger]

ProtectionTypeOK ==
    /\ job \in Job
    /\ missed \in 0..Outage

NoJob == [caller |-> "enter", call |-> 0, direction |-> 1, size |-> 0, try |-> 1,
          levels |-> {}]

ProtectionInit ==
    /\ job = NoJob
    /\ missed = 0

ProtectStates == {"arm", "stop", "verify", "legs", "emergency", "confirm"}
Outcomes == {"protected", "flattened", "unprotected"}

--------------------------------------------------------------------------------
(* Levels *)

\* A long's stop fires at or below its price, a short's at or above.
StopTriggerRule(direction) == IF direction > 0 THEN "below" ELSE "above"
TargetRule(direction) == IF direction > 0 THEN "above" ELSE "below"

\* take_profit_ladder: floors for the first two rungs, the rest for the runner.
LegSize(name, held) ==
    LET first == (held * Tp1Pct) \div 100
        second == (held * Tp2Pct) \div 100
    IN CASE name = "tp1" -> first
         [] name = "tp2" -> second
         [] name = "tp3" -> held - first - second

Rung(name) == CASE name = "tp1" -> 1 [] name = "tp2" -> 2 [] name = "tp3" -> 3

Level(name, size, at, rule) ==
    [trade |-> trade, call |-> job.call, name |-> name, try |-> job.try,
     size |-> size, at |-> at, rule |-> rule]

StopLevel == Level("stop", -job.size, -job.direction, StopTriggerRule(job.direction))

Ladder ==
    {Level(name, -job.direction * LegSize(name, Abs(job.size)),
           job.direction * Rung(name), TargetRule(job.direction)) :
        name \in {n \in {"tp1", "tp2", "tp3"} : LegSize(n, Abs(job.size)) > 0}}

--------------------------------------------------------------------------------
(* The countdown *)

\* countdown_cancel_all: a failure is swallowed, the countdown stays as it was.
Countdown(running, fault) ==
    \/ armed' = running /\ missed' = 0
    \/ fault \in Faults /\ missed' = Least(missed + 1, Outage) /\ UNCHANGED armed

--------------------------------------------------------------------------------
(* protect *)

\* The call itself: nothing sent yet.  Calls are counted within a trade.
Protect(caller, direction, size) ==
    /\ job' = [caller |-> caller, call |-> IF caller = "enter" THEN 1 ELSE job.call + 1,
               direction |-> direction, size |-> size, try |-> 1, levels |-> {}]
    /\ pc' = "arm"

\* The caller has its result; only the count outlives the call.
Returned == job' = [NoJob EXCEPT !.call = job.call]

Arm ==
    /\ pc = "arm"
    /\ Countdown(TRUE, "arm")
    /\ pc' = "stop"
    /\ UNCHANGED <<trade, record, pos, orders, triggers, job>>

\* Mutant: one attempt too many.
NextTryOnceMore ==
    IF job.try <= SlAttempts
    THEN job' = [job EXCEPT !.try = @ + 1] /\ pc' = "stop"
    ELSE pc' = "emergency" /\ UNCHANGED job

\* The next attempt has a client id of its own; after the last one, the way out
\* is the emergency close.
NextTry ==
    IF job.try < SlAttempts
    THEN job' = [job EXCEPT !.try = @ + 1] /\ pc' = "stop"
    ELSE pc' = "emergency" /\ UNCHANGED job

PlaceStop ==
    /\ pc = "stop"
    /\ \/ /\ triggers' = triggers \cup {StopLevel}
          /\ \/ pc' = "verify" /\ UNCHANGED job
             \/ "lost" \in Faults /\ NextTry
       \/ /\ UNCHANGED triggers
          /\ \/ "receipt" \in Faults /\ pc' = "verify" /\ UNCHANGED job
             \/ "refuse" \in Faults /\ NextTry
    /\ UNCHANGED <<trade, record, pos, orders, armed, missed>>

\* Mutant: the receipt is taken for the stop.
VerifyStopTrusting ==
    /\ pc = "verify"
    /\ job' = [job EXCEPT !.levels = {StopLevel}]
    /\ pc' = "legs"
    /\ UNCHANGED <<trade, record, venue, missed>>

\* The stop counts once it is read back by its client id.
VerifyStop ==
    /\ pc = "verify"
    /\ \/ /\ StopLevel \in triggers
          /\ job' = [job EXCEPT !.levels = {StopLevel}]
          /\ pc' = "legs"
       \/ /\ StopLevel \notin triggers \/ "read" \in Faults
          /\ NextTry
    /\ UNCHANGED <<trade, record, venue, missed>>

\* One POST per rung; the levels that answered are known by their order id.
PlaceLegs ==
    /\ pc = "legs"
    /\ \E resting \in SUBSET Ladder :
          \E known \in SUBSET resting :
             /\ resting # Ladder => "refuse" \in Faults
             /\ known # resting => "lost" \in Faults
             /\ triggers' = triggers \cup resting
             /\ job' = [job EXCEPT !.levels = @ \cup known]
    /\ pc' = "protected"
    /\ UNCHANGED <<trade, record, pos, orders, armed, missed>>

EmergencyClose ==
    /\ pc = "emergency"
    /\ \/ ClosePosition(FALSE) /\ pc' = "confirm"
       \/ ClosePosition(TRUE) /\ pc' = "raised"
    /\ UNCHANGED <<trade, record, protection>>

\* An unreadable size is caught and counts as not flattened; any other failure of
\* the read is not caught.
ConfirmClose ==
    /\ pc = "confirm"
    /\ \/ pc' = IF pos = 0 THEN "flattened" ELSE "unprotected"
       \/ "read" \in Faults /\ pc' \in {"unprotected", "raised"}
    /\ UNCHANGED <<trade, record, venue, protection>>

ProtectStep ==
    Arm \/ PlaceStop \/ VerifyStop \/ PlaceLegs \/ EmergencyClose \/ ConfirmClose
================================================================================
