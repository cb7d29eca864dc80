------------------------------- MODULE Validation ------------------------------
(***************************************************************************)
(* paper/validation.py: what a paper run swears to, and how its testimony  *)
(* is graded.  Every check passes, fails, or is withheld ("insufficient"); *)
(* only a report in which all of them pass is validated.                   *)
(*                                                                         *)
(* All trades of a run risk the same cash here, so expectancy in R and     *)
(* profit factor are both the sign of what the trades add up to.           *)
(***************************************************************************)
EXTENDS Integers, SequencesExt

CONSTANTS
    MinTrades,  \* backtest.min_trades_for_verdict
    MaxLossPct  \* validation.max_loss_r, in percent of R

ASSUME ValidationAssumption ==
    MinTrades \in Nat \ {0} /\ MaxLossPct \in Nat /\ MaxLossPct >= 100

Statuses == {"pass", "fail", "insufficient"}

Net(trades) == FoldLeft(LAMBDA sum, trade : sum + trade.net, 0, trades)

\* What the trade table can testify to, with nobody having watched.
FromStore(trades, liveRows) ==
    [observed |-> FALSE, simulated |-> ~liveRows, filled |-> Len(trades), flattened |-> 0,
     unprotected |-> FALSE, openAtEnd |-> FALSE, net |-> Net(trades), trades |-> trades,
     deep |-> FALSE]

Judge(bad) == IF bad THEN "fail" ELSE "pass"

Withheld(evidence, status) == IF evidence.observed THEN status ELSE "insufficient"

\* t lost more than the tolerated multiple of what it risked.
LostTooMuch(t) == 100 * t.net < -(MaxLossPct * t.risk)

ConductChecks(evidence) ==
    LET trades == Range(evidence.trades)
        graded == {t \in trades : t.net # 0}
        reconciles == evidence.flattened > 0 \/ evidence.net = Net(evidence.trades)
    IN [simulation_only |-> Judge(~evidence.simulated),
        stop_on_every_position |-> Withheld(evidence, Judge(evidence.unprotected)),
        stop_recorded |-> Judge(\E t \in trades : t.gap <= 0),
        loss_within_budget |->
            Judge((graded = {} /\ trades # {}) \/ \E t \in graded : LostTooMuch(t)),
        ledger_reconciles |-> Withheld(evidence, Judge(~reconciles)),
        flat_at_end |-> Withheld(evidence, Judge(evidence.openAtEnd))]

EvidenceChecks(evidence) ==
    LET enough == Len(evidence.trades) >= MinTrades
    IN [exercised |-> IF evidence.filled > 0 THEN "pass" ELSE "insufficient",
        sample_size |-> IF enough THEN "pass" ELSE "insufficient",
        edge_not_from_leverage |->
            IF enough THEN Judge(Net(evidence.trades) <= 0) ELSE "insufficient",
        drawdown_within_limit |-> Judge(evidence.deep)]

Values(checks) == {checks[name] : name \in DOMAIN checks}

\* Mutant: a check that was withheld does not count against the run.
ValidatedUnlessFailed(evidence) ==
    "fail" \notin Values(ConductChecks(evidence)) \cup Values(EvidenceChecks(evidence))

\* Fail-closed: everything passed, and nothing was merely unmeasured.
Validated(evidence) ==
    Values(ConductChecks(evidence)) \cup Values(EvidenceChecks(evidence)) = {"pass"}
================================================================================
