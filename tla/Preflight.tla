------------------------------- MODULE Preflight -------------------------------
(***************************************************************************)
(* execution/preflight.py over config.py and the reads of live/loop.py:    *)
(* may live trading start?  Anything that is not a pass blocks.            *)
(*                                                                         *)
(* A reads set names what could be read: "account" (balance and            *)
(* positions), "orders" (the two listings of resting orders), "latches".   *)
(* The margin mode is left out: it is known of open positions only, and    *)
(* those block by themselves.                                              *)
(***************************************************************************)
EXTENDS Validation

Config == [dryRun : {"unset", "true", "false", "garbage"},
           mode : {"paper", "backtest", "live"}, confirm : BOOLEAN, credentials : BOOLEAN,
           drifted : BOOLEAN]  \* martingale, averaging down or a taker entry at 100x

Account == [funded : BOOLEAN, positions : 0..1, orders : 0..1]

Backtests == {"none", "thin", "edge", "no edge"}

\* Only an explicit negative clears DRY_RUN; all three switches must agree.
LiveEnabled(config) == config.dryRun = "false" /\ config.mode = "live" /\ config.confirm

\* load_config returns rather than raises.
Loads(config) == ~config.drifted /\ (LiveEnabled(config) => config.credentials)

\* What the code takes the account to be: listings that fail are read as empty.
Snapshot(account, reads) ==
    [account EXCEPT !.orders = IF "orders" \in reads THEN @ ELSE 0]

\* A read of the latches that fails is read as none.
LatchesSeen(latched, reads) == latched /\ "latches" \in reads

PaperValidated(evidence) ==
    IF evidence.trades = <<>> THEN "fail"
    ELSE IF Validated(evidence) THEN "pass"
    ELSE "insufficient"

BacktestEdge(backtest) ==
    CASE backtest = "edge" -> "pass"
      [] backtest = "thin" -> "insufficient"
      [] OTHER -> "fail"

(* The four groups of checks. *)

EvidenceChecked(evidence, backtest) == {PaperValidated(evidence), BacktestEdge(backtest)}

GateChecked(config) ==
    {Judge(~LiveEnabled(config)), Judge(~config.credentials), Judge(config.drifted)}

AccountChecked(account, reads) ==
    {IF "account" \notin reads THEN "fail"
     ELSE Judge(~account.funded \/ account.positions # 0
                \/ Snapshot(account, reads).orders # 0)}

RiskChecked(latched, reads) == {Judge(LatchesSeen(latched, reads))}

\* Fail-closed: a check that is not a pass blocks.
Go(statuses) == statuses = {"pass"}
================================================================================
