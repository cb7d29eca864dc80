-------------------------------- MODULE Backtest --------------------------------
(***************************************************************************)
(* backtest/engine.py: BacktestEngine.run replaying one symbol bar by bar  *)
(* through the sizer and the liquidation guard, with the shipped settings: *)
(* fixed slippage, liquidation and funding simulated.                      *)
(*                                                                         *)
(* A bar is read relative to the entry price of what is resting or held:   *)
(* worst and best are its extremes on the losing and the winning side.     *)
(* Breakers and strategy are one choice, made at each bar a decision is    *)
(* taken on: to want a trade there or not.  Fees, funding and slippage are *)
(* charged on the value at the entry price.                                *)
(***************************************************************************)
EXTENDS LiquidationGuard

CONSTANTS
    Ladders, Contracts,   \* what the exchange may publish for the symbol
    Setups,               \* entry's grid residue, ATR and swing of a signal's bar
    Offsets,              \* prices of later bars, relative to the entry, winning side up
    Slippage,             \* BacktestParams.fixed_slippage
    FundingRate,          \* .funding_rate
    StartingEquity,       \* .starting_equity
    ExpiresAfter,         \* max(1, entry_fill_timeout_seconds // interval), in bars
    MaxBars,              \* bound: bars replayed
    MaxTrades,            \* bound: no entry is placed after this many trades
    Nothing

ASSUME BacktestAssumption ==
    /\ Contracts \subseteq Contract
    /\ \A ladder \in Ladders : ladder \in Seq(Tier) /\ ladder # << >>
    /\ Setups \subseteq Setup
    /\ Offsets \subseteq Int
    /\ Slippage \in Nat
    /\ FundingRate \in Nat
    /\ StartingEquity \in Nat \ {0}
    /\ ExpiresAfter \in Nat \ {0}
    /\ MaxBars \in Nat \ {0}
    /\ MaxTrades \in Nat

VARIABLES
    ladder, contract,  \* the symbol's, read once
    bars,              \* bars left to replay
    phase,             \* "bar", then "decide" where the bar leaves room for an entry
    equity,
    pending,           \* the resting entry: its plan and the bars it has waited
    position,
    answer,            \* what the last decision came to
    vetoed,            \* the plan the guard turned down in it
    \* Observers, never read by an action:
    last,              \* the trade booked last
    ledger             \* what all trades were charged and earned

market == <<ladder, contract>>
vars == <<market, bars, phase, equity, pending, position, answer, vetoed, last, ledger>>

Rungs == 1..3

Pending == [plan : Plan, waited : Nat]

\* exitFees and entryFee make up position["fees"]; low is an observer: the worst price of
\* the bars since the fill bar.
Position == [plan : Plan, remaining : Nat, targets : SUBSET Rungs, realised : Int,
             exitFees : Int, entryFee : Int, funding : Int, low : Int, held : Nat]

Trade == [plan : Plan, gross : Int, exitFees : Int, entryFee : Int, funding : Int,
          reason : {"stop", "liquidation", "target", "end_of_data"}, low : Int, held : Nat]

ASSUME NothingAssumption == Nothing \notin Pending \cup Position \cup Trade \cup Plan

TypeOK ==
    /\ ladder \in Ladders
    /\ contract \in Contracts
    /\ bars \in 0..MaxBars
    /\ phase \in {"bar", "decide", "done"}
    /\ equity \in Int
    /\ pending \in Pending \cup {Nothing}
    /\ position \in Position \cup {Nothing}
    /\ answer \in {"none", "refused", "unsettled", "vetoed", "placed"}
    /\ vetoed \in Plan \cup {Nothing}
    /\ last \in Trade \cup {Nothing}
    /\ ledger \in [trades : Nat, net : Int, entryFees : Int, funding : Int]

Init ==
    /\ ladder \in Ladders
    /\ contract \in Contracts
    /\ bars = MaxBars
    /\ phase = "bar"
    /\ equity = StartingEquity
    /\ pending = Nothing
    /\ position = Nothing
    /\ answer = "none"
    /\ vetoed = Nothing
    /\ last = Nothing
    /\ ledger = [trades |-> 0, net |-> 0, entryFees |-> 0, funding |-> 0]

(***************************************************************************)
(* Costs and prices of one position.                                       *)
(***************************************************************************)

Value(size) == size * contract.value

EntryFee(size) == Value(size) * MakerFee
ExitFee(size) == Value(size) * TakerFee
Funding(size) == Value(size) * FundingRate

\* _liquidation_price: the distance the plan was sized with, not rounded.
Liquidation(plan) == LiquidationDistance(ladder[plan.tier].rate)

\* _targets: 40% and 35%, floored; the runner takes the rest.
RungSize(size, rung) ==
    LET first == (size * 40) \div 100
        second == (size * 35) \div 100
    IN CASE rung = 1 -> first [] rung = 2 -> second [] rung = 3 -> size - first - second

Targets(size) == {rung \in Rungs : RungSize(size, rung) > 0}

SizeOf(size, rungs) ==
    LET part(rung) == IF rung \in rungs THEN RungSize(size, rung) ELSE 0
    IN part(1) + part(2) + part(3)

\* What the rungs earn, each filled one slippage below its target.
EarnedBy(plan, rungs) ==
    LET price(rung) == rung * plan.stop - Slippage
        part(rung) == IF rung \in rungs
                      THEN Value(RungSize(plan.size, rung)) * price(rung) ELSE 0
    IN part(1) + part(2) + part(3)

(***************************************************************************)
(* An open position.                                                       *)
(***************************************************************************)

\* A bar's funding, on the whole position, and the observers of its range.
Accrued(p, worst, crossed) ==
    [p EXCEPT !.funding = @ + IF crossed THEN Funding(p.plan.size) ELSE 0,
              !.low = SmallerOf(@, worst),
              !.held = @ + 1]

\* Mutant: rungs are shares of what remains.
AfterRungsOfRemaining(p, rungs) ==
    [p EXCEPT !.remaining = @ - SizeOf(p.remaining, rungs),
              !.targets = @ \ rungs,
              !.realised = @ + EarnedBy(p.plan, rungs),
              !.exitFees = @ + ExitFee(SizeOf(p.plan.size, rungs))]

\* _partial, for every rung in rungs.
AfterRungs(p, rungs) ==
    [p EXCEPT !.remaining = @ - SizeOf(p.plan.size, rungs),
              !.targets = @ \ rungs,
              !.realised = @ + EarnedBy(p.plan, rungs),
              !.exitFees = @ + ExitFee(SizeOf(p.plan.size, rungs))]

Income(p, rungs) == EarnedBy(p.plan, rungs) - ExitFee(SizeOf(p.plan.size, rungs))

Booked(p, price, reason) ==
    [plan |-> p.plan,
     gross |-> p.realised + Value(p.remaining) * price,
     exitFees |-> p.exitFees + ExitFee(p.remaining),
     entryFee |-> p.entryFee,
     funding |-> p.funding,
     reason |-> reason,
     low |-> p.low,
     held |-> p.held]

Net(trade) == trade.gross - trade.exitFees - trade.entryFee - trade.funding

\* Mutant: the close books the partial exits a second time.
CloseTwice(p, price, reason, income) ==
    LET trade == Booked(p, price, reason)
    IN /\ last' = trade
       /\ ledger' = [trades |-> ledger.trades + 1, net |-> ledger.net + Net(trade),
                     entryFees |-> ledger.entryFees + trade.entryFee,
                     funding |-> ledger.funding + trade.funding]
       /\ equity' = equity + income + trade.gross - trade.exitFees
       /\ position' = Nothing

\* _close of what remains; income is what rungs taken on the same bar already added.  The
\* entry fee and the funding are reported with the trade and never reach the equity.
Close(p, price, reason, income) ==
    LET trade == Booked(p, price, reason)
    IN /\ last' = trade
       /\ ledger' = [trades |-> ledger.trades + 1, net |-> ledger.net + Net(trade),
                     entryFees |-> ledger.entryFees + trade.entryFee,
                     funding |-> ledger.funding + trade.funding]
       /\ equity' = equity + income + Value(p.remaining) * price - ExitFee(p.remaining)
       /\ position' = Nothing

Reached(p, best) == {rung \in p.targets : best >= rung * p.plan.stop}

\* The runner, or a rung that takes all that is left, closes the position.
Exhausted(p, rungs) == 3 \in rungs \/ SizeOf(p.plan.size, rungs) >= p.remaining

\* Mutant: a liquidation is filled at the worst price of the bar.
LiquidateAtWorst(p, worst) ==
    /\ worst <= -Liquidation(p.plan)
    /\ Close(p, worst, "liquidation", 0)

\* _resolve_bar, first: the venue takes the position at its own price.
Liquidate(p, worst) ==
    /\ worst <= -Liquidation(p.plan)
    /\ Close(p, -Liquidation(p.plan), "liquidation", 0)

\* Then the stop, a taker order that slips.
StopOut(p, worst) ==
    /\ -Liquidation(p.plan) < worst /\ worst <= -p.plan.stop
    /\ Close(p, -p.plan.stop - Slippage, "stop", 0)

\* Mutant: a bar that reaches the last target takes it whatever else it touched.
TakeProfitFirst(p, worst, best) ==
    LET rungs == Reached(p, best)
        final == Max(rungs)
    IN /\ rungs # {} /\ Exhausted(p, rungs)
       /\ Close(AfterRungs(p, rungs \ {final}), final * p.plan.stop - Slippage, "target",
                Income(p, rungs \ {final}))

\* Only then the targets: the last one reached closes what the rungs below it left.
TakeProfit(p, worst, best) ==
    LET rungs == Reached(p, best)
        final == Max(rungs)
    IN /\ -p.plan.stop < worst
       /\ rungs # {} /\ Exhausted(p, rungs)
       /\ Close(AfterRungs(p, rungs \ {final}), final * p.plan.stop - Slippage, "target",
                Income(p, rungs \ {final}))

\* A bar that closes the position is also decided on.
CloseOnBar ==
    /\ phase = "bar" /\ bars > 0
    /\ position # Nothing
    /\ \E worst \in Offsets, best \in Offsets, crossed \in BOOLEAN :
          /\ worst <= best
          /\ LET p == Accrued(position, worst, crossed)
             IN Liquidate(p, worst) \/ StopOut(p, worst) \/ TakeProfit(p, worst, best)
    /\ phase' = "decide"
    /\ UNCHANGED <<market, bars, pending, answer, vetoed>>

\* A bar that leaves it open may take rungs off.
HoldThroughBar ==
    /\ phase = "bar" /\ bars > 0
    /\ position # Nothing
    /\ \E worst \in Offsets, best \in Offsets, crossed \in BOOLEAN :
          LET rungs == Reached(position, best)
          IN /\ worst <= best
             /\ -position.plan.stop < worst
             /\ ~Exhausted(position, rungs)
             /\ position' = AfterRungs(Accrued(position, worst, crossed), rungs)
             /\ equity' = equity + Income(position, rungs)
    /\ bars' = bars - 1
    /\ UNCHANGED <<market, phase, pending, answer, vetoed, last, ledger>>

(***************************************************************************)
(* A resting entry.                                                        *)
(***************************************************************************)

Opened(plan) ==
    [plan |-> plan, remaining |-> plan.size, targets |-> Targets(plan.size), realised |-> 0,
     exitFees |-> 0, entryFee |-> EntryFee(plan.size), funding |-> 0, low |-> 0, held |-> 0]

\* A bar that trades at the limit fills the entry, and is looked at no further: neither
\* the stop nor the liquidation price is compared with it.
FillPending ==
    /\ phase = "bar" /\ bars > 0
    /\ pending # Nothing
    /\ \E worst \in Offsets : worst <= 0
    /\ position' = Opened(pending.plan)
    /\ pending' = Nothing
    /\ bars' = bars - 1
    /\ UNCHANGED <<market, phase, equity, answer, vetoed, last, ledger>>

RestedTooLong(waited) == waited >= ExpiresAfter

WaitForFill ==
    /\ phase = "bar" /\ bars > 0
    /\ pending # Nothing
    /\ \E worst \in Offsets : worst > 0
    /\ ~RestedTooLong(pending.waited + 1)
    /\ pending' = [pending EXCEPT !.waited = @ + 1]
    /\ bars' = bars - 1
    /\ UNCHANGED <<market, phase, equity, position, answer, vetoed, last, ledger>>

\* The bar the entry expires on is decided on.
ExpirePending ==
    /\ phase = "bar" /\ bars > 0
    /\ pending # Nothing
    /\ \E worst \in Offsets : worst > 0
    /\ RestedTooLong(pending.waited + 1)
    /\ pending' = Nothing
    /\ phase' = "decide"
    /\ UNCHANGED <<market, bars, equity, position, answer, vetoed, last, ledger>>

(***************************************************************************)
(* A decision.                                                             *)
(***************************************************************************)

Deciding ==
    /\ phase \in {"bar", "decide"} /\ bars > 0
    /\ position = Nothing /\ pending = Nothing

NextBar ==
    /\ bars' = bars - 1
    /\ phase' = "bar"
    /\ UNCHANGED <<market, equity, position, last, ledger>>

\* A breaker or the strategy says no.
StandAside ==
    /\ Deciding
    /\ answer' = "refused"
    /\ vetoed' = Nothing
    /\ NextBar
    /\ UNCHANGED pending

\* The bar's signal is accepted, sized and shown to the guard, whose ladder was stamped
\* with the bar's own time.
Decide ==
    /\ Deciding
    /\ ledger.trades < MaxTrades
    /\ \E setup \in Setups :
          LET plan == PlanPosition(equity, equity, ladder, contract, setup)
          IN \/ /\ ~plan.ok
                /\ answer' = IF Settles(equity, ladder, contract, setup)
                             THEN "refused" ELSE "unsettled"
                /\ vetoed' = Nothing
                /\ UNCHANGED pending
             \/ /\ plan.ok
                /\ ~AssessPlan(plan, ladder, 0, contract)
                /\ answer' = "vetoed"
                /\ vetoed' = plan
                /\ UNCHANGED pending
             \/ /\ AssessPlan(plan, ladder, 0, contract)
                /\ answer' = "placed"
                /\ vetoed' = Nothing
                /\ pending' = [plan |-> plan, waited |-> 0]
    /\ NextBar

(***************************************************************************)
(* The end of the data.                                                    *)
(***************************************************************************)

\* Where the last bar can have closed: inside a range that touched nothing, or anywhere
\* when it was the fill bar.
LastClose(p, close) ==
    \/ p.held = 0
    \/ /\ -p.plan.stop < close
       /\ \A rung \in p.targets : close < rung * p.plan.stop

\* A resting entry is dropped; an open position is closed at the last close.
Finish ==
    /\ phase # "done" /\ bars = 0
    /\ phase' = "done"
    /\ \/ /\ position = Nothing
          /\ UNCHANGED <<equity, position, last, ledger>>
       \/ /\ position # Nothing
          /\ \E close \in Offsets :
                /\ LastClose(position, close)
                /\ Close(position, close - Slippage, "end_of_data", 0)
    /\ UNCHANGED <<market, bars, pending, answer, vetoed>>

Next ==
    \/ CloseOnBar
    \/ HoldThroughBar
    \/ FillPending
    \/ WaitForFill
    \/ ExpirePending
    \/ StandAside
    \/ Decide
    \/ Finish

Spec == Init /\ [][Next]_vars

(***************************************************************************)
(* Properties.                                                             *)
(***************************************************************************)

\* The plan at work: resting, held, or booked last.
Working ==
    {p.plan : p \in {pending, position, last} \ {Nothing}}

\* What the exchange would apply to a notional: the tier its limits put it in.
AppliedRate(notional) ==
    LET fitting == {i \in DOMAIN ladder : notional <= ladder[i].limit}
    IN IF fitting = {} THEN Max({ladder[i].rate : i \in DOMAIN ladder})
       ELSE ladder[Min(fitting)].rate

\* plan_position promises that a stop-out never costs more than the budget of the equity
\* it was sized at, whatever cut or rounded the size and moved the stop afterwards.
RiskWithinBudget ==
    \A plan \in Working :
        Value(plan.size) * plan.stop * Scale <= plan.equity * RiskPerTrade

\* A plan never relies on a maintenance rate below the one its notional draws, and what it
\* places would pass verify_fill's reading of the exchange's own liquidation price.
LiquidationClear ==
    \A plan \in Working :
        LET real == LiquidationDistance(AppliedRate(Value(plan.size)))
        IN /\ real >= Liquidation(plan)
           /\ VerifyFill(plan.stop, real, real, Leverage)

\* A stop the sizer capped is never vetoed over the buffer, which is why it reserves a
\* tick, wherever the mark grid is no coarser than the order grid and the reserve is left
\* by the minimum distance.
CappedStopPasses ==
    (answer = "vetoed" /\ vetoed.capped) =>
        \/ ~SnapshotValid(ladder, 0)
        \/ contract.markTick > contract.tick
        \/ Ceiling(ladder[vetoed.tier].rate) - contract.tick < MinDistance

\* The tier and the stop settle on every ladder Gate publishes: one that climbs.
SizingSettles == answer = "unsettled" => ~SnapshotValid(ladder, 0)

\* A position open after a bar has been through neither its stop nor its liquidation price
\* on any bar since its fill, and no profit is booked on a bar that touched the stop.
StopHonoured ==
    /\ position # Nothing => -position.plan.stop < position.low
    /\ last # Nothing => (last.reason \in {"stop", "liquidation"}
                            <=> last.low <= -last.plan.stop)

\* The equity the next trade is sized from is the starting equity plus every net result,
\* except the entry fees and the funding, which the trades report and it never sees.
BooksBalance ==
    LET running == IF position = Nothing THEN 0 ELSE position.realised - position.exitFees
    IN equity = StartingEquity + ledger.net + ledger.entryFees + ledger.funding + running

\* The rungs left are the contracts left, the runner among them.
RungsCoverRemaining ==
    position # Nothing =>
        /\ position.remaining = SizeOf(position.plan.size, position.targets)
        /\ position.remaining > 0

\* No exit loses more than the margin posted, liquidation included, but for a position
\* filled on the last bar, whose close nothing was compared with.
LossWithinMargin ==
    (last # Nothing /\ last.held > 0) =>
        (last.gross - last.exitFees) * Leverage >= -Value(last.plan.size) * Scale
=================================================================================
