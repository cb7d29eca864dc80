------------------------------ MODULE PositionSizer -----------------------------
(***************************************************************************)
(* risk/position_sizer.py: from an accepted signal to a stop and a number  *)
(* of contracts, or a refusal.                                             *)
(*                                                                         *)
(* A rate r stands for the fraction r / Scale, and a price for its         *)
(* distance from the entry on the losing side, in the same unit (1 unit is *)
(* 1 / Scale of the entry price), so longs and shorts are one case.  Money *)
(* is counted in 1 / Scale of a currency unit: size * value * distance is  *)
(* then an exact amount.  A refusal carries no stage: no caller in src/    *)
(* tells refusals apart except to count them.                              *)
(***************************************************************************)
EXTENDS Integers, Sequences, FiniteSetsExt

CONSTANTS
    Scale,
    Leverage,           \* SizingParams.leverage
    LiquidationBuffer,  \* .liquidation_buffer
    TakerFee, MakerFee, \* .taker_fee, .maker_fee (a rebate when negative)
    RiskPerTrade,       \* .risk_per_trade
    Method,             \* .sl_method
    AtrMultiplier,      \* .atr_multiplier, in tenths
    MinAtrRatio,        \* .min_sl_atr_ratio, in tenths
    MinDistance,        \* .min_distance
    MaxDistance,        \* .max_distance
    OnExceeds           \* .on_sl_exceeds_max

\* SizingParams.__post_init__, and the leverage divides the unit evenly.
ASSUME SizingAssumption ==
    /\ Scale \in Nat \ {0}
    /\ Leverage \in Nat \ {0} /\ Scale % Leverage = 0
    /\ LiquidationBuffer \in Nat
    /\ TakerFee \in Nat
    /\ MakerFee \in Int
    /\ RiskPerTrade \in Nat \ {0} /\ 20 * RiskPerTrade <= Scale
    /\ Method \in {"auto", "atr", "structure"}
    /\ AtrMultiplier \in Nat \ {0}
    /\ MinAtrRatio \in Nat
    /\ MinDistance \in Nat \ {0}
    /\ MaxDistance \in Nat /\ MinDistance < MaxDistance
    /\ OnExceeds \in {"cap", "skip"}

\* A ladder is the contract's risk_limit_tiers in tier order.
Tier == [limit : Nat, rate : Nat, leverageMax : Nat]

\* order_price_round, mark_price_round, contract value at the entry price, order sizes.
Contract == [tick : Nat \ {0}, markTick : Nat \ {0}, value : Nat \ {0},
             min : Nat \ {0}, max : Nat]

LargerOf(a, b) == IF a >= b THEN a ELSE b
SmallerOf(a, b) == IF a <= b THEN a ELSE b

(***************************************************************************)
(* Tiers.                                                                  *)
(***************************************************************************)

\* The tiers in the order of their limits: i comes no later than j.
NoLater(ladder, i, j) == ladder[i].limit <= ladder[j].limit

LowestTier(ladder) ==
    CHOOSE i \in DOMAIN ladder : \A j \in DOMAIN ladder : NoLater(ladder, i, j)

\* Mutant: the flat, tier-1 field of the contract.
SelectTierFlat(ladder, amount, per) == LowestTier(ladder)

\* The lowest tier that covers a notional of amount / per, else the highest there is.
SelectTier(ladder, amount, per) ==
    LET covering == {i \in DOMAIN ladder : amount <= ladder[i].limit * per}
    IN IF covering # {}
       THEN CHOOSE i \in covering : \A j \in covering : NoLater(ladder, i, j)
       ELSE CHOOSE i \in DOMAIN ladder : \A j \in DOMAIN ladder : NoLater(ladder, j, i)

TopLimit(ladder) == Max({ladder[i].limit : i \in DOMAIN ladder})

LiquidationDistance(rate) == Scale \div Leverage - rate - TakerFee

\* config.max_stop_distance
Ceiling(rate) == LiquidationDistance(rate) - LiquidationBuffer

(***************************************************************************)
(* The stop.  0 stands for a missing ATR or a missing swing level.         *)
(***************************************************************************)

Candidate(atr, swing) ==
    LET byAtr == (AtrMultiplier * atr) \div 10
    IN CASE Method = "atr" -> byAtr
         [] Method = "structure" -> IF swing > 0 THEN swing ELSE byAtr
         [] Method = "auto" -> LargerOf(byAtr, swing)

\* _tick_toward_entry: the grid prices lie at residue (mod tick) from the entry.  The
\* result is 0 or less when rounding reaches or passes the entry.
TowardEntry(distance, residue, tick) == distance - ((distance - residue) % tick)

\* Mutant: the cap sits on the ceiling itself.
StopDistanceOnCeiling(ceiling, atr, swing, tick, residue) ==
    LET limit == SmallerOf(ceiling, MaxDistance)
        wanted == LargerOf(Candidate(atr, swing), MinDistance)
    IN TowardEntry(SmallerOf(wanted, limit), residue, tick)

\* The distance placed: floored, capped one tick inside the ceiling, snapped to the grid.
StopDistance(ceiling, atr, swing, tick, residue) ==
    LET limit == SmallerOf(ceiling, MaxDistance)
        wanted == LargerOf(Candidate(atr, swing), MinDistance)
        kept == IF wanted > limit THEN LargerOf(MinDistance, limit - tick) ELSE wanted
    IN TowardEntry(kept, residue, tick)

\* resolve_stop
ResolveStop(ceiling, atr, swing, tick, residue) ==
    LET limit == SmallerOf(ceiling, MaxDistance)
        capped == LargerOf(Candidate(atr, swing), MinDistance) > limit
        distance == StopDistance(ceiling, atr, swing, tick, residue)
    IN [ok |-> /\ Candidate(atr, swing) > 0
               /\ MinDistance <= limit
               /\ capped => OnExceeds = "cap"
               /\ distance >= MinDistance
               /\ 10 * distance >= MinAtrRatio * atr,
        distance |-> distance,
        capped |-> capped]

(***************************************************************************)
(* plan_position.                                                          *)
(***************************************************************************)

\* What the signal's bar supplies: the entry's place on the price grids, ATR and swing.
Setup == [residue : Nat, atr : Nat, swing : Nat]

StopAt(ladder, t, contract, setup) ==
    ResolveStop(Ceiling(ladder[t].rate), setup.atr, setup.swing, contract.tick,
                setup.residue % contract.tick)

\* One round of the loop: the tier the notional of this tier's stop falls into.  The
\* notional is taken before flooring, budget / distance.
NextTier(equity, ladder, t, contract, setup) ==
    LET stop == StopAt(ladder, t, contract, setup)
    IN IF stop.ok
       THEN SelectTier(ladder, equity * RiskPerTrade, Scale * stop.distance)
       ELSE t

\* Mutant: the loop gives up after one round.
SettledTierOneRound(equity, ladder, contract, setup) ==
    NextTier(equity, ladder, LowestTier(ladder), contract, setup)

\* The tier the loop ends on, after Len(ladder) rounds at most.
SettledTier(equity, ladder, contract, setup) ==
    LET visited[n \in 0..Len(ladder)] ==
            IF n = 0 THEN LowestTier(ladder)
            ELSE NextTier(equity, ladder, visited[n - 1], contract, setup)
    IN visited[Len(ladder)]

Settles(equity, ladder, contract, setup) ==
    LET t == SettledTier(equity, ladder, contract, setup)
    IN NextTier(equity, ladder, t, contract, setup) = t

\* Mutant: the number of contracts is rounded up.
SizeRoundedUp(equity, distance, contract, top) ==
    LET perContract == Scale * contract.value * distance
        wanted == (equity * RiskPerTrade + perContract - 1) \div perContract
        capped == IF contract.max > 0 THEN SmallerOf(wanted, contract.max) ELSE wanted
    IN SmallerOf(capped, top \div contract.value)

\* Floored, then cut to order_size_max and to the top tier's limit; never raised.
Size(equity, distance, contract, top) ==
    LET perContract == Scale * contract.value * distance
        wanted == (equity * RiskPerTrade) \div perContract
        capped == IF contract.max > 0 THEN SmallerOf(wanted, contract.max) ELSE wanted
    IN SmallerOf(capped, top \div contract.value)

\* Mutant: nobody asks whether the order is large enough to exist.
TradableAnySize(size, available, contract) ==
    size * contract.value * Scale <= available * Leverage

\* order_size_min refuses rather than rounds up, and the margin must be free.
Tradable(size, available, contract) ==
    /\ size >= contract.min
    /\ size * contract.value * Scale <= available * Leverage

NoPlan == [ok |-> FALSE]

Plan == [ok : {TRUE}, size : Nat \ {0}, stop : Nat \ {0}, capped : BOOLEAN, tier : Nat \ {0},
         residue : Nat, equity : Nat \ {0}]

\* plan_position; available is the account's free margin.
PlanPosition(equity, available, ladder, contract, setup) ==
    LET t == SettledTier(equity, ladder, contract, setup)
        stop == StopAt(ladder, t, contract, setup)
        size == Size(equity, stop.distance, contract, TopLimit(ladder))
    IN IF /\ equity > 0
          /\ ladder # << >>
          /\ Settles(equity, ladder, contract, setup)
          /\ stop.ok
          /\ Leverage <= ladder[t].leverageMax
          /\ Tradable(size, available, contract)
       THEN [ok |-> TRUE, size |-> size, stop |-> stop.distance, capped |-> stop.capped,
             tier |-> t, residue |-> setup.residue, equity |-> equity]
       ELSE NoPlan
=================================================================================
