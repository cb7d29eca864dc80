---------------------------- MODULE LiquidationGuard ----------------------------
(***************************************************************************)
(* risk/liquidation_guard.py: does the stop of a sized position stay clear *)
(* of its liquidation price?  Units, tiers and contracts are those of      *)
(* PositionSizer; a liquidation price is its distance from the entry on    *)
(* the losing side.  Every refusal is one answer here too.                 *)
(*                                                                         *)
(* The shipped profile is modelled: isolated margin, no margin top-up      *)
(* (leverage.allow_margin_topup false), so the effective leverage is the   *)
(* configured one, and the same leverage, fee and buffer as the sizer's.   *)
(***************************************************************************)
EXTENDS PositionSizer

CONSTANTS
    MaxLeverage,       \* LiquidationParams.max_leverage
    TierMaxAge,        \* .tier_max_age_seconds
    ClockSkew,         \* CLOCK_SKEW_TOLERANCE_SECONDS
    LiqPriceTolerance  \* .liq_price_tolerance

\* LiquidationParams.__post_init__
ASSUME GuardAssumption ==
    /\ MaxLeverage \in Nat /\ Leverage <= MaxLeverage
    /\ 10 * LiquidationBuffer <= Scale
    /\ TierMaxAge \in Nat \ {0}
    /\ ClockSkew \in Nat
    /\ LiqPriceTolerance \in Nat

\* _validate_snapshot: fresh, usable in every row, and climbing in limit and rate while
\* the leverage falls.
SnapshotValid(ladder, age) ==
    /\ ladder # << >>
    /\ -ClockSkew <= age /\ age <= TierMaxAge
    /\ \A i \in DOMAIN ladder :
          /\ 0 < ladder[i].rate /\ ladder[i].rate < Scale
          /\ ladder[i].limit > 0
          /\ ladder[i].leverageMax > 0
    /\ \A i \in 1..Len(ladder) - 1 :
          /\ ladder[i].limit < ladder[i + 1].limit
          /\ ladder[i].rate <= ladder[i + 1].rate
          /\ ladder[i].leverageMax >= ladder[i + 1].leverageMax

\* liquidation_price: predicted, rounded toward the entry on the mark price grid.
LiquidationPrice(distance, residue, contract) ==
    TowardEntry(distance, residue % contract.markTick, contract.markTick)

\* Both forms of the buffer check: in fractions, and against the rounded price.
BufferHolds(liq, stop, residue, contract) ==
    /\ liq > 0
    /\ liq - stop >= LiquidationBuffer
    /\ LiquidationPrice(liq, residue, contract) - stop >= LiquidationBuffer

\* The tier of the position's actual notional.
ActualTier(ladder, size, contract) == SelectTier(ladder, size * contract.value, 1)

\* assess, on a plan that was not refused (assess_plan refuses the others).
Assess(plan, ladder, age, contract) ==
    LET notional == plan.size * contract.value
        tier == ladder[ActualTier(ladder, plan.size, contract)]
    IN /\ SnapshotValid(ladder, age)
       /\ plan.stop > 0
       /\ notional > 0
       /\ Leverage <= MaxLeverage
       /\ Leverage <= tier.leverageMax
       /\ notional <= TopLimit(ladder)
       /\ BufferHolds(LiquidationDistance(tier.rate), plan.stop, plan.residue, contract)

\* assess_plan; no caller in src/ passes it the available margin.
AssessPlan(plan, ladder, age, contract) ==
    plan.ok /\ Assess(plan, ladder, age, contract)

\* verify_fill: the same question of a filled position, against the liquidation price and
\* the leverage the exchange reports (0 is cross margin).  It has no caller in src/; the
\* simulations' positions are held to it as a specification.
VerifyFill(stop, reportedLiq, predictedLiq, reportedLeverage) ==
    /\ stop > 0
    /\ reportedLiq > 0
    /\ 0 < reportedLeverage /\ reportedLeverage <= MaxLeverage
    /\ reportedLiq - stop > 0
    /\ reportedLiq - stop >= LiquidationBuffer
    /\ reportedLiq - predictedLiq <= LiqPriceTolerance
    /\ predictedLiq - reportedLiq <= LiqPriceTolerance
=================================================================================
