---------------------------- MODULE Backtest_proofs ----------------------------
(***************************************************************************)
(* Theorems about the sizer, the liquidation guard and the backtest, for   *)
(* every ladder, contract, rate, path of prices and length of the data;    *)
(* last, how the sizer's loop over tiers ends, and what the guard makes of *)
(* a capped stop.                                                          *)
(***************************************************************************)
EXTENDS Backtest, FoldFacts

(***************************************************************************)
(* Arithmetic.                                                             *)
(***************************************************************************)

\* Rounding down to whole units and back never gains.
LEMMA FloorBound ==
  ASSUME NEW a \in Nat, NEW b \in Nat \ {0}
  PROVE  a \div b \in Nat /\ (a \div b) * b <= a
  BY ONLY Z3T(60)

LEMMA ProductMonotonic ==
  ASSUME NEW x \in Int, NEW y \in Int, NEW z \in Nat, x <= y
  PROVE  x * z <= y * z
  <1>1. (y - x) * z \in Nat
    OBVIOUS
  <1>2. y * z = x * z + (y - x) * z
    OBVIOUS
  <1>3. x * z \in Int
    OBVIOUS
  <1> QED
    BY <1>1, <1>2, <1>3

LEMMA ProductPositive ==
  ASSUME NEW x \in Nat \ {0}, NEW y \in Nat \ {0}
  PROVE  x * y \in Nat \ {0}
  OBVIOUS

LEMMA ProductReordered ==
  ASSUME NEW s \in Int, NEW v \in Int, NEW d \in Int, NEW c \in Int
  PROVE  ((s * v) * d) * c = s * ((c * v) * d)
  BY Z3T(60)

\* A remainder is a natural number below the modulus.
LEMMA RemainderType ==
  ASSUME NEW a \in Int, NEW b \in Nat \ {0}
  PROVE  a % b \in Nat /\ a % b < b
  BY SMTT(60)

LEMMA QuotientType ==
  ASSUME NEW a \in Int, NEW b \in Nat \ {0}
  PROVE  a \div b \in Int
  BY SMTT(60)

(***************************************************************************)
(* The parameters.                                                         *)
(***************************************************************************)

LEMMA RatesType ==
  /\ Scale \in Nat \ {0} /\ Leverage \in Nat \ {0} /\ LiquidationBuffer \in Nat
  /\ TakerFee \in Nat /\ MakerFee \in Int /\ RiskPerTrade \in Nat \ {0}
  BY SizingAssumption

LEMMA StopType ==
  /\ AtrMultiplier \in Nat \ {0} /\ MinDistance \in Nat \ {0} /\ MaxDistance \in Nat
  /\ Method \in {"auto", "atr", "structure"}
  BY SizingAssumption

LEMMA ContractType ==
  ASSUME NEW c \in Contracts
  PROVE  /\ c.tick \in Nat \ {0} /\ c.value \in Nat \ {0}
         /\ c.min \in Nat \ {0} /\ c.max \in Nat
  BY BacktestAssumption DEF Contract

LEMMA LadderType ==
  ASSUME NEW rungs \in Ladders
  PROVE  /\ Len(rungs) \in Nat \ {0} /\ DOMAIN rungs = 1..Len(rungs)
         /\ \A i \in DOMAIN rungs : rungs[i].limit \in Nat /\ rungs[i].rate \in Nat
  <1>1. rungs \in Seq(Tier) /\ rungs # << >>
    BY BacktestAssumption
  <1>2. Len(rungs) \in Nat \ {0} /\ DOMAIN rungs = 1..Len(rungs)
    BY <1>1
  <1>3. \A i \in DOMAIN rungs : rungs[i] \in Tier
    BY <1>1, <1>2
  <1> QED
    BY <1>2, <1>3 DEF Tier

LEMMA SetupType ==
  ASSUME NEW s \in Setups
  PROVE  s.residue \in Nat /\ s.atr \in Nat /\ s.swing \in Nat
  BY BacktestAssumption DEF Setup

(***************************************************************************)
(* Tiers.                                                                  *)
(***************************************************************************)

\* Some tier has the highest limit.
LEMMA GreatestLimit ==
  ASSUME NEW rungs \in Ladders
  PROVE  \E i \in DOMAIN rungs : \A j \in DOMAIN rungs : rungs[j].limit <= rungs[i].limit
  <1> DEFINE Tops(n) == {i \in 1..n : \A j \in 1..n : rungs[j].limit <= rungs[i].limit}
             bad == {n \in 1..Len(rungs) : Tops(n) = {}}
  <1>1. /\ Len(rungs) \in Nat \ {0} /\ DOMAIN rungs = 1..Len(rungs)
        /\ \A i \in 1..Len(rungs) : rungs[i].limit \in Nat
    BY LadderType
  <1>2. bad = {}
    <2> SUFFICES ASSUME bad # {} PROVE FALSE
      OBVIOUS
    <2>1. PICK n \in bad : \A m \in bad : n <= m
      <3>1. bad \in SUBSET Nat
        BY <1>1
      <3> HIDE DEF bad
      <3> QED
        BY <3>1, LeastNatural
    <2>2. n \in 1..Len(rungs) /\ Tops(n) = {}
      OBVIOUS
    <2>3. CASE n = 1
      <3>1. 1 \in Tops(1)
        BY <1>1
      <3> QED
        BY <2>2, <2>3, <3>1
    <2>4. CASE n > 1
      <3>1. n - 1 \in 1..Len(rungs) /\ n - 1 \notin bad
        <4>1. n - 1 \in 1..Len(rungs)
          BY <1>1, <2>2, <2>4
        <4>2. n \in Int /\ ~(n <= n - 1)
          BY <1>1, <2>2
        <4> HIDE DEF bad
        <4> QED
          BY <2>1, <4>1, <4>2
      <3>2. PICK i \in 1..(n - 1) : \A j \in 1..(n - 1) : rungs[j].limit <= rungs[i].limit
        BY <3>1
      <3>3. i \in Tops(n) \/ n \in Tops(n)
        BY <1>1, <2>2, <2>4, <3>2
      <3> QED
        BY <2>2, <3>3
    <2> QED
      BY <1>1, <2>2, <2>3, <2>4
  <1>3. Tops(Len(rungs)) # {}
    BY <1>1, <1>2
  <1> QED
    BY <1>1, <1>3

\* The lowest of any tiers.
LEMMA LowestLimit ==
  ASSUME NEW rungs \in Ladders, NEW S \in SUBSET DOMAIN rungs, S # {}
  PROVE  \E i \in S : \A j \in S : rungs[i].limit <= rungs[j].limit
  <1> DEFINE limits == {rungs[i].limit : i \in S}
  <1>1. limits \in SUBSET Nat /\ limits # {}
    BY LadderType
  <1>2. PICK n \in limits : \A m \in limits : n <= m
    <2> HIDE DEF limits
    <2> QED
      BY <1>1, LeastNatural
  <1> QED
    BY <1>2

\* Whatever the notional, the tier selected is one of the contract's.
LEMMA SelectedTier ==
  ASSUME NEW rungs \in Ladders, NEW amount, NEW per
  PROVE  SelectTier(rungs, amount, per) \in DOMAIN rungs
  <1> DEFINE covering == {i \in DOMAIN rungs : amount <= rungs[i].limit * per}
  <1>1. CASE covering # {}
    <2>1. \E i \in covering : \A j \in covering : NoLater(rungs, i, j)
      BY <1>1, LowestLimit, covering \in SUBSET DOMAIN rungs DEF NoLater
    <2>2. SelectTier(rungs, amount, per)
            = CHOOSE i \in covering : \A j \in covering : NoLater(rungs, i, j)
      BY <1>1 DEF SelectTier
    <2> QED
      BY <2>1, <2>2
  <1>2. CASE covering = {}
    <2>1. \E i \in DOMAIN rungs : \A j \in DOMAIN rungs : NoLater(rungs, j, i)
      BY GreatestLimit DEF NoLater
    <2>2. SelectTier(rungs, amount, per)
            = CHOOSE i \in DOMAIN rungs : \A j \in DOMAIN rungs : NoLater(rungs, j, i)
      BY <1>2 DEF SelectTier
    <2> QED
      BY <2>1, <2>2
  <1> QED
    BY <1>1, <1>2

LEMMA TopLimitType ==
  ASSUME NEW rungs \in Ladders
  PROVE  TopLimit(rungs) \in Nat
  <1> DEFINE limits == {rungs[i].limit : i \in DOMAIN rungs}
  <1>1. \E x \in limits : \A y \in limits : x >= y
    BY GreatestLimit, LadderType
  <1>2. TopLimit(rungs) \in limits
    BY <1>1 DEF TopLimit, Max
  <1> QED
    BY <1>2, LadderType

(***************************************************************************)
(* The stop and the size.                                                  *)
(***************************************************************************)

LEMMA LiquidationType ==
  ASSUME NEW rate \in Int
  PROVE  LiquidationDistance(rate) \in Int /\ Ceiling(rate) \in Int
  BY RatesType, QuotientType DEF LiquidationDistance, Ceiling

LEMMA CandidateType ==
  ASSUME NEW atr \in Nat, NEW swing \in Nat
  PROVE  Candidate(atr, swing) \in Int
  <1>1. AtrMultiplier * atr \in Int
    BY StopType
  <1>2. (AtrMultiplier * atr) \div 10 \in Int
    BY <1>1, QuotientType
  <1> QED
    BY <1>2, StopType DEF Candidate, LargerOf

\* Snapping to the grid moves the stop toward the entry, never away from it.
LEMMA TowardEntryBound ==
  ASSUME NEW distance \in Int, NEW residue \in Int, NEW tick \in Nat \ {0}
  PROVE  TowardEntry(distance, residue, tick) \in Int
           /\ TowardEntry(distance, residue, tick) <= distance
  <1>1. (distance - residue) % tick \in Nat
    BY RemainderType
  <1> QED
    BY <1>1 DEF TowardEntry

\* A stop that is not refused is a whole distance within the ceiling.
LEMMA StopBound ==
  ASSUME NEW ceiling \in Int, NEW atr \in Nat, NEW swing \in Nat,
         NEW tick \in Nat \ {0}, NEW residue \in Int,
         ResolveStop(ceiling, atr, swing, tick, residue).ok
  PROVE  LET stop == ResolveStop(ceiling, atr, swing, tick, residue)
         IN /\ stop.distance \in Nat \ {0} /\ stop.distance <= ceiling
            /\ stop.capped \in BOOLEAN
  <1> DEFINE limit == SmallerOf(ceiling, MaxDistance)
             wanted == LargerOf(Candidate(atr, swing), MinDistance)
             kept == IF wanted > limit THEN LargerOf(MinDistance, limit - tick) ELSE wanted
             distance == StopDistance(ceiling, atr, swing, tick, residue)
  <1>1. limit \in Int /\ limit <= ceiling
    BY StopType DEF SmallerOf
  <1>2. wanted \in Int
    BY CandidateType, StopType DEF LargerOf
  <1>3. MinDistance <= limit /\ distance >= MinDistance
    BY DEF ResolveStop
  <1>4. distance = TowardEntry(kept, residue, tick)
    BY DEF StopDistance
  <1> HIDE DEF limit, wanted, distance
  <1>5. kept \in Int /\ kept <= limit
    BY <1>1, <1>2, <1>3, StopType DEF LargerOf
  <1> HIDE DEF kept
  <1>6. distance \in Int /\ distance <= kept
    BY <1>4, <1>5, TowardEntryBound
  <1>7. distance \in Nat \ {0} /\ distance <= ceiling
    BY <1>1, <1>3, <1>5, <1>6, StopType
  <1>8. ResolveStop(ceiling, atr, swing, tick, residue).distance = distance
    BY DEF ResolveStop, distance
  <1>9. ResolveStop(ceiling, atr, swing, tick, residue).capped = (wanted > limit)
    BY DEF ResolveStop, wanted, limit
  <1> QED
    BY <1>7, <1>8, <1>9

\* Whatever cuts the size, it costs no more than the budget if the stop is hit.
LEMMA SizeBound ==
  ASSUME NEW capital \in Nat \ {0}, NEW distance \in Nat \ {0}, NEW c \in Contracts,
         NEW top \in Nat
  PROVE  /\ Size(capital, distance, c, top) \in Int
         /\ Size(capital, distance, c, top) * ((Scale * c.value) * distance)
              <= capital * RiskPerTrade
  <1> DEFINE perContract == Scale * c.value * distance
             budget == capital * RiskPerTrade
             wanted == budget \div perContract
             cut == IF c.max > 0 THEN SmallerOf(wanted, c.max) ELSE wanted
             size == SmallerOf(cut, top \div c.value)
  <1>1. perContract \in Nat \ {0} /\ budget \in Nat
    <2>1. Scale * c.value \in Nat \ {0}
      BY RatesType, ContractType, ProductPositive
    <2> QED
      BY <2>1, RatesType, ProductPositive
  <1>2. Size(capital, distance, c, top) = size
    BY DEF Size
  <1> HIDE DEF perContract, budget
  <1>3. wanted \in Int /\ wanted * perContract <= budget
    BY <1>1, FloorBound
  <1>4. top \div c.value \in Int
    BY ContractType, QuotientType
  <1>5. size \in Int /\ size <= wanted
    BY <1>3, <1>4, ContractType DEF SmallerOf
  <1> HIDE DEF wanted, size
  <1>6. size * perContract <= wanted * perContract
    BY <1>1, <1>3, <1>5, ProductMonotonic
  <1>7. size * perContract \in Int /\ wanted * perContract \in Int
    BY <1>1, <1>3, <1>5
  <1>8. size * perContract <= budget
    BY <1>1, <1>3, <1>6, <1>7
  <1> QED
    BY <1>2, <1>5, <1>8 DEF perContract, budget

(***************************************************************************)
(* The plan.                                                               *)
(***************************************************************************)

\* The published limits and rates climb.
Climbs(rungs) ==
    \A i, j \in DOMAIN rungs :
        i < j => rungs[i].limit < rungs[j].limit /\ rungs[i].rate <= rungs[j].rate

\* What the snapshot check asks of neighbouring tiers holds of any two.
LEMMA SnapshotClimbs ==
  ASSUME NEW rungs \in Ladders, SnapshotValid(rungs, 0)
  PROVE  Climbs(rungs)
  <1> DEFINE Below(i, j) == rungs[i].limit < rungs[j].limit /\ rungs[i].rate <= rungs[j].rate
  <1>1. /\ Len(rungs) \in Nat \ {0} /\ DOMAIN rungs = 1..Len(rungs)
        /\ \A i \in 1..Len(rungs) : rungs[i].limit \in Nat /\ rungs[i].rate \in Nat
    BY LadderType
  <1>2. \A i \in 1..(Len(rungs) - 1) :
           rungs[i].limit < rungs[i + 1].limit /\ rungs[i].rate <= rungs[i + 1].rate
    BY DEF SnapshotValid
  <1>3. SUFFICES ASSUME NEW i \in 1..Len(rungs) PROVE \A j \in (i + 1)..Len(rungs) : Below(i, j)
    BY <1>1 DEF Climbs
  <1> DEFINE bad == {j \in (i + 1)..Len(rungs) : ~Below(i, j)}
  <1>4. SUFFICES ASSUME bad # {} PROVE FALSE
    OBVIOUS
  <1>5. PICK j \in bad : \A k \in bad : j <= k
    <2>1. bad \in SUBSET Nat
      BY <1>1
    <2> HIDE DEF bad
    <2> QED
      BY <1>4, <2>1, LeastNatural
  <1>6. j \in (i + 1)..Len(rungs) /\ ~Below(i, j)
    OBVIOUS
  <1>7. CASE j = i + 1
    BY <1>1, <1>2, <1>6, <1>7
  <1>8. CASE j > i + 1
    <2>1. /\ j - 1 \in (i + 1)..Len(rungs) /\ j - 1 \in 1..(Len(rungs) - 1)
          /\ ~(j <= j - 1)
      BY <1>1, <1>6, <1>8
    <2>2. Below(i, j - 1)
      <3>1. j - 1 \notin bad
        <4> HIDE DEF bad
        <4> QED
          BY <1>5, <2>1
      <3> QED
        BY <2>1, <3>1
    <2>3. rungs[j - 1].limit < rungs[j].limit /\ rungs[j - 1].rate <= rungs[j].rate
      BY <1>1, <1>2, <1>6, <2>1
    <2> QED
      BY <1>1, <1>6, <2>1, <2>2, <2>3
  <1> QED
    BY <1>1, <1>6, <1>7, <1>8

LEMMA AppliedRateType ==
  ASSUME NEW notional, ladder \in Ladders, Climbs(ladder)
  PROVE  \E i \in DOMAIN ladder :
            /\ AppliedRate(notional) = ladder[i].rate
            /\ \A j \in DOMAIN ladder : notional <= ladder[j].limit => i <= j
  <1> DEFINE fitting == {i \in DOMAIN ladder : notional <= ladder[i].limit}
             rates == {ladder[i].rate : i \in DOMAIN ladder}
  <1>1. /\ Len(ladder) \in Nat \ {0} /\ DOMAIN ladder = 1..Len(ladder)
        /\ \A i \in DOMAIN ladder : ladder[i].rate \in Nat
    BY LadderType
  <1>2. CASE fitting = {}
    <2>1. AppliedRate(notional) = Max(rates)
      BY <1>2 DEF AppliedRate
    <2>2. \E x \in rates : \A y \in rates : x >= y
      <3>1. Len(ladder) \in DOMAIN ladder
        BY <1>1
      <3>2. \A i \in DOMAIN ladder : ladder[Len(ladder)].rate >= ladder[i].rate
        BY <1>1, <3>1 DEF Climbs
      <3> QED
        BY <3>1, <3>2
    <2>3. Max(rates) \in rates
      BY <2>2 DEF Max
    <2> QED
      BY <1>2, <2>1, <2>3
  <1>3. CASE fitting # {}
    <2>1. AppliedRate(notional) = ladder[Min(fitting)].rate
      BY <1>3 DEF AppliedRate
    <2>2. \E n \in fitting : \A m \in fitting : n <= m
      <3>1. fitting \in SUBSET Nat
        BY <1>1
      <3> HIDE DEF fitting
      <3> QED
        BY <1>3, <3>1, LeastNatural
    <2>3. Min(fitting) \in fitting /\ \A m \in fitting : Min(fitting) <= m
      <3> HIDE DEF fitting
      <3> QED
        BY <2>2 DEF Min
    <2> QED
      BY <2>1, <2>3
  <1> QED
    BY <1>2, <1>3

\* The tier chosen for what the size was before it was floored and cut asks no lower
\* maintenance than the tier of what is left of it.
LEMMA TierCovers ==
  ASSUME ladder \in Ladders, Climbs(ladder), NEW amount \in Nat, NEW per \in Nat \ {0},
         NEW notional \in Int, notional * per <= amount
  PROVE  LET rate == ladder[SelectTier(ladder, amount, per)].rate
         IN AppliedRate(notional) \in Nat /\ AppliedRate(notional) <= rate
  <1> DEFINE covering == {i \in DOMAIN ladder : amount <= ladder[i].limit * per}
             t == SelectTier(ladder, amount, per)
  <1>1. /\ Len(ladder) \in Nat \ {0} /\ DOMAIN ladder = 1..Len(ladder)
        /\ \A i \in DOMAIN ladder : ladder[i].limit \in Nat /\ ladder[i].rate \in Nat
    BY LadderType
  <1>2. PICK i \in DOMAIN ladder :
            /\ AppliedRate(notional) = ladder[i].rate
            /\ \A j \in DOMAIN ladder : notional <= ladder[j].limit => i <= j
    BY AppliedRateType
  <1>3. t \in DOMAIN ladder
    BY SelectedTier
  <1>4. CASE covering # {}
    <2>1. \E k \in covering : \A j \in covering : NoLater(ladder, k, j)
      BY <1>4, LowestLimit, covering \in SUBSET DOMAIN ladder DEF NoLater
    <2>2. t = CHOOSE k \in covering : \A j \in covering : NoLater(ladder, k, j)
      BY <1>4 DEF SelectTier
    <2>3. t \in covering
      BY <2>1, <2>2
    <2>4. amount <= ladder[t].limit * per
      BY <2>3
    <2> HIDE DEF t
    <2>5. notional <= ladder[t].limit
      <3> SUFFICES ASSUME ladder[t].limit + 1 <= notional PROVE FALSE
        BY <1>1, <1>3
      <3> DEFINE limit == ladder[t].limit
      <3>1. limit \in Nat
        BY <1>1, <1>3
      <3> HIDE DEF limit
      <3>2. (limit + 1) * per <= notional * per
        BY <3>1, ProductMonotonic DEF limit
      <3>3. (limit + 1) * per = limit * per + per /\ limit * per \in Int
        BY <3>1
      <3>4. notional * per \in Int
        OBVIOUS
      <3> QED
        BY <2>4, <3>2, <3>3, <3>4 DEF limit
    <2>6. i <= t
      BY <1>2, <1>3, <2>5
    <2> QED
      BY <1>1, <1>2, <1>3, <2>6 DEF Climbs, t
  <1>5. CASE covering = {}
    <2>1. \E k \in DOMAIN ladder : \A j \in DOMAIN ladder : NoLater(ladder, j, k)
      BY GreatestLimit DEF NoLater
    <2>2. t = CHOOSE k \in DOMAIN ladder : \A j \in DOMAIN ladder : NoLater(ladder, j, k)
      BY <1>5 DEF SelectTier
    <2>3. ladder[i].limit <= ladder[t].limit
      BY <2>1, <2>2 DEF NoLater
    <2> HIDE DEF t
    <2>4. ~(t < i)
      BY <1>1, <1>3, <2>3 DEF Climbs
    <2>5. i = t \/ i < t
      BY <1>1, <1>3, <2>4
    <2> QED
      BY <1>1, <1>2, <1>3, <2>5 DEF Climbs, t
  <1> QED
    BY <1>4, <1>5

\* What a plan that is not refused promises.
Affordable(plan) ==
    /\ plan \in Plan
    /\ plan.tier \in DOMAIN ladder
    /\ Value(plan.size) * plan.stop * Scale <= plan.equity * RiskPerTrade
    /\ plan.stop <= Liquidation(plan) - LiquidationBuffer

\* And what it promises on a ladder that climbs.
Covering(plan) ==
    LET rate == AppliedRate(Value(plan.size))
    IN rate \in Nat /\ rate <= ladder[plan.tier].rate

\* A plan that is not refused keeps both promises, whatever tier its stop settled on.
LEMMA PlanSound ==
  ASSUME ladder \in Ladders, contract \in Contracts, NEW capital \in Int, NEW free,
         NEW setup \in Setups, PlanPosition(capital, free, ladder, contract, setup).ok
  PROVE  LET plan == PlanPosition(capital, free, ladder, contract, setup)
         IN Affordable(plan) /\ (Climbs(ladder) => Covering(plan))
  <1> DEFINE t == SettledTier(capital, ladder, contract, setup)
             stop == StopAt(ladder, t, contract, setup)
             size == Size(capital, stop.distance, contract, TopLimit(ladder))
             plan == PlanPosition(capital, free, ladder, contract, setup)
             found == [ok |-> TRUE, size |-> size, stop |-> stop.distance,
                       capped |-> stop.capped, tier |-> t, residue |-> setup.residue,
                       equity |-> capital]
  <1>1. /\ capital > 0
        /\ NextTier(capital, ladder, t, contract, setup) = t
        /\ stop.ok
        /\ size >= contract.min
        /\ plan = found
    BY DEF PlanPosition, NoPlan, Settles, Tradable
  <1> HIDE DEF t, plan
  <1>2. t = SelectTier(ladder, capital * RiskPerTrade, Scale * stop.distance)
    BY <1>1 DEF NextTier
  <1>3. t \in DOMAIN ladder
    BY <1>2, SelectedTier
  <1>4. /\ ladder[t].rate \in Int
        /\ Ceiling(ladder[t].rate) \in Int /\ LiquidationDistance(ladder[t].rate) \in Int
    <2>1. ladder[t].rate \in Int
      BY <1>3, LadderType
    <2> QED
      BY <2>1, LiquidationType
  <1>5. setup.atr \in Nat /\ setup.swing \in Nat /\ setup.residue \in Nat
    BY SetupType
  <1>6. /\ contract.tick \in Nat \ {0} /\ contract.value \in Nat \ {0}
        /\ contract.min \in Nat \ {0}
    BY ContractType
  <1>7. setup.residue % contract.tick \in Int
    BY <1>5, <1>6, RemainderType
  <1>8. /\ stop.distance \in Nat \ {0} /\ stop.distance <= Ceiling(ladder[t].rate)
        /\ stop.capped \in BOOLEAN
    BY <1>1, <1>4, <1>5, <1>6, <1>7, StopBound DEF StopAt
  <1> HIDE DEF stop
  <1>9. /\ size \in Int
        /\ size * ((Scale * contract.value) * stop.distance) <= capital * RiskPerTrade
    BY <1>1, <1>8, SizeBound, TopLimitType
  <1> HIDE DEF size
  <1>10. size \in Nat \ {0}
    BY <1>1, <1>6, <1>9
  <1>11. found \in Plan
    BY <1>1, <1>3, <1>5, <1>8, <1>10, LadderType DEF Plan
  <1>12. found.stop <= Liquidation(found) - LiquidationBuffer
    BY <1>8 DEF Liquidation, Ceiling
  <1>13. Value(found.size) * found.stop * Scale <= found.equity * RiskPerTrade
    BY <1>6, <1>8, <1>9, RatesType, ProductReordered DEF Value
  <1>14. Affordable(found)
    BY <1>3, <1>11, <1>12, <1>13 DEF Affordable
  <1>15. ASSUME Climbs(ladder) PROVE Covering(found)
    <2> DEFINE notional == Value(size)
               per == Scale * stop.distance
               amount == capital * RiskPerTrade
    <2>1. notional \in Int /\ per \in Nat \ {0} /\ amount \in Nat
      BY <1>1, <1>6, <1>8, <1>10, RatesType, ProductPositive DEF Value
    <2>2. notional * per <= amount
      BY <1>6, <1>8, <1>9, RatesType, Z3T(60) DEF Value
    <2>3. t = SelectTier(ladder, amount, per)
      BY <1>2
    <2> HIDE DEF notional, per, amount
    <2>4. AppliedRate(notional) \in Nat /\ AppliedRate(notional) <= ladder[t].rate
      BY <1>15, <2>1, <2>2, <2>3, TierCovers
    <2> QED
      BY <2>4 DEF Covering, notional
  <1> QED
    BY <1>1, <1>14, <1>15 DEF plan

(***************************************************************************)
(* The rungs of one size.                                                  *)
(***************************************************************************)

LEMMA RungType ==
  ASSUME NEW size \in Nat
  PROVE  /\ \A rung \in Rungs : RungSize(size, rung) \in Nat
         /\ RungSize(size, 1) + RungSize(size, 2) + RungSize(size, 3) = size
  <1> DEFINE first == (size * 40) \div 100
             second == (size * 35) \div 100
  <1>1. first \in Nat /\ second \in Nat /\ first + second <= size
    OBVIOUS
  <1>2. /\ RungSize(size, 1) = first
        /\ RungSize(size, 2) = second
        /\ RungSize(size, 3) = size - first - second
    BY DEF RungSize
  <1> HIDE DEF first, second
  <1> QED
    BY <1>1, <1>2 DEF Rungs

LEMMA SizeOfType ==
  ASSUME NEW size \in Nat, NEW rungs \in SUBSET Rungs
  PROVE  SizeOf(size, rungs) \in Nat
  <1>1. /\ RungSize(size, 1) \in Nat /\ RungSize(size, 2) \in Nat
        /\ RungSize(size, 3) \in Nat
    BY RungType DEF Rungs
  <1> QED
    BY <1>1 DEF SizeOf

\* The rungs of an order add up to it.
LEMMA AllRungs ==
  ASSUME NEW size \in Nat
  PROVE  SizeOf(size, Targets(size)) = size
  <1>1. /\ RungSize(size, 1) \in Nat /\ RungSize(size, 2) \in Nat
        /\ RungSize(size, 3) \in Nat
        /\ RungSize(size, 1) + RungSize(size, 2) + RungSize(size, 3) = size
    BY RungType DEF Rungs
  <1> DEFINE T == Targets(size)
  <1>2. \A rung \in {1, 2, 3} : rung \in T <=> RungSize(size, rung) > 0
    BY DEF Targets, Rungs
  <1> HIDE DEF T
  <1> QED
    BY <1>1, <1>2 DEF SizeOf, T

\* Taking some rungs leaves the others.
LEMMA RungsTaken ==
  ASSUME NEW size \in Nat, NEW rungs \in SUBSET Rungs, NEW taken \in SUBSET rungs
  PROVE  SizeOf(size, rungs \ taken) = SizeOf(size, rungs) - SizeOf(size, taken)
  <1>1. /\ RungSize(size, 1) \in Nat /\ RungSize(size, 2) \in Nat
        /\ RungSize(size, 3) \in Nat
    BY RungType DEF Rungs
  <1> DEFINE left == rungs \ taken
  <1>2. \A rung \in {1, 2, 3} :
           /\ rung \in left <=> rung \in rungs /\ rung \notin taken
           /\ rung \in taken => rung \in rungs
    OBVIOUS
  <1> HIDE DEF left
  <1> QED
    BY <1>1, <1>2 DEF SizeOf, left

LEMMA ValueType ==
  ASSUME contract \in Contracts, NEW size \in Int
  PROVE  Value(size) \in Int /\ (size \in Nat => Value(size) \in Nat)
           /\ ExitFee(size) \in Int /\ EntryFee(size) \in Int
  BY ContractType, RatesType DEF Value, ExitFee, EntryFee

LEMMA FundingType ==
  ASSUME contract \in Contracts, NEW size \in Nat
  PROVE  Funding(size) \in Nat
  BY ValueType, BacktestAssumption DEF Funding

LEMMA EarnedType ==
  ASSUME contract \in Contracts, NEW plan \in Plan, NEW rungs \in SUBSET Rungs
  PROVE  EarnedBy(plan, rungs) \in Int
  <1> DEFINE part(rung) == Value(RungSize(plan.size, rung)) * (rung * plan.stop - Slippage)
  <1>1. plan.size \in Nat /\ plan.stop \in Nat /\ Slippage \in Nat
    BY BacktestAssumption DEF Plan
  <1>2. ASSUME NEW rung \in Rungs PROVE part(rung) \in Int
    <2>1. RungSize(plan.size, rung) \in Nat
      BY <1>1, RungType
    <2>2. Value(RungSize(plan.size, rung)) \in Int
      BY <2>1, ValueType
    <2>3. rung * plan.stop - Slippage \in Int
      BY <1>1 DEF Rungs
    <2> QED
      BY <2>2, <2>3
  <1>3. part(1) \in Int /\ part(2) \in Int /\ part(3) \in Int
    BY <1>2 DEF Rungs
  <1>4. EarnedBy(plan, rungs) = (IF 1 \in rungs THEN part(1) ELSE 0)
                                + (IF 2 \in rungs THEN part(2) ELSE 0)
                                + (IF 3 \in rungs THEN part(3) ELSE 0)
    BY DEF EarnedBy
  <1> HIDE DEF part
  <1> QED
    BY <1>3, <1>4

(***************************************************************************)
(* The invariant.                                                          *)
(***************************************************************************)

Good(plan) == Affordable(plan) /\ Covering(plan)

\* An entry rests only while no position is held.
Single == pending = Nothing \/ position = Nothing

Inv ==
    /\ TypeOK
    /\ Single
    /\ \A plan \in Working : Good(plan)
    /\ RungsCoverRemaining
    /\ StopHonoured
    /\ BooksBalance

\* The market is read once.
LEMMA GoodStays ==
  ASSUME UNCHANGED market, NEW plan, Good(plan)
  PROVE  Good(plan)'
  BY DEF market, Good, Affordable, Covering, AppliedRate, Value, Liquidation

LEMMA NothingElse ==
  /\ Nothing \notin Pending /\ Nothing \notin Position
  /\ Nothing \notin Trade /\ Nothing \notin Plan
  BY NothingAssumption

LEMMA Workers ==
  /\ pending # Nothing => pending.plan \in Working
  /\ position # Nothing => position.plan \in Working
  /\ last # Nothing => last.plan \in Working
  BY DEF Working

LEMMA OffsetType == Offsets \subseteq Int /\ Slippage \in Nat
  BY BacktestAssumption

\* A bar seen by an open position.
LEMMA AccruedType ==
  ASSUME contract \in Contracts, NEW p \in Position, NEW worst \in Int,
         NEW crossed \in BOOLEAN
  PROVE  LET a == Accrued(p, worst, crossed)
         IN /\ a \in Position
            /\ a.plan = p.plan /\ a.remaining = p.remaining /\ a.targets = p.targets
            /\ a.realised = p.realised /\ a.exitFees = p.exitFees
            /\ a.low = SmallerOf(p.low, worst)
            /\ a.held = p.held + 1
  <1> DEFINE cost == IF crossed THEN Funding(p.plan.size) ELSE 0
  <1>1. p.plan.size \in Nat
    BY DEF Position, Plan
  <1>2. cost \in Int
    BY <1>1, FundingType
  <1>3. p.low \in Int /\ SmallerOf(p.low, worst) \in Int
    BY DEF Position, SmallerOf
  <1> HIDE DEF cost
  <1>4. Accrued(p, worst, crossed)
          = [p EXCEPT !.funding = @ + cost, !.low = SmallerOf(@, worst), !.held = @ + 1]
    BY DEF Accrued, cost
  <1>5. Accrued(p, worst, crossed)
          = [plan |-> p.plan, remaining |-> p.remaining, targets |-> p.targets,
             realised |-> p.realised, exitFees |-> p.exitFees, entryFee |-> p.entryFee,
             funding |-> p.funding + cost, low |-> SmallerOf(p.low, worst),
             held |-> p.held + 1]
    BY <1>4 DEF Position
  <1>6. /\ p.plan \in Plan /\ p.remaining \in Nat /\ p.targets \in SUBSET Rungs
        /\ p.realised \in Int /\ p.exitFees \in Int /\ p.entryFee \in Int
        /\ p.funding + cost \in Int /\ p.held + 1 \in Nat
    BY <1>2 DEF Position
  <1>7. Accrued(p, worst, crossed) \in Position
    BY <1>3, <1>5, <1>6 DEF Position
  <1> QED
    BY <1>5, <1>7

\* Rungs taken off an open position.
LEMMA AfterRungsType ==
  ASSUME contract \in Contracts, NEW p \in Position, NEW rungs \in SUBSET p.targets,
         p.remaining = SizeOf(p.plan.size, p.targets)
  PROVE  LET a == AfterRungs(p, rungs)
         IN /\ a \in Position
            /\ a.plan = p.plan /\ a.low = p.low /\ a.held = p.held
            /\ a.remaining = SizeOf(a.plan.size, a.targets)
            /\ a.remaining = p.remaining - SizeOf(p.plan.size, rungs)
            /\ a.realised - a.exitFees = p.realised - p.exitFees + Income(p, rungs)
            /\ Income(p, rungs) \in Int
  <1> DEFINE taken == SizeOf(p.plan.size, rungs)
             earned == EarnedBy(p.plan, rungs)
             fee == ExitFee(taken)
             left == SizeOf(p.plan.size, p.targets \ rungs)
  <1>1. /\ p.plan \in Plan /\ p.plan.size \in Nat /\ p.targets \in SUBSET Rungs
        /\ rungs \in SUBSET Rungs /\ p.targets \ rungs \in SUBSET Rungs
        /\ p.realised \in Int /\ p.exitFees \in Int /\ p.remaining \in Nat
    BY DEF Position, Plan
  <1>2. taken \in Nat /\ left \in Nat
    BY <1>1, SizeOfType
  <1>3. earned \in Int /\ fee \in Int
    BY <1>1, <1>2, EarnedType, ValueType
  <1>4. left = p.remaining - taken
    BY <1>1, RungsTaken
  <1>5. AfterRungs(p, rungs)
          = [p EXCEPT !.remaining = @ - taken, !.targets = @ \ rungs,
                      !.realised = @ + earned, !.exitFees = @ + fee]
    BY DEF AfterRungs
  <1>6. Income(p, rungs) = earned - fee
    BY DEF Income
  <1>7. SizeOf(p.plan.size, p.targets \ rungs) = left
    OBVIOUS
  <1> HIDE DEF taken, earned, fee, left
  <1> DEFINE a == AfterRungs(p, rungs)
  <1>8. a \in Position
    <2>1. a = [plan |-> p.plan, remaining |-> p.remaining - taken,
               targets |-> p.targets \ rungs, realised |-> p.realised + earned,
               exitFees |-> p.exitFees + fee, entryFee |-> p.entryFee,
               funding |-> p.funding, low |-> p.low, held |-> p.held]
      BY <1>5 DEF Position
    <2>2. /\ p.entryFee \in Int /\ p.funding \in Int /\ p.low \in Int /\ p.held \in Nat
          /\ p.remaining - taken \in Nat /\ p.realised + earned \in Int
          /\ p.exitFees + fee \in Int
      BY <1>1, <1>2, <1>3, <1>4 DEF Position
    <2> QED
      BY <1>1, <2>1, <2>2 DEF Position
  <1>9. /\ a.plan = p.plan /\ a.low = p.low /\ a.held = p.held
        /\ a.remaining = p.remaining - taken /\ a.targets = p.targets \ rungs
        /\ a.realised = p.realised + earned /\ a.exitFees = p.exitFees + fee
    BY <1>5 DEF Position
  <1>10. a.remaining = SizeOf(a.plan.size, a.targets)
    BY <1>4, <1>7, <1>9
  <1>11. a.realised - a.exitFees = p.realised - p.exitFees + Income(p, rungs)
         /\ Income(p, rungs) \in Int
    BY <1>1, <1>3, <1>6, <1>9
  <1> QED
    BY <1>8, <1>9, <1>10, <1>11 DEF taken

\* A close settles the books with the position as it was seen last.
LEMMA CloseKeeps ==
  ASSUME TypeOK, NEW p \in Position, NEW price \in Int, NEW income \in Int,
         NEW reason \in {"stop", "liquidation", "target", "end_of_data"},
         UNCHANGED market,
         equity + income = StartingEquity + ledger.net + ledger.entryFees + ledger.funding
                           + (p.realised - p.exitFees),
         Close(p, price, reason, income)
  PROVE  /\ position' = Nothing /\ equity' \in Int /\ last' \in Trade
         /\ ledger' \in [trades : Nat, net : Int, entryFees : Int, funding : Int]
         /\ last'.plan = p.plan /\ last'.low = p.low /\ last'.reason = reason
         /\ BooksBalance'
  <1> DEFINE worth == Value(p.remaining) * price
             fee == ExitFee(p.remaining)
  <1>1. /\ p.plan \in Plan /\ p.remaining \in Nat /\ p.realised \in Int /\ p.exitFees \in Int
        /\ p.entryFee \in Int /\ p.funding \in Int /\ p.low \in Int /\ p.held \in Nat
    BY DEF Position
  <1>2. worth \in Int /\ fee \in Int
    <2>1. Value(p.remaining) \in Int /\ fee \in Int
      BY <1>1, ValueType DEF TypeOK
    <2> QED
      BY <2>1
  <1>3. Booked(p, price, reason)
          = [plan |-> p.plan, gross |-> p.realised + worth, exitFees |-> p.exitFees + fee,
             entryFee |-> p.entryFee, funding |-> p.funding, reason |-> reason,
             low |-> p.low, held |-> p.held]
    BY DEF Booked
  <1>4. Close(p, price, reason, income)
          <=> /\ last' = Booked(p, price, reason)
              /\ ledger' = [trades |-> ledger.trades + 1,
                            net |-> ledger.net + Net(Booked(p, price, reason)),
                            entryFees |-> ledger.entryFees + Booked(p, price, reason).entryFee,
                            funding |-> ledger.funding + Booked(p, price, reason).funding]
              /\ equity' = equity + income + worth - fee
              /\ position' = Nothing
    BY DEF Close
  <1> HIDE DEF worth, fee
  <1>5. last' \in Trade
    BY <1>1, <1>2, <1>3, <1>4 DEF Trade
  <1>6. last'.plan = p.plan /\ last'.low = p.low /\ last'.reason = reason
    BY <1>3, <1>4
  <1>7. /\ ledger.trades \in Nat /\ ledger.net \in Int /\ ledger.entryFees \in Int
        /\ ledger.funding \in Int /\ equity \in Int /\ StartingEquity \in Int
    BY BacktestAssumption DEF TypeOK
  <1>8. ledger' = [trades |-> ledger.trades + 1,
                   net |-> ledger.net + ((p.realised + worth) - (p.exitFees + fee)
                                         - p.entryFee - p.funding),
                   entryFees |-> ledger.entryFees + p.entryFee,
                   funding |-> ledger.funding + p.funding]
    BY <1>3, <1>4 DEF Net
  <1>9. ledger' \in [trades : Nat, net : Int, entryFees : Int, funding : Int]
    BY <1>1, <1>2, <1>7, <1>8
  <1>10. equity' = equity + income + worth - fee /\ position' = Nothing
    BY <1>4
  <1>11. /\ ledger'.net = ledger.net + ((p.realised + worth) - (p.exitFees + fee)
                                         - p.entryFee - p.funding)
         /\ ledger'.entryFees = ledger.entryFees + p.entryFee
         /\ ledger'.funding = ledger.funding + p.funding
    BY <1>8
  <1>12. equity' = StartingEquity + ledger'.net + ledger'.entryFees + ledger'.funding + 0
    <2> DEFINE before == equity + income
               n == ledger.net
               ef == ledger.entryFees
               fu == ledger.funding
               run == p.realised
               paid == p.exitFees
    <2>1. before = StartingEquity + n + ef + fu + (run - paid)
      OBVIOUS
    <2>2. /\ before \in Int /\ n \in Int /\ ef \in Int /\ fu \in Int
          /\ run \in Int /\ paid \in Int
          /\ StartingEquity \in Int /\ p.entryFee \in Int /\ p.funding \in Int
      BY <1>1, <1>7
    <2>3. /\ equity' = before + worth - fee
          /\ ledger'.net = n + ((run + worth) - (paid + fee) - p.entryFee - p.funding)
          /\ ledger'.entryFees = ef + p.entryFee
          /\ ledger'.funding = fu + p.funding
      BY <1>10, <1>11
    <2> HIDE DEF before, n, ef, fu, run, paid
    <2> QED
      BY <1>2, <2>1, <2>2, <2>3
  <1>13. BooksBalance'
    BY <1>10, <1>12 DEF BooksBalance
  <1> QED
    BY <1>2, <1>5, <1>6, <1>7, <1>9, <1>10, <1>13

LEMMA WorkersStay ==
  ASSUME Inv, UNCHANGED market, Working' \subseteq Working
  PROVE  \A plan \in Working' : Good(plan)'
  BY GoodStays DEF Inv

\* A close keeps the invariant, if its reason is true of the stop.
LEMMA CloseInv ==
  ASSUME Inv, position # Nothing, NEW p \in Position, p.plan = position.plan,
         NEW price \in Int, NEW income \in Int,
         NEW reason \in {"stop", "liquidation", "target", "end_of_data"},
         p.realised - p.exitFees - income = position.realised - position.exitFees,
         reason \in {"stop", "liquidation"} <=> p.low <= -p.plan.stop,
         UNCHANGED <<market, pending>>,
         Close(p, price, reason, income)
  PROVE  /\ position' = Nothing /\ equity' \in Int /\ last' \in Trade
         /\ ledger' \in [trades : Nat, net : Int, entryFees : Int, funding : Int]
         /\ \A plan \in Working' : Good(plan)'
         /\ RungsCoverRemaining' /\ StopHonoured' /\ BooksBalance'
  <1>1. position \in Position
    BY DEF Inv, TypeOK
  <1>2. /\ position.realised \in Int /\ position.exitFees \in Int
        /\ p.realised \in Int /\ p.exitFees \in Int
    BY <1>1 DEF Position
  <1>3. /\ ledger.net \in Int /\ ledger.entryFees \in Int /\ ledger.funding \in Int
        /\ equity \in Int /\ StartingEquity \in Int
    BY BacktestAssumption DEF Inv, TypeOK
  <1>4. equity = StartingEquity + ledger.net + ledger.entryFees + ledger.funding
                 + (position.realised - position.exitFees)
    BY DEF Inv, BooksBalance
  <1>5. equity + income = StartingEquity + ledger.net + ledger.entryFees + ledger.funding
                          + (p.realised - p.exitFees)
    BY <1>2, <1>3, <1>4
  <1>6. UNCHANGED market /\ pending' = pending
    OBVIOUS
  <1>7. TypeOK
    BY DEF Inv
  <1>8. /\ position' = Nothing /\ equity' \in Int /\ last' \in Trade
        /\ ledger' \in [trades : Nat, net : Int, entryFees : Int, funding : Int]
        /\ last'.plan = p.plan /\ last'.low = p.low /\ last'.reason = reason
        /\ BooksBalance'
    BY <1>5, <1>6, <1>7, CloseKeeps
  <1>9. Working' \subseteq Working
    <2> SUFFICES ASSUME NEW plan \in Working' PROVE plan \in Working
      OBVIOUS
    <2>1. plan = last'.plan \/ (pending' # Nothing /\ plan = pending'.plan)
      BY <1>8 DEF Working
    <2> QED
      BY <1>6, <1>8, <2>1, Workers
  <1>10. \A plan \in Working' : Good(plan)'
    BY <1>6, <1>9, WorkersStay
  <1>11. RungsCoverRemaining' /\ StopHonoured'
    BY <1>8 DEF RungsCoverRemaining, StopHonoured
  <1> QED
    BY <1>8, <1>10, <1>11

LEMMA CloseOnBarInv ==
  ASSUME Inv, CloseOnBar
  PROVE  Inv'
  <1>1. PICK worst \in Offsets, best \in Offsets, crossed \in BOOLEAN :
           LET p == Accrued(position, worst, crossed)
           IN Liquidate(p, worst) \/ StopOut(p, worst) \/ TakeProfit(p, worst, best)
    BY Zenon DEF CloseOnBar
  <1> DEFINE p == Accrued(position, worst, crossed)
  <1>2. /\ phase = "bar" /\ bars > 0 /\ position # Nothing /\ phase' = "decide"
        /\ UNCHANGED <<market, pending>>
        /\ UNCHANGED <<market, bars, pending, answer, vetoed>>
    BY DEF CloseOnBar
  <1>3. position \in Position /\ contract \in Contracts /\ worst \in Int /\ Slippage \in Int
    BY <1>2, OffsetType DEF Inv, TypeOK
  <1>4. /\ p \in Position
        /\ p.plan = position.plan /\ p.remaining = position.remaining
        /\ p.targets = position.targets
        /\ p.realised = position.realised /\ p.exitFees = position.exitFees
        /\ p.low = SmallerOf(position.low, worst)
    BY <1>3, AccruedType
  <1>5. /\ position.remaining = SizeOf(position.plan.size, position.targets)
        /\ -position.plan.stop < position.low
    BY <1>2 DEF Inv, RungsCoverRemaining, StopHonoured
  <1>6. Affordable(p.plan)
    BY <1>2, <1>4, Workers DEF Inv, Good
  <1>7. /\ p.plan.stop \in Nat \ {0} /\ p.plan.size \in Nat /\ Liquidation(p.plan) \in Int
        /\ p.plan.stop <= Liquidation(p.plan)
    <2>1. p.plan.stop \in Nat \ {0} /\ p.plan.size \in Nat
      BY <1>4 DEF Position, Plan
    <2>2. ladder[p.plan.tier].rate \in Int
      BY <1>6, LadderType DEF Affordable, Inv, TypeOK
    <2>3. Liquidation(p.plan) \in Int
      BY <2>2, LiquidationType DEF Liquidation
    <2> QED
      BY <1>6, <2>1, <2>3, RatesType DEF Affordable
  <1>8. position.low \in Int /\ p.realised \in Int /\ p.exitFees \in Int
    BY <1>3, <1>4 DEF Position
  <1> HIDE DEF p
  <1> DEFINE Settled ==
               /\ position' = Nothing /\ equity' \in Int /\ last' \in Trade
               /\ ledger' \in [trades : Nat, net : Int, entryFees : Int, funding : Int]
               /\ \A plan \in Working' : Good(plan)'
               /\ RungsCoverRemaining' /\ StopHonoured' /\ BooksBalance'
  <1>9. CASE Liquidate(p, worst)
    <2>1. worst <= -Liquidation(p.plan) /\ Close(p, -Liquidation(p.plan), "liquidation", 0)
      BY <1>9 DEF Liquidate
    <2>2. p.low <= -p.plan.stop
      BY <1>3, <1>4, <1>7, <1>8, <2>1 DEF SmallerOf
    <2>3. -Liquidation(p.plan) \in Int /\ p.realised - p.exitFees - 0 = p.realised - p.exitFees
      BY <1>7, <1>8
    <2>4. Settled
      BY <1>2, <1>4, <2>1, <2>2, <2>3, CloseInv
    <2> QED
      BY <1>2, <2>4 DEF Inv, TypeOK, Single, market
  <1>10. CASE StopOut(p, worst)
    <2>1. worst <= -p.plan.stop /\ Close(p, -p.plan.stop - Slippage, "stop", 0)
      BY <1>10 DEF StopOut
    <2>2. p.low <= -p.plan.stop
      BY <1>3, <1>4, <1>7, <1>8, <2>1 DEF SmallerOf
    <2>3. /\ -p.plan.stop - Slippage \in Int
          /\ p.realised - p.exitFees - 0 = p.realised - p.exitFees
      BY <1>3, <1>7, <1>8
    <2>4. Settled
      BY <1>2, <1>4, <2>1, <2>2, <2>3, CloseInv
    <2> QED
      BY <1>2, <2>4 DEF Inv, TypeOK, Single, market
  <1>11. CASE TakeProfit(p, worst, best)
    <2> DEFINE rungs == Reached(p, best)
               final == Max(rungs)
               early == rungs \ {final}
               q == AfterRungs(p, early)
               income == Income(p, early)
    <2>1. /\ -p.plan.stop < worst /\ rungs # {}
          /\ Close(q, final * p.plan.stop - Slippage, "target", income)
      BY <1>11 DEF TakeProfit
    <2>2. rungs \in SUBSET p.targets /\ early \in SUBSET p.targets /\ p.targets \in SUBSET Rungs
      BY <1>4 DEF Reached, Position
    <2>3. final \in Int
      <3> HIDE DEF rungs
      <3>1. \E x \in rungs : \A y \in rungs : x >= y
        BY <2>1, <2>2 DEF Rungs
      <3>2. final \in rungs
        BY <3>1 DEF Max
      <3> QED
        BY <2>2, <3>2 DEF Rungs
    <2>4. /\ q \in Position /\ q.plan = p.plan /\ q.low = p.low
          /\ q.realised - q.exitFees = p.realised - p.exitFees + income
          /\ income \in Int
      <3> HIDE DEF early
      <3> QED
        BY <1>3, <1>4, <1>5, <2>2, AfterRungsType
    <2> HIDE DEF rungs, final, early, q, income
    <2>5. q.realised \in Int /\ q.exitFees \in Int /\ final * p.plan.stop - Slippage \in Int
      BY <1>3, <1>7, <2>3, <2>4 DEF Position
    <2>6. q.realised - q.exitFees - income = position.realised - position.exitFees
      BY <1>4, <1>8, <2>4, <2>5
    <2>7. ~(q.low <= -q.plan.stop)
      BY <1>3, <1>4, <1>5, <1>7, <1>8, <2>1, <2>4 DEF SmallerOf
    <2>8. Settled
      BY <1>2, <1>4, <2>1, <2>4, <2>5, <2>6, <2>7, CloseInv
    <2> QED
      BY <1>2, <2>8 DEF Inv, TypeOK, Single, market
  <1> QED
    BY <1>1, <1>9, <1>10, <1>11 DEF p

LEMMA HoldThroughBarInv ==
  ASSUME Inv, HoldThroughBar
  PROVE  Inv'
  <1>1. PICK worst \in Offsets, best \in Offsets, crossed \in BOOLEAN :
           /\ -position.plan.stop < worst
           /\ ~Exhausted(position, Reached(position, best))
           /\ position' = AfterRungs(Accrued(position, worst, crossed), Reached(position, best))
           /\ equity' = equity + Income(position, Reached(position, best))
    BY Zenon DEF HoldThroughBar
  <1> DEFINE p == Accrued(position, worst, crossed)
             rungs == Reached(position, best)
             q == AfterRungs(p, rungs)
  <1>2. /\ bars > 0 /\ position # Nothing /\ bars' = bars - 1
        /\ UNCHANGED <<market, phase, pending, answer, vetoed, last, ledger>>
    BY DEF HoldThroughBar
  <1>3. position \in Position /\ contract \in Contracts /\ worst \in Int
    BY <1>2, OffsetType DEF Inv, TypeOK
  <1>4. /\ p \in Position
        /\ p.plan = position.plan /\ p.remaining = position.remaining
        /\ p.targets = position.targets
        /\ p.realised = position.realised /\ p.exitFees = position.exitFees
        /\ p.low = SmallerOf(position.low, worst)
    BY <1>3, AccruedType
  <1>5. /\ position.remaining = SizeOf(position.plan.size, position.targets)
        /\ -position.plan.stop < position.low
    BY <1>2 DEF Inv, RungsCoverRemaining, StopHonoured
  <1>6. rungs \in SUBSET p.targets
    BY <1>4 DEF Reached
  <1>7. Income(position, rungs) = Income(p, rungs)
    BY <1>4 DEF Income
  <1> HIDE DEF p
  <1>8. /\ ~Exhausted(position, rungs) /\ position' = q
        /\ equity' = equity + Income(p, rungs)
    BY <1>1, <1>7 DEF p
  <1> HIDE DEF rungs
  <1>9. /\ q \in Position
        /\ q.plan = p.plan /\ q.low = p.low
        /\ q.remaining = SizeOf(q.plan.size, q.targets)
        /\ q.remaining = p.remaining - SizeOf(p.plan.size, rungs)
        /\ q.realised - q.exitFees = p.realised - p.exitFees + Income(p, rungs)
        /\ Income(p, rungs) \in Int
    BY <1>3, <1>4, <1>5, <1>6, AfterRungsType
  <1> HIDE DEF q
  <1>10. /\ q.remaining \in Nat /\ p.remaining \in Nat /\ p.plan.size \in Nat
         /\ q.realised \in Int /\ q.exitFees \in Int /\ p.realised \in Int /\ p.exitFees \in Int
         /\ rungs \in SUBSET Rungs /\ position.low \in Int /\ position.plan.stop \in Int
    BY <1>3, <1>4, <1>6, <1>9 DEF Position, Plan
  <1>11. SizeOf(p.plan.size, rungs) \in Nat
    BY <1>10, SizeOfType
  <1>12. q.remaining > 0
    BY <1>4, <1>8, <1>9, <1>10, <1>11 DEF Exhausted
  <1>13. -q.plan.stop < q.low
    BY <1>1, <1>3, <1>4, <1>5, <1>9, <1>10 DEF SmallerOf
  <1>14. q # Nothing
    BY <1>9, NothingElse
  <1>15. RungsCoverRemaining' /\ StopHonoured'
    <2>1. RungsCoverRemaining'
      BY <1>8, <1>9, <1>12 DEF RungsCoverRemaining
    <2>2. StopHonoured'
      BY <1>2, <1>8, <1>13 DEF Inv, StopHonoured
    <2> QED
      BY <2>1, <2>2
  <1>16. Working' \subseteq Working
    <2> SUFFICES ASSUME NEW plan \in Working' PROVE plan \in Working
      OBVIOUS
    <2>1. plan = q.plan \/ (pending # Nothing /\ plan = pending.plan)
                       \/ (last # Nothing /\ plan = last.plan)
      BY <1>2, <1>8 DEF Working
    <2> QED
      BY <1>2, <1>4, <1>9, <2>1, Workers
  <1>17. \A plan \in Working' : Good(plan)'
    BY <1>2, <1>16, WorkersStay
  <1>18. /\ ledger.net \in Int /\ ledger.entryFees \in Int /\ ledger.funding \in Int
         /\ equity \in Int /\ StartingEquity \in Int
    BY BacktestAssumption DEF Inv, TypeOK
  <1>19. equity = StartingEquity + ledger.net + ledger.entryFees + ledger.funding
                  + (p.realised - p.exitFees)
    BY <1>2, <1>4 DEF Inv, BooksBalance
  <1>20. equity' = StartingEquity + ledger.net + ledger.entryFees + ledger.funding
                   + (q.realised - q.exitFees)
    BY <1>8, <1>9, <1>10, <1>18, <1>19
  <1>21. BooksBalance'
    BY <1>2, <1>8, <1>14, <1>20 DEF BooksBalance
  <1>22. TypeOK'
    <2>1. equity' \in Int /\ position' \in Position
      BY <1>8, <1>9, <1>18
    <2>2. bars' \in 0..MaxBars
      BY <1>2, BacktestAssumption DEF Inv, TypeOK
    <2> QED
      BY <1>2, <2>1, <2>2 DEF Inv, TypeOK, market
  <1>23. Single'
    BY <1>2 DEF Inv, Single
  <1> QED
    BY <1>15, <1>17, <1>21, <1>22, <1>23 DEF Inv

(***************************************************************************)
(* The resting entry.                                                      *)
(***************************************************************************)

LEMMA BarPasses ==
  ASSUME Inv, bars > 0, bars' = bars - 1
  PROVE  bars' \in 0..MaxBars
  BY BacktestAssumption DEF Inv, TypeOK

LEMMA OpenedType ==
  ASSUME contract \in Contracts, NEW plan \in Plan
  PROVE  LET p == Opened(plan)
         IN /\ p \in Position /\ p.plan = plan
            /\ p.remaining = SizeOf(p.plan.size, p.targets) /\ p.remaining > 0
            /\ -p.plan.stop < p.low
            /\ p.realised = 0 /\ p.exitFees = 0
  <1>1. plan.size \in Nat \ {0} /\ plan.stop \in Nat \ {0}
    BY DEF Plan
  <1>2. EntryFee(plan.size) \in Int
    BY <1>1, ValueType
  <1>3. Targets(plan.size) \in SUBSET Rungs
    BY DEF Targets
  <1>4. SizeOf(plan.size, Targets(plan.size)) = plan.size
    BY <1>1, AllRungs
  <1>5. Opened(plan) \in Position
    BY <1>1, <1>2, <1>3 DEF Opened, Position
  <1> QED
    BY <1>1, <1>4, <1>5 DEF Opened

LEMMA FillPendingInv ==
  ASSUME Inv, FillPending
  PROVE  Inv'
  <1>1. /\ bars > 0 /\ pending # Nothing /\ position' = Opened(pending.plan)
        /\ pending' = Nothing /\ bars' = bars - 1
        /\ UNCHANGED <<market, phase, equity, answer, vetoed, last, ledger>>
    BY DEF FillPending
  <1>2. pending.plan \in Plan /\ contract \in Contracts
    BY <1>1 DEF Inv, TypeOK, Pending
  <1>3. /\ position' \in Position /\ position'.plan = pending.plan
        /\ position'.remaining = SizeOf(position'.plan.size, position'.targets)
        /\ position'.remaining > 0
        /\ -position'.plan.stop < position'.low
        /\ position'.realised = 0 /\ position'.exitFees = 0
    BY <1>1, <1>2, OpenedType
  <1>4. position' # Nothing
    BY <1>3, NothingElse
  <1>5. Working' \subseteq Working
    <2> SUFFICES ASSUME NEW plan \in Working' PROVE plan \in Working
      OBVIOUS
    <2>1. plan = position'.plan \/ (last # Nothing /\ plan = last.plan)
      BY <1>1 DEF Working
    <2> QED
      BY <1>1, <1>3, <2>1, Workers
  <1>6. \A plan \in Working' : Good(plan)'
    BY <1>1, <1>5, WorkersStay
  <1>7. RungsCoverRemaining'
    BY <1>3 DEF RungsCoverRemaining
  <1>8. StopHonoured'
    BY <1>1, <1>3 DEF Inv, StopHonoured
  <1>9. BooksBalance'
    <2>1. position = Nothing
      BY <1>1 DEF Inv, Single
    <2>2. equity = StartingEquity + ledger.net + ledger.entryFees + ledger.funding + 0
      BY <2>1 DEF Inv, BooksBalance
    <2>3. position'.realised - position'.exitFees = 0
      BY <1>3
    <2> QED
      BY <1>1, <1>4, <2>2, <2>3 DEF BooksBalance
  <1>10. TypeOK'
    BY <1>1, <1>3, BarPasses DEF Inv, TypeOK, market
  <1> QED
    BY <1>1, <1>6, <1>7, <1>8, <1>9, <1>10 DEF Inv, Single

\* An action that moves neither the account nor a position, and takes up no new plan.
LEMMA NothingMoves ==
  ASSUME Inv, UNCHANGED <<market, equity, position, last, ledger>>,
         pending' \in {Nothing, pending} \/ (pending' # Nothing /\ position = Nothing),
         pending' # Nothing => \/ pending # Nothing /\ pending'.plan = pending.plan
                              \/ Good(pending.plan)',
         TypeOK'
  PROVE  Inv'
  <1>1. /\ UNCHANGED market /\ equity' = equity /\ position' = position /\ last' = last
        /\ ledger' = ledger
    OBVIOUS
  <1>2. \A plan \in Working' : Good(plan)'
    <2> SUFFICES ASSUME NEW plan \in Working' PROVE Good(plan)'
      OBVIOUS
    <2>1. \/ position # Nothing /\ plan = position.plan
          \/ last # Nothing /\ plan = last.plan
          \/ pending' # Nothing /\ plan = pending'.plan
      BY <1>1 DEF Working
    <2>2. plan \in Working \/ Good(plan)'
      BY <2>1, Workers
    <2>3. ASSUME plan \in Working PROVE Good(plan)'
      BY <1>1, <2>3, GoodStays DEF Inv
    <2> QED
      BY <2>2, <2>3
  <1>3. Single'
    BY <1>1 DEF Inv, Single
  <1>4. RungsCoverRemaining' /\ StopHonoured' /\ BooksBalance'
    <2>1. RungsCoverRemaining'
      BY <1>1 DEF Inv, RungsCoverRemaining
    <2>2. StopHonoured'
      BY <1>1 DEF Inv, StopHonoured
    <2>3. BooksBalance'
      BY <1>1 DEF Inv, BooksBalance
    <2> QED
      BY <2>1, <2>2, <2>3
  <1> QED
    BY <1>2, <1>3, <1>4 DEF Inv

LEMMA WaitForFillInv ==
  ASSUME Inv, WaitForFill
  PROVE  Inv'
  <1>1. /\ bars > 0 /\ pending # Nothing /\ bars' = bars - 1
        /\ pending' = [pending EXCEPT !.waited = @ + 1]
        /\ UNCHANGED <<market, phase, equity, position, answer, vetoed, last, ledger>>
    BY DEF WaitForFill
  <1>2. pending \in Pending
    BY <1>1 DEF Inv, TypeOK
  <1>3. pending' \in Pending /\ pending'.plan = pending.plan
    BY <1>1, <1>2 DEF Pending
  <1>4. TypeOK'
    BY <1>1, <1>3, BarPasses DEF Inv, TypeOK, market
  <1>5. position = Nothing
    BY <1>1 DEF Inv, Single
  <1> QED
    BY <1>1, <1>3, <1>4, <1>5, NothingElse, NothingMoves

LEMMA ExpirePendingInv ==
  ASSUME Inv, ExpirePending
  PROVE  Inv'
  <1>1. /\ pending' = Nothing /\ phase' = "decide"
        /\ UNCHANGED <<market, bars, equity, position, answer, vetoed, last, ledger>>
    BY DEF ExpirePending
  <1>2. TypeOK'
    BY <1>1 DEF Inv, TypeOK, market
  <1> QED
    BY <1>1, <1>2, NothingMoves

(***************************************************************************)
(* Decisions.                                                              *)
(***************************************************************************)

LEMMA StandAsideInv ==
  ASSUME Inv, StandAside
  PROVE  Inv'
  <1>1. /\ bars > 0 /\ bars' = bars - 1 /\ phase' = "bar" /\ answer' = "refused"
        /\ vetoed' = Nothing /\ pending' = pending
        /\ UNCHANGED <<market, equity, position, last, ledger>>
    BY DEF StandAside, Deciding, NextBar
  <1>2. TypeOK'
    BY <1>1, BarPasses DEF Inv, TypeOK, market
  <1> QED
    BY <1>1, <1>2, NothingMoves

LEMMA DecideInv ==
  ASSUME Inv, Decide
  PROVE  Inv'
  <1>1. /\ bars > 0 /\ position = Nothing /\ pending = Nothing
        /\ bars' = bars - 1 /\ phase' = "bar"
        /\ UNCHANGED <<market, equity, position, last, ledger>>
    BY DEF Decide, Deciding, NextBar
  <1>2. PICK setup \in Setups :
           LET plan == PlanPosition(equity, equity, ladder, contract, setup)
           IN \/ /\ answer' \in {"refused", "unsettled"}
                 /\ vetoed' = Nothing
                 /\ pending' = pending
              \/ /\ plan.ok
                 /\ answer' = "vetoed"
                 /\ vetoed' = plan
                 /\ pending' = pending
              \/ /\ AssessPlan(plan, ladder, 0, contract)
                 /\ answer' = "placed"
                 /\ vetoed' = Nothing
                 /\ pending' = [plan |-> plan, waited |-> 0]
    BY DEF Decide
  <1> DEFINE plan == PlanPosition(equity, equity, ladder, contract, setup)
  <1>3. plan.ok => Affordable(plan) /\ (Climbs(ladder) => Covering(plan))
    BY PlanSound DEF Inv, TypeOK
  <1> HIDE DEF plan
  <1>4. CASE answer' \in {"refused", "unsettled"} /\ vetoed' = Nothing /\ pending' = pending
    <2>1. TypeOK'
      BY <1>1, <1>4, BarPasses DEF Inv, TypeOK, market
    <2> QED
      BY <1>1, <1>4, <2>1, NothingMoves
  <1>5. CASE plan.ok /\ answer' = "vetoed" /\ vetoed' = plan /\ pending' = pending
    <2>1. vetoed' \in Plan
      BY <1>3, <1>5 DEF Affordable
    <2>2. TypeOK'
      BY <1>1, <1>5, <2>1, BarPasses DEF Inv, TypeOK, market
    <2> QED
      BY <1>1, <1>5, <2>2, NothingMoves
  <1>6. CASE /\ AssessPlan(plan, ladder, 0, contract)
             /\ answer' = "placed" /\ vetoed' = Nothing
             /\ pending' = [plan |-> plan, waited |-> 0]
    <2>1. plan.ok /\ SnapshotValid(ladder, 0)
      BY <1>6 DEF AssessPlan, Assess
    <2>2. Good(plan)
      BY <1>3, <2>1, SnapshotClimbs DEF Good, Inv, TypeOK
    <2>3. plan \in Plan
      BY <2>2 DEF Good, Affordable
    <2>4. pending' \in Pending /\ pending'.plan = plan
      BY <1>6, <2>3 DEF Pending
    <2>5. TypeOK'
      BY <1>1, <1>6, <2>4, BarPasses DEF Inv, TypeOK, market
    <2>6. Good(pending.plan)'
      BY <1>1, <2>2, <2>4, GoodStays
    <2> QED
      BY <1>1, <2>4, <2>5, <2>6, NothingElse, NothingMoves
  <1> QED
    BY <1>2, <1>4, <1>5, <1>6 DEF plan

(***************************************************************************)
(* The end of the data.                                                    *)
(***************************************************************************)

LEMMA FinishInv ==
  ASSUME Inv, Finish
  PROVE  Inv'
  <1>1. phase' = "done" /\ UNCHANGED <<market, bars, pending, answer, vetoed>>
    BY DEF Finish
  <1>2. CASE UNCHANGED <<equity, position, last, ledger>>
    <2>1. TypeOK'
      BY <1>1, <1>2 DEF Inv, TypeOK, market
    <2> QED
      BY <1>1, <1>2, <2>1, NothingMoves
  <1>3. CASE position # Nothing /\ \E close \in Offsets :
                Close(position, close - Slippage, "end_of_data", 0)
    <2>1. PICK close \in Offsets : Close(position, close - Slippage, "end_of_data", 0)
      BY <1>3
    <2>2. position \in Position /\ close - Slippage \in Int
      BY <1>3, OffsetType DEF Inv, TypeOK
    <2>3. -position.plan.stop < position.low
      BY <1>3 DEF Inv, StopHonoured
    <2>4. /\ position.low \in Int /\ position.plan.stop \in Int
          /\ position.realised \in Int /\ position.exitFees \in Int
      BY <2>2 DEF Position, Plan
    <2>5. /\ ~(position.low <= -position.plan.stop)
          /\ position.realised - position.exitFees - 0
               = position.realised - position.exitFees
      BY <2>3, <2>4
    <2>6. UNCHANGED <<market, pending>>
      BY <1>1
    <2>7. /\ position' = Nothing /\ equity' \in Int /\ last' \in Trade
          /\ ledger' \in [trades : Nat, net : Int, entryFees : Int, funding : Int]
          /\ \A plan \in Working' : Good(plan)'
          /\ RungsCoverRemaining' /\ StopHonoured' /\ BooksBalance'
      BY <1>3, <2>1, <2>2, <2>5, <2>6, CloseInv
    <2> QED
      BY <1>1, <2>7 DEF Inv, TypeOK, Single, market
  <1> QED
    BY <1>2, <1>3 DEF Finish

LEMMA InvInit ==
  ASSUME Init
  PROVE  Inv
  <1>1. TypeOK
    BY BacktestAssumption DEF Init, TypeOK
  <1>2. Working = {}
    BY DEF Init, Working
  <1>3. RungsCoverRemaining /\ StopHonoured /\ Single
    BY DEF Init, RungsCoverRemaining, StopHonoured, Single
  <1>4. BooksBalance
    BY BacktestAssumption DEF Init, BooksBalance
  <1> QED
    BY <1>1, <1>2, <1>3, <1>4 DEF Inv

LEMMA InvStep ==
  ASSUME Inv, [Next]_vars
  PROVE  Inv'
  <1>1. CASE UNCHANGED vars
    <2>1. /\ UNCHANGED <<market, bars, phase, equity, pending, position, answer, vetoed>>
          /\ UNCHANGED <<last, ledger>>
      BY <1>1 DEF vars
    <2>2. TypeOK'
      BY <2>1 DEF Inv, TypeOK, market
    <2> QED
      BY <2>1, <2>2, NothingMoves
  <1> QED
    BY <1>1, CloseOnBarInv, HoldThroughBarInv, FillPendingInv, WaitForFillInv,
       ExpirePendingInv, StandAsideInv, DecideInv, FinishInv DEF Next

LEMMA Invariance == Spec => []Inv
  <1>1. Init => Inv
    BY InvInit
  <1>2. Inv /\ [Next]_vars => Inv'
    BY InvStep
  <1> QED
    BY <1>1, <1>2, PTL DEF Spec

\* Whatever the exchange publishes and the market does, every part of the backtest's state
\* has its type: the sizer never plans a fractional or empty order, the rungs never more.
THEOREM BacktestTypes == Spec => []TypeOK
  <1>1. Inv => TypeOK
    BY DEF Inv
  <1> QED
    BY <1>1, Invariance, PTL

\* plan_position promises that a stop-out never costs more than the risk budget: it keeps
\* the promise for every ladder, grid, contract value and size limit, whichever tier the
\* stop settles on and whatever cuts or rounds the size afterwards.
THEOREM BudgetHolds == Spec => []RiskWithinBudget
  <1>1. Inv => RiskWithinBudget
    BY DEF Inv, Good, Affordable, RiskWithinBudget
  <1> QED
    BY <1>1, Invariance, PTL

\* The rungs left of an open position add up to the contracts left, whatever bars took
\* which of them off.
THEOREM RungsHold == Spec => []RungsCoverRemaining
  <1>1. Inv => RungsCoverRemaining
    BY DEF Inv
  <1> QED
    BY <1>1, Invariance, PTL

\* A bar that touches the stop never books a profit instead, on any path of prices.
THEOREM StopsHonoured == Spec => []StopHonoured
  <1>1. Inv => StopHonoured
    BY DEF Inv
  <1> QED
    BY <1>1, Invariance, PTL

\* The equity that sizes the next trade is the starting equity and every net result but for
\* entry fees and funding, however partial and final exits fell on the bars.
THEOREM BooksHold == Spec => []BooksBalance
  <1>1. Inv => BooksBalance
    BY DEF Inv
  <1> QED
    BY <1>1, Invariance, PTL

\* With a buffer at all, the stop of every plan the guard let through would pass
\* verify_fill against the tier the exchange really applies to its notional.
THEOREM LiquidationsClear ==
  ASSUME LiquidationBuffer > 0
  PROVE  Spec => []LiquidationClear
  <1>1. ASSUME Inv PROVE LiquidationClear
    <2> SUFFICES ASSUME NEW plan \in Working
                 PROVE  LET real == LiquidationDistance(AppliedRate(Value(plan.size)))
                        IN /\ real >= Liquidation(plan)
                           /\ VerifyFill(plan.stop, real, real, Leverage)
      BY DEF LiquidationClear
    <2> DEFINE rate == AppliedRate(Value(plan.size))
               mine == ladder[plan.tier].rate
    <2>1. Affordable(plan) /\ Covering(plan)
      BY <1>1 DEF Inv, Good
    <2>2. mine \in Int /\ rate \in Int /\ rate <= mine
      BY <1>1, <2>1, LadderType DEF Affordable, Covering, Inv, TypeOK
    <2>3. plan.stop \in Nat \ {0} /\ plan.stop <= LiquidationDistance(mine) - LiquidationBuffer
      BY <2>1 DEF Affordable, Plan, Liquidation
    <2> HIDE DEF rate, mine
    <2>4. /\ LiquidationDistance(rate) \in Int /\ LiquidationDistance(mine) \in Int
          /\ LiquidationDistance(rate) >= LiquidationDistance(mine)
      <3>1. Scale \div Leverage \in Int
        BY RatesType, QuotientType
      <3> QED
        BY <2>2, <3>1, RatesType DEF LiquidationDistance
    <2>5. /\ LiqPriceTolerance \in Nat /\ MaxLeverage \in Nat /\ Leverage <= MaxLeverage
      BY GuardAssumption
    <2>6. VerifyFill(plan.stop, LiquidationDistance(rate), LiquidationDistance(rate), Leverage)
      BY <2>3, <2>4, <2>5, RatesType DEF VerifyFill
    <2> QED
      BY <2>4, <2>6 DEF rate, mine, Liquidation
  <1> QED
    BY <1>1, Invariance, PTL

(***************************************************************************)
(* What an exit can lose.                                                  *)
(***************************************************************************)

\* The margin posted per unit of value.
Margin == Scale \div Leverage

LEMMA MarginType == Margin \in Nat /\ Margin * Leverage = Scale
  <1>1. /\ Scale \in Nat \ {0} /\ Leverage \in Nat \ {0} /\ Scale % Leverage = 0
    BY SizingAssumption
  <1> QED
    BY <1>1, Z3T(60) DEF Margin

\* Every exit of a plan the sizer made is above the loss of the margin.
LEMMA PriceFloor ==
  ASSUME Inv, NEW plan \in Working, Slippage <= LiquidationBuffer
  PROVE  /\ plan.stop \in Nat \ {0} /\ plan.size \in Nat \ {0} /\ Liquidation(plan) \in Int
         /\ -Liquidation(plan) - TakerFee >= -Margin
         /\ (-plan.stop - Slippage) - TakerFee >= -Margin
  <1>1. Affordable(plan)
    BY DEF Inv, Good
  <1>2. ladder[plan.tier].rate \in Nat
    BY <1>1, LadderType DEF Affordable, Inv, TypeOK
  <1>3. plan.stop \in Nat \ {0} /\ plan.size \in Nat \ {0}
    BY <1>1 DEF Affordable, Plan
  <1>4. Liquidation(plan) = Margin - ladder[plan.tier].rate - TakerFee
    BY DEF Liquidation, LiquidationDistance, Margin
  <1>5. plan.stop <= Liquidation(plan) - LiquidationBuffer
    BY <1>1 DEF Affordable
  <1> QED
    BY <1>2, <1>3, <1>4, <1>5, MarginType, RatesType, OffsetType

\* So is every contract's result.
LEMMA PartFloor ==
  ASSUME contract \in Contracts, NEW n \in Nat, NEW price \in Int, price - TakerFee >= -Margin
  PROVE  /\ Value(n) * price \in Int /\ Value(n) * Margin \in Int
         /\ Value(n) * price - ExitFee(n) + Value(n) * Margin >= 0
  <1> DEFINE v == Value(n)
             spare == price - TakerFee + Margin
  <1>1. v \in Nat /\ spare \in Nat /\ TakerFee \in Nat /\ Margin \in Nat
    BY ValueType, MarginType, RatesType
  <1>2. ExitFee(n) = v * TakerFee
    BY DEF ExitFee
  <1>3. v * price - v * TakerFee + v * Margin = v * spare
    <2> HIDE DEF v
    <2> QED
      BY <1>1
  <1> HIDE DEF v, spare
  <1>4. v * spare \in Nat /\ v * price \in Int /\ v * Margin \in Int
    BY <1>1
  <1> QED
    BY <1>2, <1>3, <1>4 DEF v

\* What was taken off so far has lost no more than its share of the margin.
Floored(p) ==
    p.realised - p.exitFees + Value(p.plan.size) * Margin >= Value(p.remaining) * Margin

LEMMA IncomeFloor ==
  ASSUME contract \in Contracts, NEW p \in Position, NEW rungs \in SUBSET Rungs,
         (-p.plan.stop - Slippage) - TakerFee >= -Margin
  PROVE  /\ Income(p, rungs) \in Int /\ Value(SizeOf(p.plan.size, rungs)) * Margin \in Int
         /\ Income(p, rungs) + Value(SizeOf(p.plan.size, rungs)) * Margin >= 0
  <1> DEFINE n(rung) == IF rung \in rungs THEN RungSize(p.plan.size, rung) ELSE 0
             price(rung) == rung * p.plan.stop - Slippage
             gain(rung) == Value(n(rung)) * price(rung) - ExitFee(n(rung))
                           + Value(n(rung)) * Margin
  <1>1. /\ p.plan \in Plan /\ p.plan.size \in Nat /\ p.plan.stop \in Nat \ {0}
        /\ Slippage \in Nat /\ TakerFee \in Nat /\ Margin \in Nat
    BY OffsetType, RatesType, MarginType DEF Position, Plan
  <1>2. ASSUME NEW rung \in Rungs
        PROVE  /\ n(rung) \in Nat /\ price(rung) \in Int
               /\ Value(n(rung)) * price(rung) \in Int /\ Value(n(rung)) * Margin \in Int
               /\ ExitFee(n(rung)) \in Int
               /\ gain(rung) >= 0
    <2>1. n(rung) \in Nat
      BY <1>1, RungType
    <2>2. price(rung) \in Int /\ price(rung) - TakerFee >= -Margin
      <3>1. rung * p.plan.stop \in Nat
        BY <1>1 DEF Rungs
      <3> QED
        BY <1>1, <3>1
    <2> HIDE DEF n, price
    <2> QED
      BY <2>1, <2>2, PartFloor, ValueType
  <1>3. /\ SizeOf(p.plan.size, rungs) = n(1) + n(2) + n(3)
        /\ EarnedBy(p.plan, rungs) = Value(n(1)) * price(1) + Value(n(2)) * price(2)
                                     + Value(n(3)) * price(3)
    <2>1. SizeOf(p.plan.size, rungs) = n(1) + n(2) + n(3)
      BY DEF SizeOf
    <2>2. ASSUME NEW rung \in Rungs
          PROVE  (IF rung \in rungs
                  THEN Value(RungSize(p.plan.size, rung)) * price(rung) ELSE 0)
                   = Value(n(rung)) * price(rung)
      <3>1. price(rung) \in Int /\ contract.value \in Int
        BY <1>2, ContractType
      <3>2. Value(0) * price(rung) = 0
        <4> HIDE DEF price
        <4> QED
          BY <3>1 DEF Value
      <3> QED
        BY <3>2
    <2>3. 1 \in Rungs /\ 2 \in Rungs /\ 3 \in Rungs
      BY DEF Rungs
    <2>4. EarnedBy(p.plan, rungs)
            = (IF 1 \in rungs THEN Value(RungSize(p.plan.size, 1)) * price(1) ELSE 0)
              + (IF 2 \in rungs THEN Value(RungSize(p.plan.size, 2)) * price(2) ELSE 0)
              + (IF 3 \in rungs THEN Value(RungSize(p.plan.size, 3)) * price(3) ELSE 0)
      BY DEF EarnedBy
    <2> HIDE DEF n, price
    <2> QED
      BY <2>1, <2>2, <2>3, <2>4
  <1>4. 1 \in Rungs /\ 2 \in Rungs /\ 3 \in Rungs
    BY DEF Rungs
  <1> DEFINE a == n(1)
             b == n(2)
             c == n(3)
             x == Value(a) * price(1)
             y == Value(b) * price(2)
             z == Value(c) * price(3)
  <1>5. /\ a \in Nat /\ b \in Nat /\ c \in Nat /\ x \in Int /\ y \in Int /\ z \in Int
        /\ x - ExitFee(a) + Value(a) * Margin >= 0
        /\ y - ExitFee(b) + Value(b) * Margin >= 0
        /\ z - ExitFee(c) + Value(c) * Margin >= 0
    BY <1>2, <1>4
  <1>6. SizeOf(p.plan.size, rungs) = a + b + c /\ EarnedBy(p.plan, rungs) = x + y + z
    BY <1>3
  <1> HIDE DEF n, price, a, b, c, x, y, z
  <1>7. /\ Value(a) \in Int /\ Value(b) \in Int /\ Value(c) \in Int
        /\ Value(a + b + c) = Value(a) + Value(b) + Value(c)
    BY <1>5, ContractType DEF Value
  <1>8. /\ Value(a + b + c) * Margin = Value(a) * Margin + Value(b) * Margin + Value(c) * Margin
        /\ Value(a) * Margin \in Int /\ Value(b) * Margin \in Int /\ Value(c) * Margin \in Int
    BY <1>1, <1>7
  <1>9. /\ ExitFee(a + b + c) = ExitFee(a) + ExitFee(b) + ExitFee(c)
        /\ ExitFee(a) \in Int /\ ExitFee(b) \in Int /\ ExitFee(c) \in Int
    BY <1>1, <1>7 DEF ExitFee
  <1>10. Income(p, rungs) = x + y + z - (ExitFee(a) + ExitFee(b) + ExitFee(c))
    <2>1. Income(p, rungs) = (x + y + z) - ExitFee(a + b + c)
      BY <1>6 DEF Income
    <2> QED
      BY <1>5, <1>9, <2>1
  <1> QED
    BY <1>5, <1>6, <1>8, <1>9, <1>10

LossInv ==
    /\ position # Nothing => Floored(position)
    /\ LossWithinMargin

\* A close of a floored position at a price above the floor.
LEMMA CloseFloor ==
  ASSUME contract \in Contracts, NEW p \in Position, Floored(p), NEW price \in Int,
         price - TakerFee >= -Margin, NEW reason, NEW income,
         Close(p, price, reason, income), UNCHANGED market
  PROVE  LossWithinMargin' /\ position' = Nothing
  <1> DEFINE gross == p.realised + Value(p.remaining) * price
             fees == p.exitFees + ExitFee(p.remaining)
             worth == Value(p.plan.size)
  <1>1. /\ position' = Nothing
        /\ last' = Booked(p, price, reason)
    BY DEF Close
  <1>2. last'.plan = p.plan /\ last'.gross = gross /\ last'.exitFees = fees
    BY <1>1 DEF Booked
  <1>3. /\ p.realised \in Int /\ p.exitFees \in Int
        /\ p.remaining \in Nat /\ p.plan.size \in Nat
    BY DEF Position, Plan
  <1>4. worth \in Nat /\ Margin \in Nat /\ Margin * Leverage = Scale /\ Leverage \in Nat
        /\ Scale \in Nat
    BY <1>3, ValueType, MarginType, RatesType
  <1>5. worth * Margin \in Int
    BY <1>4
  <1>6. gross - fees + worth * Margin >= 0 /\ gross - fees \in Int
    <2> DEFINE x == Value(p.remaining) * price
               f == ExitFee(p.remaining)
               r == Value(p.remaining) * Margin
    <2>1. x \in Int /\ r \in Int /\ f \in Int /\ x - f + r >= 0
      BY <1>3, PartFloor, ValueType
    <2>2. p.realised - p.exitFees + worth * Margin >= r
      BY DEF Floored
    <2> HIDE DEF x, f, r, worth
    <2>3. gross = p.realised + x /\ fees = p.exitFees + f
      BY DEF x, f
    <2> QED
      BY <1>3, <1>5, <2>1, <2>2, <2>3
  <1> HIDE DEF gross, fees, worth
  <1>7. (gross - fees) * Leverage >= -worth * Scale
    <2> DEFINE net == gross - fees
    <2>1. (net + worth * Margin) * Leverage >= 0
      <3>1. net + worth * Margin \in Nat
        BY <1>5, <1>6
      <3> HIDE DEF net
      <3> QED
        BY <1>4, <3>1
    <2>2. (net + worth * Margin) * Leverage = net * Leverage + worth * (Margin * Leverage)
      <3>1. net \in Int
        BY <1>6
      <3> HIDE DEF net
      <3> QED
        BY <1>4, <3>1, Z3T(60)
    <2>3. net * Leverage \in Int /\ worth * Scale \in Int
      <3>1. net \in Int
        BY <1>6
      <3> HIDE DEF net
      <3> QED
        BY <1>4, <3>1
    <2>4. -worth * Scale = -(worth * Scale)
      BY <1>4
    <2>5. worth * (Margin * Leverage) = worth * Scale
      BY <1>4
    <2> HIDE DEF net
    <2>6. net * Leverage >= -(worth * Scale)
      BY <2>1, <2>2, <2>3, <2>5
    <2> QED
      BY <2>4, <2>6 DEF net
  <1>8. Value(last.plan.size)' = worth
    BY <1>2 DEF Value, market, worth
  <1>9. LossWithinMargin'
    BY <1>2, <1>7, <1>8 DEF LossWithinMargin
  <1> QED
    BY <1>1, <1>9

\* Rungs taken off leave a floored position floored.
LEMMA AfterRungsFloor ==
  ASSUME contract \in Contracts, NEW p \in Position, NEW rungs \in SUBSET p.targets,
         p.remaining = SizeOf(p.plan.size, p.targets), Floored(p),
         (-p.plan.stop - Slippage) - TakerFee >= -Margin
  PROVE  Floored(AfterRungs(p, rungs))
  <1> DEFINE q == AfterRungs(p, rungs)
             taken == SizeOf(p.plan.size, rungs)
             whole == Value(p.plan.size) * Margin
  <1>1. /\ q \in Position /\ q.plan = p.plan /\ q.remaining = p.remaining - taken
        /\ q.realised - q.exitFees = p.realised - p.exitFees + Income(p, rungs)
    BY AfterRungsType
  <1>2. rungs \in SUBSET Rungs
    BY DEF Position
  <1>3. /\ Income(p, rungs) \in Int /\ Value(taken) * Margin \in Int
        /\ Income(p, rungs) + Value(taken) * Margin >= 0
    BY <1>2, IncomeFloor
  <1> HIDE DEF q
  <1>4. /\ p.realised \in Int /\ p.exitFees \in Int
        /\ p.remaining \in Nat /\ p.plan.size \in Nat
        /\ q.realised \in Int /\ q.exitFees \in Int /\ taken \in Nat
    BY <1>1, <1>2, SizeOfType DEF Position, Plan
  <1>5. Value(p.remaining) \in Int /\ Value(taken) \in Int /\ whole \in Int /\ Margin \in Nat
    <2>1. Value(p.plan.size) \in Int /\ Value(p.remaining) \in Int /\ Value(taken) \in Int
      BY <1>4, ValueType
    <2> QED
      BY <2>1, MarginType
  <1>6. p.realised - p.exitFees + whole >= Value(p.remaining) * Margin
    BY DEF Floored
  <1> HIDE DEF taken, whole
  <1>7. Value(p.remaining - taken) = Value(p.remaining) - Value(taken)
    BY <1>4, ContractType DEF Value
  <1>8. /\ (Value(p.remaining) - Value(taken)) * Margin
             = Value(p.remaining) * Margin - Value(taken) * Margin
        /\ Value(p.remaining) * Margin \in Int
    BY <1>5
  <1>9. q.realised - q.exitFees + whole >= Value(p.remaining) * Margin - Value(taken) * Margin
    BY <1>1, <1>3, <1>4, <1>5, <1>6, <1>8
  <1>10. q.realised - q.exitFees + whole >= Value(q.remaining) * Margin
    BY <1>1, <1>7, <1>8, <1>9
  <1> QED
    BY <1>1, <1>10 DEF Floored, q, whole

LEMMA AccruedFloor ==
  ASSUME NEW p \in Position, NEW a \in Position, Floored(p), a.plan = p.plan,
         a.remaining = p.remaining, a.realised = p.realised, a.exitFees = p.exitFees
  PROVE  Floored(a)
  BY DEF Floored

LEMMA CloseOnBarFloor ==
  ASSUME Inv, LossInv, CloseOnBar, Slippage <= LiquidationBuffer
  PROVE  LossInv'
  <1>1. PICK worst \in Offsets, best \in Offsets, crossed \in BOOLEAN :
           LET p == Accrued(position, worst, crossed)
           IN Liquidate(p, worst) \/ StopOut(p, worst) \/ TakeProfit(p, worst, best)
    BY Zenon DEF CloseOnBar
  <1> DEFINE p == Accrued(position, worst, crossed)
  <1>2. position # Nothing /\ UNCHANGED market
    BY DEF CloseOnBar
  <1>3. position \in Position /\ contract \in Contracts /\ worst \in Int /\ Slippage \in Int
    BY <1>2, OffsetType DEF Inv, TypeOK
  <1>4. /\ p \in Position
        /\ p.plan = position.plan /\ p.remaining = position.remaining
        /\ p.targets = position.targets
        /\ p.realised = position.realised /\ p.exitFees = position.exitFees
    BY <1>3, AccruedType
  <1>5. Floored(p)
    <2>1. Floored(position)
      BY <1>2 DEF LossInv
    <2> HIDE DEF p
    <2> QED
      BY <1>3, <1>4, <2>1, AccruedFloor
  <1>6. p.remaining = SizeOf(p.plan.size, p.targets)
    BY <1>2, <1>4 DEF Inv, RungsCoverRemaining
  <1>7. p.plan \in Working
    BY <1>2, <1>4, Workers
  <1>8. /\ p.plan.stop \in Nat \ {0} /\ Liquidation(p.plan) \in Int
        /\ -Liquidation(p.plan) - TakerFee >= -Margin
        /\ (-p.plan.stop - Slippage) - TakerFee >= -Margin
    BY <1>7, PriceFloor
  <1> HIDE DEF p
  <1>9. CASE Liquidate(p, worst)
    <2>1. Close(p, -Liquidation(p.plan), "liquidation", 0) /\ -Liquidation(p.plan) \in Int
      BY <1>8, <1>9 DEF Liquidate
    <2> QED
      BY <1>2, <1>3, <1>4, <1>5, <1>8, <2>1, CloseFloor DEF LossInv
  <1>10. CASE StopOut(p, worst)
    <2>1. /\ Close(p, -p.plan.stop - Slippage, "stop", 0)
          /\ -p.plan.stop - Slippage \in Int
      BY <1>3, <1>8, <1>10 DEF StopOut
    <2> QED
      BY <1>2, <1>3, <1>4, <1>5, <1>8, <2>1, CloseFloor DEF LossInv
  <1>11. CASE TakeProfit(p, worst, best)
    <2> DEFINE rungs == Reached(p, best)
               final == Max(rungs)
               early == rungs \ {final}
               q == AfterRungs(p, early)
               price == final * p.plan.stop - Slippage
    <2>1. rungs # {} /\ Close(q, price, "target", Income(p, early))
      BY <1>11 DEF TakeProfit
    <2>2. rungs \in SUBSET p.targets /\ early \in SUBSET p.targets /\ p.targets \in SUBSET Rungs
      BY <1>4 DEF Reached, Position
    <2>3. final \in Rungs
      <3> HIDE DEF rungs
      <3>1. \E x \in rungs : \A y \in rungs : x >= y
        BY <2>1, <2>2 DEF Rungs
      <3>2. final \in rungs
        BY <3>1 DEF Max
      <3> QED
        BY <2>2, <3>2
    <2>4. q \in Position /\ q.plan = p.plan /\ Floored(q)
      <3> HIDE DEF early
      <3>1. q \in Position /\ q.plan = p.plan
        BY <1>3, <1>4, <1>6, <2>2, AfterRungsType
      <3>2. Floored(q)
        BY <1>3, <1>4, <1>5, <1>6, <1>8, <2>2, AfterRungsFloor
      <3> QED
        BY <3>1, <3>2
    <2>5. price \in Int /\ price - TakerFee >= -Margin
      <3> HIDE DEF final
      <3>1. final * p.plan.stop \in Nat
        BY <1>8, <2>3 DEF Rungs
      <3> QED
        BY <1>3, <1>8, <3>1, RatesType, MarginType
    <2> HIDE DEF q, price, early
    <2> QED
      BY <1>2, <1>3, <2>1, <2>4, <2>5, CloseFloor DEF LossInv
  <1> QED
    BY <1>1, <1>9, <1>10, <1>11 DEF p

LEMMA HoldThroughBarFloor ==
  ASSUME Inv, LossInv, HoldThroughBar, Slippage <= LiquidationBuffer
  PROVE  LossInv'
  <1>1. PICK worst \in Offsets, best \in Offsets, crossed \in BOOLEAN :
           position' = AfterRungs(Accrued(position, worst, crossed), Reached(position, best))
    BY Zenon DEF HoldThroughBar
  <1> DEFINE p == Accrued(position, worst, crossed)
             rungs == Reached(position, best)
  <1>2. position # Nothing /\ UNCHANGED market /\ last' = last
    BY DEF HoldThroughBar
  <1>3. position \in Position /\ contract \in Contracts /\ worst \in Int
    BY <1>2, OffsetType DEF Inv, TypeOK
  <1>4. /\ p \in Position
        /\ p.plan = position.plan /\ p.remaining = position.remaining
        /\ p.targets = position.targets
        /\ p.realised = position.realised /\ p.exitFees = position.exitFees
    BY <1>3, AccruedType
  <1>5. rungs \in SUBSET p.targets
    BY <1>4 DEF Reached
  <1>6. position' = AfterRungs(p, rungs)
    BY <1>1
  <1> HIDE DEF p, rungs
  <1>7. Floored(position)
    BY <1>2 DEF LossInv
  <1>8. Floored(p)
    BY <1>3, <1>4, <1>7, AccruedFloor
  <1>9. p.remaining = SizeOf(p.plan.size, p.targets)
    BY <1>2, <1>4 DEF Inv, RungsCoverRemaining
  <1>10. (-p.plan.stop - Slippage) - TakerFee >= -Margin
    BY <1>2, <1>4, Workers, PriceFloor
  <1> DEFINE q == AfterRungs(p, rungs)
  <1>11. Floored(q)
    BY <1>3, <1>4, <1>5, <1>8, <1>9, <1>10, AfterRungsFloor
  <1> HIDE DEF q
  <1>12. Floored(position)'
    BY <1>2, <1>6, <1>11 DEF Floored, Value, market, q
  <1>13. LossWithinMargin'
    BY <1>2 DEF LossInv, LossWithinMargin, Value, market
  <1> QED
    BY <1>12, <1>13 DEF LossInv

LEMMA FillPendingFloor ==
  ASSUME Inv, LossInv, FillPending
  PROVE  LossInv'
  <1>1. /\ pending # Nothing /\ position' = Opened(pending.plan)
        /\ UNCHANGED market /\ last' = last
    BY DEF FillPending
  <1>2. pending.plan \in Plan /\ contract \in Contracts
    BY <1>1 DEF Inv, TypeOK, Pending
  <1>3. /\ position'.plan = pending.plan /\ position'.remaining = pending.plan.size
        /\ position'.realised = 0 /\ position'.exitFees = 0
    BY <1>1 DEF Opened
  <1>4. pending.plan.size \in Nat
    BY <1>2 DEF Plan
  <1>5. Value(pending.plan.size) * Margin \in Int
    <2>1. Value(pending.plan.size) \in Int
      BY <1>2, <1>4, ValueType
    <2> QED
      BY <2>1, MarginType
  <1>6. Floored(position)'
    <2> DEFINE whole == Value(pending.plan.size) * Margin
    <2>1. /\ (Value(position.plan.size) * Margin)' = whole
          /\ (Value(position.remaining) * Margin)' = whole
      BY <1>1, <1>3 DEF Value, market
    <2> HIDE DEF whole
    <2>2. whole \in Int /\ 0 - 0 + whole >= whole
      BY <1>5 DEF whole
    <2> QED
      BY <1>3, <2>1, <2>2 DEF Floored
  <1>7. LossWithinMargin'
    BY <1>1 DEF LossInv, LossWithinMargin, Value, market
  <1> QED
    BY <1>6, <1>7 DEF LossInv

LEMMA FinishFloor ==
  ASSUME Inv, LossInv, Finish, Slippage <= LiquidationBuffer
  PROVE  LossInv'
  <1>1. UNCHANGED market
    BY DEF Finish
  <1>2. CASE UNCHANGED <<position, last>>
    BY <1>1, <1>2 DEF LossInv, LossWithinMargin, Floored, Value, market
  <1>3. CASE position # Nothing /\ \E close \in Offsets :
                /\ LastClose(position, close)
                /\ Close(position, close - Slippage, "end_of_data", 0)
    <2>1. PICK close \in Offsets :
             LastClose(position, close) /\ Close(position, close - Slippage, "end_of_data", 0)
      BY <1>3
    <2>2. /\ position \in Position /\ contract \in Contracts
          /\ close \in Int /\ Slippage \in Int /\ TakerFee \in Int
      BY <1>3, OffsetType, RatesType DEF Inv, TypeOK
    <2>3. CASE position.held = 0
      <3>1. position' = Nothing /\ last'.held = 0
        BY <2>1, <2>3 DEF Close, Booked
      <3> QED
        BY <3>1 DEF LossInv, LossWithinMargin
    <2>4. CASE -position.plan.stop < close
      <3>1. /\ position.plan.stop \in Nat \ {0}
            /\ (-position.plan.stop - Slippage) - TakerFee >= -Margin
        BY <1>3, Workers, PriceFloor
      <3>2. close - Slippage \in Int /\ (close - Slippage) - TakerFee >= -Margin
        BY <2>2, <2>4, <3>1, MarginType
      <3>3. Floored(position)
        BY <1>3 DEF LossInv
      <3> QED
        BY <1>1, <2>1, <2>2, <3>2, <3>3, CloseFloor DEF LossInv
    <2> QED
      BY <2>1, <2>3, <2>4 DEF LastClose
  <1> QED
    BY <1>2, <1>3 DEF Finish

\* With the slippage within the buffer the sizer keeps, no exit of any kind loses more than
\* the margin posted, on any path of prices and after any rungs.
THEOREM LossesBounded ==
  ASSUME Slippage <= LiquidationBuffer
  PROVE  Spec => []LossWithinMargin
  <1>1. Init => LossInv
    BY DEF Init, LossInv, LossWithinMargin
  <1>2. Inv /\ LossInv /\ [Next]_vars => LossInv'
    <2> SUFFICES ASSUME Inv, LossInv, [Next]_vars PROVE LossInv'
      OBVIOUS
    <2>1. CASE UNCHANGED <<market, position, last>>
      BY <2>1 DEF LossInv, LossWithinMargin, Floored, Value, market
    <2>2. WaitForFill \/ ExpirePending \/ StandAside \/ Decide \/ UNCHANGED vars
             => UNCHANGED <<market, position, last>>
      BY DEF WaitForFill, ExpirePending, StandAside, Decide, NextBar, vars
    <2> QED
      BY <2>1, <2>2, CloseOnBarFloor, HoldThroughBarFloor, FillPendingFloor, FinishFloor
         DEF Next
  <1>3. LossInv => LossWithinMargin
    BY DEF LossInv
  <1> QED
    BY <1>1, <1>2, <1>3, Invariance, PTL DEF Spec

(***************************************************************************)
(* Tiers of a ladder that climbs.                                          *)
(***************************************************************************)

\* On a ladder that climbs the order of the limits is the order of the tiers.
LEMMA TierOrder ==
  ASSUME NEW rungs \in Ladders, Climbs(rungs), NEW i \in DOMAIN rungs, NEW j \in DOMAIN rungs
  PROVE  NoLater(rungs, i, j) <=> i <= j
  <1>1. /\ i \in Int /\ j \in Int
        /\ rungs[i].limit \in Nat /\ rungs[j].limit \in Nat
    BY LadderType
  <1>2. /\ i < j => rungs[i].limit < rungs[j].limit
        /\ j < i => rungs[j].limit < rungs[i].limit
    BY DEF Climbs
  <1>3. i = j => rungs[i].limit = rungs[j].limit
    OBVIOUS
  <1> QED
    BY <1>1, <1>2, <1>3 DEF NoLater

\* The tier selected is the first that covers the notional, or the last of all.
LEMMA SelectedIsFirst ==
  ASSUME NEW rungs \in Ladders, Climbs(rungs), NEW amount \in Int, NEW per \in Nat
  PROVE  LET covering == {i \in DOMAIN rungs : amount <= rungs[i].limit * per}
             t == SelectTier(rungs, amount, per)
         IN /\ t \in DOMAIN rungs
            /\ covering # {} => t \in covering /\ \A j \in covering : t <= j
            /\ covering = {} => \A j \in DOMAIN rungs : j <= t
  <1> DEFINE covering == {i \in DOMAIN rungs : amount <= rungs[i].limit * per}
             t == SelectTier(rungs, amount, per)
  <1>1. t \in DOMAIN rungs
    BY SelectedTier
  <1>2. CASE covering # {}
    <2>1. \E i \in covering : \A j \in covering : NoLater(rungs, i, j)
      BY <1>2, LowestLimit, covering \in SUBSET DOMAIN rungs DEF NoLater
    <2>2. t = CHOOSE i \in covering : \A j \in covering : NoLater(rungs, i, j)
      BY <1>2 DEF SelectTier
    <2>3. t \in covering /\ \A j \in covering : NoLater(rungs, t, j)
      BY <2>1, <2>2
    <2>4. \A j \in covering : t <= j
      BY <1>1, <2>3, TierOrder
    <2> QED
      BY <1>1, <1>2, <2>3, <2>4
  <1>3. CASE covering = {}
    <2>1. \E i \in DOMAIN rungs : \A j \in DOMAIN rungs : NoLater(rungs, j, i)
      BY GreatestLimit DEF NoLater
    <2>2. t = CHOOSE i \in DOMAIN rungs : \A j \in DOMAIN rungs : NoLater(rungs, j, i)
      BY <1>3 DEF SelectTier
    <2>3. \A j \in DOMAIN rungs : NoLater(rungs, j, t)
      BY <2>1, <2>2
    <2>4. \A j \in DOMAIN rungs : j <= t
      BY <1>1, <2>3, TierOrder
    <2> QED
      BY <1>1, <1>3, <2>4
  <1> QED
    BY <1>2, <1>3

\* A tier that covers one notional is no higher than the tier of a larger one: the first
\* is amount / per, the second larger / unit.
LEMMA SelectedRises ==
  ASSUME NEW rungs \in Ladders, Climbs(rungs),
         NEW amount \in Int, NEW per \in Nat, NEW larger \in Int, NEW unit \in Nat,
         \A limit \in Nat : larger <= limit * unit => amount <= limit * per
  PROVE  SelectTier(rungs, amount, per) <= SelectTier(rungs, larger, unit)
  <1> DEFINE t == SelectTier(rungs, amount, per)
             u == SelectTier(rungs, larger, unit)
             covering == {i \in DOMAIN rungs : amount <= rungs[i].limit * per}
             above == {i \in DOMAIN rungs : larger <= rungs[i].limit * unit}
  <1>0. \A i \in DOMAIN rungs : rungs[i].limit \in Nat
    BY ONLY LadderType, rungs \in Ladders
  <1>1. /\ t \in DOMAIN rungs
        /\ covering # {} => \A j \in covering : t <= j
    BY SelectedIsFirst
  <1>2. /\ u \in DOMAIN rungs
        /\ above # {} => u \in above
        /\ above = {} => \A j \in DOMAIN rungs : j <= u
    BY SelectedIsFirst
  <1>3. above \subseteq covering
    <2> SUFFICES ASSUME NEW i \in DOMAIN rungs, larger <= rungs[i].limit * unit
                 PROVE  amount <= rungs[i].limit * per
      OBVIOUS
    <2>1. rungs[i].limit \in Nat
      BY <1>0
    <2> QED
      BY <2>1
  <1> HIDE DEF t, u, covering, above
  <1> QED
    BY <1>1, <1>2, <1>3 DEF t, u

\* The loop starts on the first tier.
LEMMA LowestIsFirst ==
  ASSUME NEW rungs \in Ladders, Climbs(rungs)
  PROVE  LowestTier(rungs) \in DOMAIN rungs /\ \A j \in DOMAIN rungs : LowestTier(rungs) <= j
  <1>1. DOMAIN rungs # {}
    <2>1. 1 \in DOMAIN rungs
      BY LadderType
    <2> QED
      BY <2>1
  <1>2. \E i \in DOMAIN rungs : \A j \in DOMAIN rungs : NoLater(rungs, i, j)
    BY <1>1, LowestLimit DEF NoLater
  <1>3. /\ LowestTier(rungs) \in DOMAIN rungs
        /\ \A j \in DOMAIN rungs : NoLater(rungs, LowestTier(rungs), j)
    BY <1>2 DEF LowestTier
  <1> QED
    BY <1>3, TierOrder

(***************************************************************************)
(* Stops under two ceilings.                                               *)
(***************************************************************************)

LEMMA Division ==
  ASSUME NEW a \in Int, NEW b \in Nat \ {0}
  PROVE  a = b * (a \div b) + (a % b)
  BY ONLY SMTT(60)

\* A positive multiple is at least the factor.
LEMMA MultipleBound ==
  ASSUME NEW b \in Nat \ {0}, NEW p \in Int, NEW q \in Int, p < q
  PROVE  b * p + b <= b * q
  <1>1. b * q = b * p + b * (q - p) /\ b * p \in Int
    OBVIOUS
  <1>2. (q - p) - 1 \in Nat
    OBVIOUS
  <1>3. b * ((q - p) - 1) \in Nat /\ b * (q - p) = b * ((q - p) - 1) + b
    BY <1>2
  <1> QED
    BY <1>1, <1>3

\* Snapping to the grid keeps the order of distances, and moves less than a tick.
LEMMA TowardEntryOrder ==
  ASSUME NEW a \in Int, NEW b \in Int, NEW residue \in Int, NEW tick \in Nat \ {0}, a <= b
  PROVE  /\ TowardEntry(a, residue, tick) <= TowardEntry(b, residue, tick)
         /\ TowardEntry(a, residue, tick) > a - tick
  <1> DEFINE p == (a - residue) \div tick
             q == (b - residue) \div tick
             r == (a - residue) % tick
             s == (b - residue) % tick
  <1>1. /\ p \in Int /\ q \in Int
        /\ r \in Nat /\ r < tick /\ s \in Nat /\ s < tick
    BY QuotientType, RemainderType
  <1>2. a - residue = tick * p + r /\ b - residue = tick * q + s
    BY Division
  <1>3. TowardEntry(a, residue, tick) = a - r /\ TowardEntry(b, residue, tick) = b - s
    BY DEF TowardEntry
  <1> HIDE DEF p, q, r, s
  <1>4. tick * p \in Int /\ tick * q \in Int
    BY <1>1
  <1>5. CASE p <= q
    <2>1. tick * p <= tick * q
      BY <1>1, <1>5, ProductMonotonic, p * tick = tick * p, q * tick = tick * q
    <2> QED
      BY <1>1, <1>2, <1>3, <1>4, <2>1
  <1>6. CASE q < p
    <2>1. tick * q + tick <= tick * p
      BY <1>1, <1>6, MultipleBound
    <2> QED
      BY <1>1, <1>2, <1>4, <2>1
  <1> QED
    BY <1>1, <1>5, <1>6

\* A lower ceiling never moves the stop away from the entry.
LEMMA StopOrder ==
  ASSUME NEW low \in Int, NEW high \in Int, low <= high,
         NEW atr \in Nat, NEW swing \in Nat, NEW tick \in Nat \ {0}, NEW residue \in Int,
         ResolveStop(low, atr, swing, tick, residue).ok
  PROVE  StopDistance(low, atr, swing, tick, residue)
           <= StopDistance(high, atr, swing, tick, residue)
  <1> DEFINE wanted == LargerOf(Candidate(atr, swing), MinDistance)
             Limit(ceiling) == SmallerOf(ceiling, MaxDistance)
             Kept(ceiling) == IF wanted > Limit(ceiling)
                              THEN LargerOf(MinDistance, Limit(ceiling) - tick) ELSE wanted
  <1>1. /\ wanted \in Int /\ MinDistance <= wanted
        /\ Limit(low) \in Int /\ Limit(high) \in Int /\ Limit(low) <= Limit(high)
    BY CandidateType, StopType DEF LargerOf, SmallerOf
  <1>2. MinDistance <= Limit(low)
    BY DEF ResolveStop
  <1>3. /\ StopDistance(low, atr, swing, tick, residue) = TowardEntry(Kept(low), residue, tick)
        /\ StopDistance(high, atr, swing, tick, residue)
             = TowardEntry(Kept(high), residue, tick)
    BY DEF StopDistance
  <1> HIDE DEF wanted, Limit
  <1>4. Kept(low) \in Int /\ Kept(high) \in Int /\ Kept(low) <= Kept(high)
    BY <1>1, <1>2, StopType DEF LargerOf
  <1> HIDE DEF Kept
  <1> QED
    BY <1>3, <1>4, TowardEntryOrder

\* A stop that was capped leaves the tick the sizer reserves for rounding, unless the
\* minimum distance takes it.
LEMMA CappedReserve ==
  ASSUME NEW ceiling \in Int, NEW atr \in Nat, NEW swing \in Nat,
         NEW tick \in Nat \ {0}, NEW residue \in Int,
         ResolveStop(ceiling, atr, swing, tick, residue).capped,
         ceiling - tick >= MinDistance
  PROVE  StopDistance(ceiling, atr, swing, tick, residue) <= ceiling - tick
  <1> DEFINE wanted == LargerOf(Candidate(atr, swing), MinDistance)
             limit == SmallerOf(ceiling, MaxDistance)
             kept == LargerOf(MinDistance, limit - tick)
  <1>1. wanted > limit
    BY DEF ResolveStop
  <1>2. StopDistance(ceiling, atr, swing, tick, residue) = TowardEntry(kept, residue, tick)
    BY <1>1 DEF StopDistance
  <1>3. kept \in Int /\ kept <= ceiling - tick
    BY StopType DEF LargerOf, SmallerOf
  <1> HIDE DEF kept
  <1>4. TowardEntry(kept, residue, tick) \in Int /\ TowardEntry(kept, residue, tick) <= kept
    BY <1>3, TowardEntryBound
  <1> QED
    BY <1>2, <1>3, <1>4

(***************************************************************************)
(* The loop over tiers.                                                    *)
(***************************************************************************)

\* The tier of every round is one of the ladder's.
LEMMA NextTierType ==
  ASSUME NEW rungs \in Ladders, NEW c, NEW setup, NEW capital, NEW t \in DOMAIN rungs
  PROVE  NextTier(capital, rungs, t, c, setup) \in DOMAIN rungs
  BY SelectedTier DEF NextTier

\* A notional over a shorter stop is no smaller.
LEMMA ShorterStopLargerNotional ==
  ASSUME NEW budget \in Int, NEW near \in Nat \ {0}, NEW far \in Nat \ {0}, near <= far,
         NEW limit \in Nat, budget <= limit * (Scale * near)
  PROVE  budget <= limit * (Scale * far)
  <1> DEFINE unit == limit * Scale
  <1>1. unit \in Nat
    BY RatesType
  <1>2. limit * (Scale * near) = near * unit /\ limit * (Scale * far) = far * unit
    BY RatesType, Z3T(60)
  <1> HIDE DEF unit
  <1>3. near * unit <= far * unit
    BY <1>1, ProductMonotonic
  <1>4. near * unit \in Int /\ far * unit \in Int
    BY <1>1
  <1> QED
    BY <1>2, <1>3, <1>4

\* A round that went up is never followed by one that goes down: a higher tier has a lower
\* ceiling, so its stop is no wider and its notional no smaller.
LEMMA RoundsRise ==
  ASSUME NEW rungs \in Ladders, Climbs(rungs), NEW c \in Contracts, NEW setup \in Setups,
         NEW capital \in Int, NEW t \in DOMAIN rungs,
         t <= NextTier(capital, rungs, t, c, setup)
  PROVE  LET u == NextTier(capital, rungs, t, c, setup)
         IN u <= NextTier(capital, rungs, u, c, setup)
  <1> DEFINE u == NextTier(capital, rungs, t, c, setup)
             wide == StopAt(rungs, t, c, setup)
             tight == StopAt(rungs, u, c, setup)
  <1>1. u \in DOMAIN rungs /\ u \in Int /\ t \in Int
    BY NextTierType, LadderType
  <1>2. CASE ~tight.ok
    <2>1. NextTier(capital, rungs, u, c, setup) = u
      BY <1>2 DEF NextTier
    <2> QED
      BY <1>1, <2>1
  <1>3. CASE ~wide.ok
    <2>1. u = t
      BY <1>3 DEF NextTier
    <2> QED
      BY <2>1
  <1>4. CASE wide.ok /\ tight.ok
    <2> DEFINE residue == setup.residue % c.tick
               high == Ceiling(rungs[t].rate)
               low == Ceiling(rungs[u].rate)
    <2>1. /\ setup.atr \in Nat /\ setup.swing \in Nat
          /\ c.tick \in Nat \ {0} /\ residue \in Int
      BY SetupType, ContractType, RemainderType
    <2>2. /\ rungs[t].rate \in Int /\ rungs[u].rate \in Int
          /\ rungs[t].rate <= rungs[u].rate
      BY <1>1, LadderType DEF Climbs
    <2>3. high \in Int /\ low \in Int /\ low <= high
      BY <2>2, RatesType, QuotientType, LiquidationType DEF Ceiling, LiquidationDistance
    <2>4. /\ wide = ResolveStop(high, setup.atr, setup.swing, c.tick, residue)
          /\ tight = ResolveStop(low, setup.atr, setup.swing, c.tick, residue)
      BY DEF StopAt
    <2> HIDE DEF residue, high, low, wide, tight
    <2>5. /\ wide.distance = StopDistance(high, setup.atr, setup.swing, c.tick, residue)
          /\ tight.distance = StopDistance(low, setup.atr, setup.swing, c.tick, residue)
      BY <2>4 DEF ResolveStop
    <2>6. tight.distance <= wide.distance
      BY <1>4, <2>1, <2>3, <2>4, <2>5, StopOrder
    <2>7. wide.distance \in Nat \ {0} /\ tight.distance \in Nat \ {0}
      BY <1>4, <2>1, <2>3, <2>4, StopBound
    <2> DEFINE budget == capital * RiskPerTrade
               per == Scale * wide.distance
               unit == Scale * tight.distance
    <2>8. budget \in Int /\ per \in Nat /\ unit \in Nat
      BY <2>7, RatesType, ProductPositive
    <2>9. \A limit \in Nat : budget <= limit * unit => budget <= limit * per
      BY <2>6, <2>7, <2>8, ShorterStopLargerNotional
    <2>10. /\ u = SelectTier(rungs, budget, per)
           /\ NextTier(capital, rungs, u, c, setup) = SelectTier(rungs, budget, unit)
      BY <1>4 DEF NextTier, wide, tight
    <2> HIDE DEF budget, per, unit
    <2> QED
      BY <2>8, <2>9, <2>10, SelectedRises
  <1> QED
    BY <1>2, <1>3, <1>4

\* The rounds of the loop, from the lowest tier, are a function of their number.
LEMMA RoundsExist ==
  ASSUME NEW rungs \in Ladders, NEW c, NEW setup, NEW capital, NEW m \in Nat
  PROVE  \E f : f = [n \in 0..m |->
                        IF n = 0 THEN LowestTier(rungs)
                        ELSE NextTier(capital, rungs, f[n - 1], c, setup)]
  <1> DEFINE Rounds(f, k) == f = [n \in 0..k |->
                                    IF n = 0 THEN LowestTier(rungs)
                                    ELSE NextTier(capital, rungs, f[n - 1], c, setup)]
             bad == {k \in Nat : ~ \E f : Rounds(f, k)}
  <1> SUFFICES ASSUME bad # {} PROVE FALSE
    OBVIOUS
  <1>1. PICK k \in bad : \A j \in bad : k <= j
    <2>1. bad \in SUBSET Nat
      OBVIOUS
    <2> HIDE DEF bad
    <2> QED
      BY <2>1, LeastNatural
  <1>2. k \in Nat /\ ~ \E f : Rounds(f, k)
    OBVIOUS
  <1>3. CASE k = 0
    <2> DEFINE g == [n \in 0..0 |-> LowestTier(rungs)]
    <2>1. Rounds(g, 0)
      OBVIOUS
    <2> QED
      BY <1>2, <1>3, <2>1
  <1>4. CASE k > 0
    <2>1. k - 1 \in Nat /\ k - 1 \notin bad
      <3>1. k - 1 \in Nat /\ ~(k <= k - 1)
        BY <1>2, <1>4
      <3> HIDE DEF bad
      <3> QED
        BY <1>1, <3>1
    <2>2. PICK f : Rounds(f, k - 1)
      BY <2>1
    <2> DEFINE g == [n \in 0..k |-> IF n < k THEN f[n]
                                    ELSE NextTier(capital, rungs, f[k - 1], c, setup)]
    <2>3. ASSUME NEW n \in 0..k
          PROVE  g[n] = IF n = 0 THEN LowestTier(rungs)
                        ELSE NextTier(capital, rungs, g[n - 1], c, setup)
      <3>1. CASE n = 0
        <4>1. g[0] = f[0]
          BY <1>2, <1>4
        <4>2. f[0] = LowestTier(rungs)
          BY <2>1, <2>2
        <4> QED
          BY <3>1, <4>1, <4>2
      <3>2. CASE n # 0 /\ n < k
        <4>1. g[n] = f[n] /\ g[n - 1] = f[n - 1]
          BY <1>2, <3>2
        <4>2. f[n] = NextTier(capital, rungs, f[n - 1], c, setup)
          <5>1. n \in 0..(k - 1)
            BY <1>2, <3>2
          <5> HIDE DEF g
          <5> QED
            BY <2>2, <3>2, <5>1
        <4> QED
          BY <3>2, <4>1, <4>2
      <3>3. CASE n # 0 /\ n = k
        <4>1. g[n] = NextTier(capital, rungs, f[k - 1], c, setup) /\ g[k - 1] = f[k - 1]
          BY <1>2, <3>3
        <4> QED
          BY <3>3, <4>1
      <3> QED
        BY <1>2, <3>1, <3>2, <3>3
    <2>4. g = [n \in 0..k |-> g[n]]
      OBVIOUS
    <2> HIDE DEF g
    <2>5. Rounds(g, k)
      BY <2>3, <2>4
    <2> QED
      BY <1>2, <2>5
  <1> QED
    BY <1>2, <1>3, <1>4

\* The tier the loop ends on is that of its last round.
LEMMA SettledByRounds ==
  ASSUME NEW rungs \in Ladders, NEW c, NEW setup, NEW capital
  PROVE  \E f :
            /\ f[0] = LowestTier(rungs)
            /\ \A n \in 0..(Len(rungs) - 1) :
                  f[n + 1] = NextTier(capital, rungs, f[n], c, setup)
            /\ SettledTier(capital, rungs, c, setup) = f[Len(rungs)]
  <1> DEFINE Rounds(f) == f = [n \in 0..Len(rungs) |->
                                 IF n = 0 THEN LowestTier(rungs)
                                 ELSE NextTier(capital, rungs, f[n - 1], c, setup)]
             visited == CHOOSE f : Rounds(f)
  <1>1. Len(rungs) \in Nat \ {0}
    BY LadderType
  <1>2. Rounds(visited)
    <2>1. \E f : Rounds(f)
      BY <1>1, RoundsExist
    <2> HIDE DEF Rounds
    <2> QED
      BY <2>1
  <1>3. SettledTier(capital, rungs, c, setup) = visited[Len(rungs)]
    BY DEF SettledTier
  <1> HIDE DEF visited
  <1>4. visited[0] = LowestTier(rungs)
    <2>1. 0 \in 0..Len(rungs)
      BY <1>1
    <2> QED
      BY <1>2, <2>1
  <1>5. ASSUME NEW n \in 0..(Len(rungs) - 1)
        PROVE  visited[n + 1] = NextTier(capital, rungs, visited[n], c, setup)
    <2>1. n + 1 \in 0..Len(rungs) /\ n + 1 # 0 /\ (n + 1) - 1 = n
      BY <1>1
    <2> QED
      BY <1>2, <2>1
  <1> QED
    BY <1>3, <1>4, <1>5

\* On a ladder that climbs a round either moves up a tier or the loop has settled, so after
\* as many rounds as there are tiers it has.
LEMMA LoopSettles ==
  ASSUME NEW rungs \in Ladders, Climbs(rungs), NEW c \in Contracts, NEW setup \in Setups,
         NEW capital \in Int
  PROVE  Settles(capital, rungs, c, setup)
  <1> DEFINE Following(t) == NextTier(capital, rungs, t, c, setup)
             rounds == Len(rungs)
  <1>1. rounds \in Nat \ {0} /\ DOMAIN rungs = 1..rounds
    BY LadderType
  <1>2. PICK f : /\ f[0] = LowestTier(rungs)
                 /\ \A n \in 0..(rounds - 1) : f[n + 1] = Following(f[n])
                 /\ SettledTier(capital, rungs, c, setup) = f[rounds]
    BY SettledByRounds
  <1>3. \A t \in DOMAIN rungs : Following(t) \in DOMAIN rungs
    BY NextTierType
  <1>4. \A t \in DOMAIN rungs : t <= Following(t) => Following(t) <= Following(Following(t))
    BY RoundsRise
  <1>5. f[0] \in DOMAIN rungs /\ f[0] <= Following(f[0])
    BY <1>2, <1>3, LowestIsFirst
  <1>6. Settles(capital, rungs, c, setup) <=> Following(f[rounds]) = f[rounds]
    BY <1>2 DEF Settles
  <1> DEFINE Rising(n) == /\ f[n] \in DOMAIN rungs
                          /\ f[n] <= Following(f[n])
                          /\ Following(f[n]) = f[n] \/ n + 1 <= f[n]
             bad == {n \in 0..rounds : ~Rising(n)}
  <1> HIDE DEF Following, rounds
  <1>7. bad = {}
    <2> SUFFICES ASSUME bad # {} PROVE FALSE
      OBVIOUS
    <2>1. PICK n \in bad : \A m \in bad : n <= m
      <3>1. bad \in SUBSET Nat
        BY <1>1
      <3> HIDE DEF bad
      <3> QED
        BY <3>1, LeastNatural
    <2>2. n \in 0..rounds /\ ~Rising(n)
      OBVIOUS
    <2>3. n # 0
      BY <1>1, <1>5, <2>2
    <2>4. Rising(n - 1)
      <3>1. n - 1 \in 0..rounds /\ ~(n <= n - 1)
        BY <1>1, <2>2, <2>3
      <3> HIDE DEF Rising
      <3>2. n - 1 \notin bad
        <4> HIDE DEF bad
        <4> QED
          BY <2>1, <3>1
      <3> QED
        BY <3>1, <3>2
    <2>5. f[n] = Following(f[n - 1])
      <3>1. n - 1 \in 0..(rounds - 1) /\ (n - 1) + 1 = n
        BY <1>1, <2>2, <2>3
      <3> HIDE DEF bad, Rising
      <3> QED
        BY <1>2, <3>1
    <2>6. /\ f[n - 1] \in DOMAIN rungs /\ f[n] \in DOMAIN rungs
          /\ f[n - 1] <= f[n] /\ f[n] <= Following(f[n])
      BY <1>3, <1>4, <2>4, <2>5
    <2>7. CASE f[n] = f[n - 1]
      <3>1. Following(f[n]) = f[n]
        BY <2>5, <2>7
      <3> QED
        BY <2>2, <2>6, <3>1
    <2>8. CASE f[n] # f[n - 1]
      <3>1. Following(f[n - 1]) # f[n - 1]
        BY <2>5, <2>8
      <3>2. (n - 1) + 1 <= f[n - 1]
        BY <2>4, <3>1
      <3>3. n + 1 <= f[n]
        BY <1>1, <2>2, <2>6, <2>8, <3>2
      <3> QED
        BY <2>2, <2>6, <3>3
    <2> QED
      BY <2>7, <2>8
  <1>8. Rising(rounds)
    BY <1>1, <1>7
  <1>9. ~(rounds + 1 <= f[rounds])
    BY <1>1, <1>8
  <1> QED
    BY <1>6, <1>8, <1>9

\* A decision about market data that pass the snapshot check never ends unsettled.
THEOREM SizingsSettle == Spec => []SizingSettles
  <1>1. Init => SizingSettles
    BY DEF Init, SizingSettles
  <1>2. ASSUME Inv, SizingSettles, [Next]_vars PROVE SizingSettles'
    <2>1. CASE Decide
      <3>1. UNCHANGED market
        BY <2>1 DEF Decide, NextBar
      <3> SUFFICES ASSUME answer' = "unsettled", SnapshotValid(ladder, 0) PROVE FALSE
        BY <3>1 DEF SizingSettles, market
      <3>2. PICK setup \in Setups : ~Settles(equity, ladder, contract, setup)
        BY <2>1 DEF Decide
      <3>3. ladder \in Ladders /\ contract \in Contracts /\ equity \in Int
        BY <1>2 DEF Inv, TypeOK
      <3>4. Climbs(ladder)
        BY <3>3, SnapshotClimbs
      <3> QED
        BY <3>2, <3>3, <3>4, LoopSettles
    <2>2. CASE StandAside
      BY <2>2 DEF StandAside, SizingSettles
    <2>3. CASE UNCHANGED <<market, answer>>
      BY <1>2, <2>3 DEF SizingSettles, market
    <2> QED
      BY <1>2, <2>1, <2>2, <2>3 DEF Next, CloseOnBar, HoldThroughBar, FillPending,
         WaitForFill, ExpirePending, Finish, vars, market
  <1> QED
    BY <1>1, <1>2, Invariance, PTL DEF Spec

(***************************************************************************)
(* The guard and a capped stop.                                            *)
(***************************************************************************)

\* A lower tier allows no less leverage.
LEMMA LeverageFalls ==
  ASSUME NEW rungs \in Ladders, SnapshotValid(rungs, 0),
         NEW i \in DOMAIN rungs, NEW j \in DOMAIN rungs, i <= j
  PROVE  /\ rungs[i].leverageMax \in Nat /\ rungs[j].leverageMax \in Nat
         /\ rungs[i].leverageMax >= rungs[j].leverageMax
  <1> DEFINE bad == {k \in i..Len(rungs) : ~(rungs[i].leverageMax >= rungs[k].leverageMax)}
  <1>1. Len(rungs) \in Nat \ {0} /\ DOMAIN rungs = 1..Len(rungs)
    BY LadderType
  <1>2. \A k \in 1..Len(rungs) : rungs[k].leverageMax \in Nat
    <2>1. rungs \in Seq(Tier)
      BY BacktestAssumption
    <2>2. \A k \in 1..Len(rungs) : rungs[k] \in Tier
      BY <1>1, <2>1
    <2> QED
      BY <2>2 DEF Tier
  <1>3. \A k \in 1..(Len(rungs) - 1) : rungs[k].leverageMax >= rungs[k + 1].leverageMax
    BY DEF SnapshotValid
  <1>4. bad = {}
    <2> SUFFICES ASSUME bad # {} PROVE FALSE
      OBVIOUS
    <2>1. PICK k \in bad : \A m \in bad : k <= m
      <3>1. bad \in SUBSET Nat
        BY <1>1
      <3> HIDE DEF bad
      <3> QED
        BY <3>1, LeastNatural
    <2>2. k \in i..Len(rungs) /\ ~(rungs[i].leverageMax >= rungs[k].leverageMax)
      OBVIOUS
    <2>3. k # i
      BY <1>1, <1>2, <2>2
    <2>4. k - 1 \in i..Len(rungs) /\ k - 1 \in 1..(Len(rungs) - 1) /\ ~(k <= k - 1)
      BY <1>1, <2>2, <2>3
    <2>5. rungs[i].leverageMax >= rungs[k - 1].leverageMax
      <3>1. k - 1 \notin bad
        <4> HIDE DEF bad
        <4> QED
          BY <2>1, <2>4
      <3> QED
        BY <2>4, <3>1
    <2>6. rungs[k - 1].leverageMax >= rungs[k].leverageMax
      <3>1. (k - 1) + 1 = k
        BY <2>4
      <3> QED
        BY <1>3, <2>4, <3>1
    <2> QED
      BY <1>1, <1>2, <2>2, <2>4, <2>5, <2>6
  <1> QED
    BY <1>1, <1>2, <1>4

\* The tier of the position's notional is no higher than that of the notional it was sized
\* for, before flooring.
LEMMA ActualTierNoHigher ==
  ASSUME NEW rungs \in Ladders, Climbs(rungs), NEW notional \in Int,
         NEW amount \in Int, NEW per \in Nat \ {0}, notional * per <= amount
  PROVE  SelectTier(rungs, notional, 1) <= SelectTier(rungs, amount, per)
  <1>1. ASSUME NEW limit \in Nat, amount <= limit * per PROVE notional <= limit * 1
    <2> SUFFICES ASSUME limit + 1 <= notional PROVE FALSE
      OBVIOUS
    <2>1. (limit + 1) * per <= notional * per
      BY ProductMonotonic
    <2>2. (limit + 1) * per = limit * per + per /\ limit * per \in Int
      OBVIOUS
    <2>3. notional * per \in Int
      OBVIOUS
    <2> QED
      BY <1>1, <2>1, <2>2, <2>3
  <1> QED
    BY <1>1, SelectedRises

\* Rounding on the mark grid takes less than what a capped stop holds in reserve.
LEMMA BufferSurvivesRounding ==
  ASSUME NEW c \in Contracts, c.markTick <= c.tick, NEW residue \in Nat,
         NEW stop \in Nat \ {0}, NEW liq \in Int,
         stop <= (liq - LiquidationBuffer) - c.tick
  PROVE  BufferHolds(liq, stop, residue, c)
  <1> DEFINE price == LiquidationPrice(liq, residue, c)
  <1>1. c.markTick \in Nat \ {0} /\ c.tick \in Nat \ {0}
    BY BacktestAssumption DEF Contract
  <1>2. residue % c.markTick \in Int
    BY <1>1, RemainderType
  <1>3. price \in Int /\ price > liq - c.markTick
    <2>1. price = TowardEntry(liq, residue % c.markTick, c.markTick)
      BY DEF LiquidationPrice
    <2> DEFINE place == residue % c.markTick
               tick == c.markTick
    <2>2. place \in Int /\ tick \in Nat \ {0} /\ liq <= liq
      BY <1>1, <1>2
    <2> HIDE DEF place, tick, price
    <2>3. /\ TowardEntry(liq, place, tick) \in Int
          /\ TowardEntry(liq, place, tick) > liq - tick
      BY <2>2, TowardEntryOrder, TowardEntryBound
    <2> QED
      BY <2>1, <2>3 DEF place, tick
  <1> HIDE DEF price
  <1>4. /\ liq > 0 /\ liq - stop >= LiquidationBuffer
        /\ price - stop >= LiquidationBuffer
    BY <1>1, <1>3, RatesType
  <1> QED
    BY <1>4 DEF BufferHolds, price

\* No size passes the top tier's limit.
LEMMA SizeWithinTop ==
  ASSUME NEW capital \in Int, NEW distance, NEW c \in Contracts, NEW top \in Nat,
         Size(capital, distance, c, top) \in Nat
  PROVE  Size(capital, distance, c, top) * c.value <= top
  <1> DEFINE size == Size(capital, distance, c, top)
             most == top \div c.value
  <1>1. c.value \in Nat \ {0}
    BY ContractType
  <1>2. most \in Nat /\ most * c.value <= top
    BY <1>1, FloorBound
  <1>3. size <= most
    <2> DEFINE wanted == (capital * RiskPerTrade) \div (Scale * c.value * distance)
               cut == IF c.max > 0 THEN SmallerOf(wanted, c.max) ELSE wanted
    <2>1. size = SmallerOf(cut, most)
      BY DEF Size
    <2> HIDE DEF cut, most, size
    <2>2. size \in Int
      BY DEF size
    <2> QED
      BY <1>2, <2>1, <2>2 DEF SmallerOf
  <1> HIDE DEF most, size
  <1>4. size * c.value <= most * c.value
    BY <1>1, <1>2, <1>3, ProductMonotonic DEF size
  <1>5. size * c.value \in Int /\ most * c.value \in Int
    BY <1>1, <1>2 DEF size
  <1> QED
    BY <1>2, <1>4, <1>5 DEF size

\* What the sizer plans with a capped stop that kept its tick of reserve, the guard accepts,
\* on a ladder and a contract it can judge by.
LEMMA CappedAssessed ==
  ASSUME ladder \in Ladders, contract \in Contracts, NEW capital \in Int, NEW free,
         NEW setup \in Setups, NEW plan,
         plan = PlanPosition(capital, free, ladder, contract, setup),
         plan.ok, plan.capped,
         SnapshotValid(ladder, 0), contract.markTick <= contract.tick,
         Ceiling(ladder[plan.tier].rate) - contract.tick >= MinDistance
  PROVE  AssessPlan(plan, ladder, 0, contract)
  <1> DEFINE t == SettledTier(capital, ladder, contract, setup)
             stop == StopAt(ladder, t, contract, setup)
             size == Size(capital, stop.distance, contract, TopLimit(ladder))
             notional == plan.size * contract.value
             actual == ActualTier(ladder, plan.size, contract)
  <1>1. /\ NextTier(capital, ladder, t, contract, setup) = t
        /\ stop.ok
        /\ Leverage <= ladder[t].leverageMax
        /\ plan.size = size /\ plan.stop = stop.distance /\ plan.capped = stop.capped
        /\ plan.tier = t /\ plan.residue = setup.residue /\ plan.equity = capital
    BY DEF PlanPosition, NoPlan, Settles
  <1>2. Affordable(plan)
    BY PlanSound
  <1>3. /\ plan.size \in Nat \ {0} /\ plan.stop \in Nat \ {0} /\ plan.residue \in Nat
        /\ t \in DOMAIN ladder
    BY <1>1, <1>2 DEF Affordable, Plan
  <1>4. Climbs(ladder)
    BY SnapshotClimbs
  <1>5. /\ contract.tick \in Nat \ {0} /\ contract.value \in Nat \ {0}
        /\ \A i \in DOMAIN ladder : ladder[i].rate \in Int
        /\ LiquidationDistance(ladder[t].rate) \in Int /\ Ceiling(ladder[t].rate) \in Int
    <2>1. \A i \in DOMAIN ladder : ladder[i].rate \in Int
      BY LadderType
    <2>2. ladder[t].rate \in Int
      BY <1>3, <2>1
    <2> HIDE DEF t
    <2> QED
      BY <2>1, <2>2, ContractType, LiquidationType
  <1>6. plan.stop <= Ceiling(ladder[t].rate) - contract.tick
    <2> DEFINE residue == setup.residue % contract.tick
               ceiling == Ceiling(ladder[t].rate)
    <2>1. setup.atr \in Nat /\ setup.swing \in Nat /\ residue \in Int
      BY <1>5, SetupType, RemainderType
    <2>2. stop = ResolveStop(ceiling, setup.atr, setup.swing, contract.tick, residue)
      BY DEF StopAt
    <2>3. stop.capped /\ ceiling - contract.tick >= MinDistance
      BY <1>1
    <2>4. ceiling \in Int
      BY <1>5
    <2> HIDE DEF residue, ceiling, stop
    <2>5. StopDistance(ceiling, setup.atr, setup.swing, contract.tick, residue)
            <= ceiling - contract.tick
      BY <1>5, <2>1, <2>2, <2>3, <2>4, CappedReserve
    <2>6. stop.distance
            = StopDistance(ceiling, setup.atr, setup.swing, contract.tick, residue)
      BY <2>2 DEF ResolveStop
    <2> QED
      BY <1>1, <2>5, <2>6 DEF ceiling
  <1>7. actual <= t /\ actual \in DOMAIN ladder
    <2> DEFINE amount == capital * RiskPerTrade
               per == Scale * stop.distance
    <2>1. amount \in Int /\ per \in Nat \ {0}
      BY <1>1, <1>3, RatesType, ProductPositive
    <2>2. notional \in Int
      BY <1>3, <1>5
    <2>3. notional * per <= amount
      <3>1. Value(plan.size) * plan.stop * Scale <= plan.equity * RiskPerTrade
        BY <1>2 DEF Affordable
      <3>2. Value(plan.size) * plan.stop * Scale = notional * per
        <4>1. Value(plan.size) = notional /\ per = Scale * plan.stop
          BY <1>1 DEF Value
        <4> HIDE DEF notional, per
        <4> QED
          BY <1>3, <2>2, <4>1, RatesType, Z3T(60)
      <3> QED
        BY <1>1, <3>1, <3>2
    <2>4. t = SelectTier(ladder, amount, per)
      BY <1>1 DEF NextTier
    <2>5. actual = SelectTier(ladder, notional, 1)
      BY DEF ActualTier
    <2> HIDE DEF amount, per, notional, actual, t
    <2>6. actual <= t
      BY <1>4, <2>1, <2>2, <2>3, <2>4, <2>5, ActualTierNoHigher
    <2> QED
      BY <2>5, <2>6, SelectedTier
  <1> HIDE DEF t, stop, size, actual
  <1>8. ladder[actual].rate <= ladder[t].rate
    <2>1. actual \in Int /\ t \in Int /\ actual \in DOMAIN ladder /\ t \in DOMAIN ladder
      BY <1>3, <1>7, LadderType
    <2>2. actual < t => ladder[actual].rate <= ladder[t].rate
      BY <1>4, <2>1 DEF Climbs
    <2>3. actual = t => ladder[actual].rate <= ladder[t].rate
      BY <1>5, <2>1
    <2> QED
      BY <1>7, <2>1, <2>2, <2>3
  <1>9. Leverage <= ladder[actual].leverageMax
    BY <1>1, <1>3, <1>7, LeverageFalls, RatesType
  <1>10. notional > 0 /\ notional <= TopLimit(ladder)
    <2>1. notional > 0
      BY <1>3, <1>5, ProductPositive
    <2>2. size * contract.value <= TopLimit(ladder)
      BY <1>1, <1>3, TopLimitType, SizeWithinTop DEF size
    <2> QED
      BY <1>1, <2>1, <2>2
  <1>11. BufferHolds(LiquidationDistance(ladder[actual].rate), plan.stop, plan.residue, contract)
    <2> DEFINE liq == LiquidationDistance(ladder[actual].rate)
    <2>1. liq \in Int /\ LiquidationDistance(ladder[t].rate) <= liq
      BY <1>3, <1>5, <1>7, <1>8, RatesType, QuotientType, LiquidationType
      DEF LiquidationDistance
    <2>2. Ceiling(ladder[t].rate) = LiquidationDistance(ladder[t].rate) - LiquidationBuffer
      BY DEF Ceiling
    <2> HIDE DEF liq
    <2>3. plan.stop <= (liq - LiquidationBuffer) - contract.tick
      BY <1>3, <1>5, <1>6, <2>1, <2>2, RatesType
    <2> QED
      BY <1>3, <2>1, <2>3, BufferSurvivesRounding DEF liq
  <1>12. Leverage <= MaxLeverage
    BY GuardAssumption
  <1> QED
    BY <1>3, <1>9, <1>10, <1>11, <1>12 DEF AssessPlan, Assess, actual

\* The sizer caps a stop so that the guard will not turn it down over the buffer: it never
\* does, for every ladder it can judge by and wherever the tick of reserve was left.
THEOREM CappedStopsPass == Spec => []CappedStopPasses
  <1>1. Init => CappedStopPasses
    BY DEF Init, CappedStopPasses
  <1>2. ASSUME Inv, CappedStopPasses, [Next]_vars PROVE CappedStopPasses'
    <2>1. CASE Decide
      <3>1. UNCHANGED market
        BY <2>1 DEF Decide, NextBar
      <3> SUFFICES ASSUME answer' = "vetoed", vetoed'.capped, SnapshotValid(ladder, 0),
                          ~(contract.markTick > contract.tick),
                          ~(Ceiling(ladder[vetoed'.tier].rate) - contract.tick < MinDistance)
                   PROVE  FALSE
        BY <3>1 DEF CappedStopPasses, market
      <3>2. PICK setup \in Setups :
               LET plan == PlanPosition(equity, equity, ladder, contract, setup)
               IN plan.ok /\ ~AssessPlan(plan, ladder, 0, contract) /\ vetoed' = plan
        BY <2>1 DEF Decide
      <3>3. ladder \in Ladders /\ contract \in Contracts /\ equity \in Int
        BY <1>2 DEF Inv, TypeOK
      <3>4. contract.markTick \in Int /\ contract.tick \in Int
        BY <3>3, BacktestAssumption DEF Contract
      <3>5. vetoed'.tier \in DOMAIN ladder
        BY <3>2, <3>3, PlanSound DEF Affordable
      <3>6. Ceiling(ladder[vetoed'.tier].rate) \in Int
        <4>1. ladder[vetoed'.tier].rate \in Int
          BY <3>3, <3>5, LadderType
        <4> QED
          BY <4>1, LiquidationType
      <3>7. /\ contract.markTick <= contract.tick
            /\ Ceiling(ladder[vetoed'.tier].rate) - contract.tick >= MinDistance
        BY <3>4, <3>6, StopType
      <3> QED
        BY <3>2, <3>3, <3>7, CappedAssessed
    <2>2. CASE StandAside
      BY <2>2 DEF StandAside, CappedStopPasses
    <2>3. CASE UNCHANGED <<market, answer, vetoed>>
      BY <1>2, <2>3 DEF CappedStopPasses, market
    <2> QED
      BY <1>2, <2>1, <2>2, <2>3 DEF Next, CloseOnBar, HoldThroughBar, FillPending,
         WaitForFill, ExpirePending, Finish, vars, market
  <1> QED
    BY <1>1, <1>2, Invariance, PTL DEF Spec
=================================================================================
