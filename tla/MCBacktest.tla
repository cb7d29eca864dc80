------------------------------- MODULE MCBacktest -------------------------------
(***************************************************************************)
(* A small instance of Backtest with the shipped rates in units of 0.025%: *)
(* 100x is 40, the buffer 12, the taker fee 3, the stop between 4 and 80.  *)
(* The maker rebate and the slippage are rounded to one unit.  Maintenance *)
(* rates of 12, 14 and 18 are BTC_USDT's first three tiers.                *)
(***************************************************************************)
EXTENDS Backtest

MCMakerFee == -1

Row(limit, rate, leverageMax) ==
    [limit |-> limit, rate |-> rate, leverageMax |-> leverageMax]

\* Three tiers close enough to be climbed; one whose second tier forbids 100x; and a
\* corrupt one whose rate falls.
MCLadders == {<<Row(1200, 12, 200), Row(1600, 14, 100), Row(4000, 18, 100)>>,
              <<Row(1250, 12, 200), Row(4000, 14, 50)>>,
              <<Row(1300, 14, 200), Row(4000, 12, 100)>>}

Spot(tick, markTick, value, min, max) ==
    [tick |-> tick, markTick |-> markTick, value |-> value, min |-> min, max |-> max]

\* A fine grid, a coarse order grid with a size limit, and a coarse mark grid.
MCContracts == {Spot(1, 1, 100, 1, 0), Spot(3, 2, 60, 1, 12), Spot(1, 3, 1200, 1, 0)}

MCSetups == [residue : {0, 2, 4}, atr : {0, 6, 40, 80}, swing : {0, 5, 13}]

\* Through liquidation, through the stop, at the entry, and up to the targets.
MCOffsets == {-45, -13, 0, 12, 25, 39}
================================================================================
