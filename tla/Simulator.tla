-------------------------------- MODULE Simulator ------------------------------
(***************************************************************************)
(* SimulatedGateway (execution/order_manager.py) as the paper loop drives  *)
(* it: a market that moves only when the loop walks it, one price at a     *)
(* time.  An entry fills at its limit, a level at its trigger, a market    *)
(* close at the last price.  The countdown is recorded and never expires.  *)
(*                                                                         *)
(* cash and strayed are observers: what the fills of the trade in hand     *)
(* exchanged, and whether a level took part that was left by an earlier    *)
(* trade or faces the wrong way.                                           *)
(***************************************************************************)
EXTENDS Integers, FiniteSets, Folds

NoEntry == [status |-> "none", trade |-> 0, size |-> 0, limit |-> 0]

NewSimulator ==
    [pos |-> 0, order |-> NoEntry, levels |-> {}, last |-> 0, cash |-> 0, strayed |-> FALSE]

Magnitude(n) == IF n < 0 THEN -n ELSE n
Smaller(a, b) == IF a < b THEN a ELSE b

\* Mutant: a trigger larger than the position turns it around.
ReduceUnclamped(pos, size) == IF pos = 0 \/ (pos > 0) = (size > 0) THEN 0 ELSE size

\* What a reduce-only order of this size may do to the position.
ClampReduceOnly(pos, size) ==
    IF pos = 0 \/ (pos > 0) = (size > 0) THEN 0
    ELSE IF Magnitude(size) > Magnitude(pos) THEN -pos ELSE size

ApplyFill(sim, size, price) == [sim EXCEPT !.pos = @ + size, !.cash = @ - size * price]

PlaceOrder(sim, size, limit) ==
    [sim EXCEPT !.order = [status |-> "open", trade |-> @.trade + 1,
                           size |-> size, limit |-> limit],
                !.cash = 0, !.strayed = FALSE]

CancelOrder(sim) ==
    [sim EXCEPT !.order.status = IF @ = "open" THEN "cancelled" ELSE @]

CloseAtMarket(sim) == ApplyFill(sim, -sim.pos, sim.last)

\* A resting limit fills only when the market trades through it.
MaybeFill(sim) ==
    LET order == sim.order
    IN IF order.status = "open"
          /\ (IF order.size > 0 THEN sim.last <= order.limit ELSE sim.last >= order.limit)
       THEN ApplyFill([sim EXCEPT !.order.status = "filled"], order.size, order.limit)
       ELSE sim

Triggered(level, price) ==
    IF level.rule = "above" THEN price >= level.at ELSE price <= level.at

\* Protection places the stop, then the rungs.
Rank(name) ==
    CASE name = "stop" -> 0 [] name = "tp1" -> 1 [] name = "tp2" -> 2 [] name = "tp3" -> 3

\* Triggers are visited in the order they were placed.
Placed(level) == 4 * level.trade + Rank(level.name)
LastPlaced(levels) == CHOOSE l \in levels : \A k \in levels : Placed(k) <= Placed(l)

Fire(level, sim) ==
    LET taken == ClampReduceOnly(sim.pos, level.size)
    IN [ApplyFill(sim, taken, level.at) EXCEPT
          !.strayed = @ \/ (taken # 0 /\ level.trade # sim.order.trade)
                        \/ (sim.pos # 0 /\ (sim.pos > 0) = (level.size > 0))]

\* A trigger that is reached is gone, whether or not it had anything to reduce.
Advance(sim, price) ==
    LET filled == MaybeFill([sim EXCEPT !.last = price])
        fired == {l \in filled.levels : Triggered(l, price)}
    IN [MapThenFoldSet(Fire, filled, LAMBDA l : l, LastPlaced, fired)
          EXCEPT !.levels = @ \ fired]

Walk(sim, path) == Advance(Advance(Advance(sim, path[1]), path[2]), path[3])
================================================================================
