--------------------------------- MODULE Venue ---------------------------------
(***************************************************************************)
(* The exchange as the execution layer uses it: one contract, the entry    *)
(* order of each trade, the price-triggered orders resting against the     *)
(* position, and the countdown that cancels everything when nobody         *)
(* refreshes it.  Translated from SimulatedGateway (execution/             *)
(* order_manager.py), the repository's own statement of what Gate.io does; *)
(* what the simulator leaves out (partial fills, orders cancelled on       *)
(* arrival, an expiring countdown) comes from how its callers cope with it.*)
(*                                                                         *)
(* Prices are R multiples from the entry price of a trade: it fills at 0,  *)
(* a long has its stop at -1 and its targets at 1, 2 and 3, a short the    *)
(* mirror image.  Levels of two trades may meet at any distance.           *)
(***************************************************************************)
EXTENDS Integers, FiniteSets, FiniteSetsExt

CONSTANTS
    Size,      \* contracts of a planned entry
    MaxTrades  \* bound: entries submitted in a behaviour

ASSUME VenueAssumption == Size \in Nat \ {0} /\ MaxTrades \in Nat \ {0}

VARIABLES
    pos,       \* contracts held, signed
    orders,    \* per trade, its entry order
    triggers,  \* price-triggered orders resting on the exchange
    armed      \* is a countdown_cancel_all running?

venue == <<pos, orders, triggers, armed>>

Trades == 1..MaxTrades
Prices == -3..3

Sign(n) == IF n > 0 THEN 1 ELSE IF n < 0 THEN -1 ELSE 0
Abs(n) == IF n < 0 THEN -n ELSE n
Least(a, b) == IF a < b THEN a ELSE b

NoOrder == [status |-> "none", size |-> 0, left |-> 0]

\* left has the sign of size; a cancelled order keeps what was left of it.
EntryOrder == [status : {"none", "open", "filled", "cancelled"},
               size : -Size..Size, left : -Size..Size]

FilledOf(order) == order.size - order.left

\* Identified by the client id: which trade, which protect call, which level,
\* which attempt.
Trigger == [trade : Trades, call : Nat, name : {"stop", "tp1", "tp2", "tp3"}, try : Nat,
            size : -Size..Size, at : Prices, rule : {"above", "below"}]

VenueTypeOK ==
    /\ pos \in Int
    /\ orders \in [Trades -> EntryOrder]
    /\ triggers \subseteq Trigger
    /\ armed \in BOOLEAN

VenueInit ==
    /\ pos = 0
    /\ orders = [n \in Trades |-> NoOrder]
    /\ triggers = {}
    /\ armed = FALSE

--------------------------------------------------------------------------------
(* What calls do to the exchange. *)

\* A post-only order rests, or is cancelled on arrival because it would cross.
Accept(n, size) ==
    \E status \in {"open", "cancelled"} :
        orders' = [orders EXCEPT ![n] = [status |-> status, size |-> size, left |-> size]]

Cancelled(order) == IF order.status = "open" THEN [order EXCEPT !.status = "cancelled"] ELSE order

Withdraw(n) == orders' = [orders EXCEPT ![n] = Cancelled(@)]

--------------------------------------------------------------------------------
(* What the exchange does by itself. *)

\* The market trades through a resting entry and takes some of it.
Fill(n) ==
    /\ orders[n].status = "open"
    /\ \E k \in 1..Abs(orders[n].left) :
          LET taken == k * Sign(orders[n].left)
              left == orders[n].left - taken
          IN /\ orders' = [orders EXCEPT ![n].left = left,
                                         ![n].status = IF left = 0 THEN "filled" ELSE @]
             /\ pos' = pos + taken
    /\ UNCHANGED <<triggers, armed>>

Crossed(t, price) == IF t.rule = "above" THEN price >= t.at ELSE price <= t.at

\* Reduce-only orders are clamped one by one, so together they take the position
\* towards zero and never past it.
ClampReduceOnly(held, fired) ==
    LET reducing == {t \in fired : Sign(t.size) = -Sign(held)}
        taken == MapThenSumSet(LAMBDA t : Abs(t.size), reducing)
    IN held - Sign(held) * Least(Abs(held), taken)

\* The mark moves, and every trigger on the wrong side of it fires: the triggers that may
\* fire together, the mark being at a price of its own for each trade with levels resting.
Firing ==
    {{t \in triggers : Crossed(t, price[t.trade])} :
        price \in [{t.trade : t \in triggers} -> Prices]} \ {{}}

Market(fired) ==
    /\ triggers' = triggers \ fired
    /\ pos' = ClampReduceOnly(pos, fired)
    /\ UNCHANGED <<orders, armed>>

\* Nobody refreshed the countdown in time: every resting order is cancelled.
CountdownExpires ==
    /\ armed
    /\ armed' = FALSE
    /\ orders' = [n \in Trades |-> Cancelled(orders[n])]
    /\ triggers' = {}
    /\ UNCHANGED pos
================================================================================
