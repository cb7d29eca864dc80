------------------------------- MODULE PaperTrader -----------------------------
(***************************************************************************)
(* paper/loop.py: PaperTrader.step and run over the simulator and the      *)
(* session guard, replaying a recording bar by bar.  A step is one action, *)
(* except that an entry waits for the market: while it rests the recording *)
(* moves on, one bar per poll.                                             *)
(*                                                                         *)
(* Prices are ticks; Unit is what a tick is worth per contract, and fees   *)
(* are charged per contract.  Breakers, signal, sizing and liquidation     *)
(* guard are one choice: to enter or not.                                  *)
(*                                                                         *)
(* Faults a test injects into the simulator:                               *)
(*   "receipt"  a stop is accepted that never becomes a live trigger       *)
(*   "close"    a market close has no effect                               *)
(***************************************************************************)
EXTENDS Simulator, SessionGuard, Sequences

CONSTANTS
    Top,               \* bound: prices are 1..Top
    Size,              \* contracts of a planned entry
    StopTicks,         \* from the mark the plan was made at to its stop
    Tp1Pct, Tp2Pct,    \* tp1_close_pct and tp2_close_pct, in percent
    Unit, Maker, Taker,  \* worth of a tick, maker and taker fee, per contract
    BarMinutes,        \* entry timeframe
    LastBar,           \* bound: the recording's bars are 0..LastBar
    Polls,             \* entry_fill_timeout_seconds / poll_interval_seconds
    MaxTrades,         \* bound: entries attempted in a run
    Faults,
    NoPosition

ASSUME PaperAssumption ==
    /\ {Top, Size, StopTicks, BarMinutes, LastBar, Polls, MaxTrades, Unit} \subseteq Nat \ {0}
    /\ StopTicks > 1      \* the stop is beyond the entry, one tick better than the mark
    /\ Maker \in Int /\ Taker \in Nat
    /\ Tp1Pct \in 1..99 /\ Tp2Pct \in 1..99 /\ Tp1Pct + Tp2Pct < 100

LevelNames == {"stop", "tp1", "tp2", "tp3"}

Levels == [trade : 1..MaxTrades, name : LevelNames, size : (-Size..Size) \ {0}, at : Int,
           rule : {"above", "below"}]

Positions == [direction : {1, -1}, entry : Int, size : {Size}, stop : Int, remaining : 1..Size,
              fees : Int, realised : Int, protected : BOOLEAN, levels : SUBSET Levels]

ASSUME PositionAssumption == NoPosition \notin Positions

VARIABLES
    session,  \* the symbol's calendar and the minute the recording starts at
    pc,       \* "step", "resting" while an entry waits, "over"; the store has others
    bar,      \* the replay's cursor
    polls,    \* polls left before the entry times out
    desk,     \* the simulator, the tracked position and the report
    bare      \* observer: a step ended with exposure that no stop covers

paper == <<session, pc, bar, polls, desk, bare>>

Prices == 1..Top
Bars == {b \in [low : Prices, mark : Prices, high : Prices] :
            b.low <= b.mark /\ b.mark <= b.high}

NewDesk ==
    [sim |-> NewSimulator, position |-> NoPosition, equity |-> 0, filled |-> 0,
     flattened |-> 0, charged |-> 0, unprotected |-> FALSE, unconfirmed |-> FALSE,
     trades |-> <<>>, faithful |-> TRUE]

\* When the bar closed; a cursor past the end shows the last one.
Now == session.start + (Smaller(bar, LastBar) + 1) * BarMinutes
Ruling == SessionVerdict(session.calendar, Now)

--------------------------------------------------------------------------------
(* The report's books *)

\* Mutant: the maker rebate goes to the account and not to the trade.
OpenedUncharged(d, direction, entry) ==
    [d EXCEPT
        !.equity = @ - Maker * Size,
        !.filled = @ + 1,
        !.position = [direction |-> direction, entry |-> entry, size |-> Size,
                      stop |-> entry - direction * (StopTicks - 1), remaining |-> Size,
                      fees |-> 0, realised |-> 0, protected |-> FALSE, levels |-> {}]]

\* The entry filled: its fee hits the account at once and belongs to the trade.
Opened(d, direction, entry) ==
    [d EXCEPT
        !.equity = @ - Maker * Size,
        !.filled = @ + 1,
        !.position = [direction |-> direction, entry |-> entry, size |-> Size,
                      stop |-> entry - direction * (StopTicks - 1), remaining |-> Size,
                      fees |-> Maker * Size, realised |-> 0, protected |-> FALSE,
                      levels |-> {}]]

BookFill(d, price, contracts) ==
    LET pnl == d.position.direction * (price - d.position.entry) * contracts * Unit
        fee == Taker * contracts
    IN [d EXCEPT !.position.realised = @ + pnl, !.position.fees = @ + fee,
                 !.equity = @ + pnl - fee]

Risk(position) == (StopTicks - 1) * position.size * Unit

\* faithful is an observer: did the books agree with what the simulator exchanged?
CloseTrade(d) ==
    LET position == d.position
        net == position.realised - position.fees
    IN [d EXCEPT
          !.trades = Append(@, [net |-> net, risk |-> Risk(position),
                                gap |-> position.direction * (position.entry - position.stop)]),
          !.faithful = @ /\ (d.sim.strayed \/ position.realised = d.sim.cash * Unit),
          !.sim.cash = 0, !.sim.strayed = FALSE,
          !.position = NoPosition]

--------------------------------------------------------------------------------
(* Settlement: what did the protective orders do? *)

Fraction(name) == CASE name = "tp1" -> Tp1Pct [] name = "tp2" -> Tp2Pct [] OTHER -> 100

Chunk(position, name) == (position.size * Fraction(name)) \div 100

\* Nearest the entry first; the stop and the first rung tie, and the stop was
\* recorded first.
Nearer(position, a, b) ==
    LET away(l) == Magnitude(l.at - position.entry)
    IN away(a) < away(b) \/ (away(a) = away(b) /\ Rank(a.name) < Rank(b.name))

Farthest(position, levels) ==
    CHOOSE l \in levels : \A k \in levels : ~Nearer(position, l, k)

BookLevel(d, level, held) ==
    LET closed == d.position.remaining - held
        chunk == IF level.name \in {"stop", "tp3"} THEN closed
                 ELSE Smaller(closed, Chunk(d.position, level.name))
    IN IF closed <= 0 THEN d
       ELSE [BookFill(d, level.at, chunk) EXCEPT
               !.position.remaining = @ - chunk,
               !.position.levels = @ \ {level}]

BookUnknown(d, held) ==
    IF d.position.remaining > held
    THEN BookFill(d, d.sim.last, d.position.remaining - held)
    ELSE d

Settle(d) ==
    LET held == Magnitude(d.sim.pos)
        fired == d.position.levels \ d.sim.levels
        levels == MapThenFoldSet(LAMBDA l, e : BookLevel(e, l, held), d, LAMBDA l : l,
                                 LAMBDA some : Farthest(d.position, some), fired)
        all == BookUnknown(levels, held)
        booked == [d EXCEPT !.equity = all.equity,
                            !.position = [all.position EXCEPT !.remaining = held]]
    IN IF d.position = NoPosition \/ held = d.position.remaining THEN d
       ELSE IF held = 0 THEN CloseTrade(booked)
       ELSE booked

--------------------------------------------------------------------------------
(* Calls to the order manager and the protection engine *)

CloseCall(d, works) == IF works THEN [d EXCEPT !.sim = CloseAtMarket(@)] ELSE d

Works == IF "close" \in Faults THEN BOOLEAN ELSE {TRUE}

\* _flatten_for_session: close, read the size back, and only then book it.
Flatten(d, works, stage) ==
    LET closed == CloseCall(d, works)
        swept == [closed EXCEPT !.sim.levels = @ \ d.position.levels]
        booked == IF d.position.remaining = 0 THEN swept
                  ELSE BookFill(swept, d.sim.last, d.position.remaining)
    IN IF closed.sim.pos # 0 THEN [closed EXCEPT !.unconfirmed = TRUE]
       ELSE [CloseTrade(booked) EXCEPT !.flattened = IF stage = "protection" THEN @ + 1 ELSE @]

Level(d, name, contracts, at, rule) ==
    [trade |-> d.sim.order.trade, name |-> name, size |-> contracts, at |-> at, rule |-> rule]

\* The rungs are floors of a percentage, the runner the rest.
RungSize(name, held) ==
    LET floored(pct) == (held * pct) \div 100
    IN CASE name = "tp1" -> floored(Tp1Pct)
         [] name = "tp2" -> floored(Tp2Pct)
         [] name = "tp3" -> held - floored(Tp1Pct) - floored(Tp2Pct)

\* Mutant: a rung that rounds to nothing is placed all the same.
PlaceableAny(levels) == levels

\* A rung that rounds to nothing is left out.
Placeable(levels) == {l \in levels : l.size # 0}

\* The stop and the ladder protect() places for a signed size.
LevelsFor(d, size) ==
    LET direction == d.position.direction
        losing == IF direction > 0 THEN "below" ELSE "above"
        winning == IF direction > 0 THEN "above" ELSE "below"
        rung(name) ==
            Level(d, name, -direction * RungSize(name, Magnitude(size)),
                  d.position.entry + direction * Rank(name) * (StopTicks - 1), winning)
    IN {Level(d, "stop", -size, d.position.stop, losing)}
       \cup Placeable({rung("tp1"), rung("tp2"), rung("tp3")})

Protected(d, size) ==
    [d EXCEPT !.sim.levels = @ \cup LevelsFor(d, size),
              !.position.levels = LevelsFor(d, size),
              !.position.protected = TRUE]

--------------------------------------------------------------------------------
(* step *)

Covered(d) ==
    \/ d.sim.pos = 0
    \/ \E l \in d.sim.levels :
          /\ l.name = "stop" /\ l.trade = d.sim.order.trade
          /\ ClampReduceOnly(d.sim.pos, l.size) = -d.sim.pos

\* Mutant: always the low first, whichever way the position faces.
PathLowFirst(b, d) == <<b.low, b.high, b.mark>>

\* The adverse extreme first.
Path(b, d) ==
    IF d.position # NoPosition /\ d.position.direction < 0
    THEN <<b.high, b.low, b.mark>>
    ELSE <<b.low, b.high, b.mark>>

Seen(b) == Settle([desk EXCEPT !.sim = Walk(@, Path(b, desk)), !.unconfirmed = FALSE])

\* run(): on to the next bar, until the recording is exhausted.
StepEnds(d) ==
    /\ desk' = d
    /\ bare' = (bare \/ ~Covered(d))
    /\ bar' = bar + 1
    /\ pc' = IF bar < LastBar THEN "step" ELSE "over"
    /\ polls' = 0
    /\ UNCHANGED session

\* Mutant: a venue that has closed is left for when it opens again.
KeepTryingWhileOpen == Ruling.flat

MustFlatten == Ruling.flat \/ Ruling.stage = "closed"

\* A position is tracked: flatten it before the close and while the venue is
\* closed, restore its stop, or hold it.
HoldPosition ==
    /\ pc = "step"
    /\ ~MustFlatten
    /\ \E b \in Bars :
          LET d == Seen(b)
          IN /\ d.position # NoPosition /\ d.position.protected
             /\ StepEnds(d)

FlattenForSession ==
    /\ pc = "step"
    /\ MustFlatten
    /\ \E b \in Bars, works \in Works :
          LET d == Seen(b)
          IN /\ d.position # NoPosition
             /\ StepEnds(Flatten(d, works, "session"))

\* The size passed on is unsigned.
Reprotect ==
    /\ pc = "step"
    /\ ~MustFlatten
    /\ \E b \in Bars, works \in Works :
          LET d == Seen(b)
              closed == CloseCall(d, works)
          IN /\ d.position # NoPosition /\ ~d.position.protected
             /\ \/ StepEnds(Protected(d, d.position.remaining))
                \/ "receipt" \in Faults /\ closed.sim.pos # 0 /\ StepEnds(closed)
                \/ /\ "receipt" \in Faults /\ closed.sim.pos = 0
                   /\ StepEnds(Flatten(closed, TRUE, "protection"))

\* Nothing tracked, and the calendar, a breaker, the signal, the sizing or the
\* guard says no.
StandAside ==
    /\ pc = "step"
    /\ \E b \in Bars :
          LET d == Seen(b)
          IN d.position = NoPosition /\ StepEnds(d)

\* A post-only order one tick better than the mark.
Enter ==
    /\ pc = "step"
    /\ Ruling.entry
    /\ desk.sim.order.trade < MaxTrades
    /\ \E b \in Bars :
          LET d == Seen(b)
          IN /\ d.position = NoPosition
             /\ \E direction \in {1, -1} :
                  /\ b.mark - direction * StopTicks \in Prices
                  /\ desk' = [d EXCEPT
                        !.sim = PlaceOrder(@, direction * Size, b.mark - direction)]
    /\ pc' = "resting"
    /\ polls' = Polls
    /\ UNCHANGED <<session, bar, bare>>

--------------------------------------------------------------------------------
(* submit_entry: the entry rests *)

Resting == pc = "resting" /\ desk.sim.order.status = "open"

WaitForMarket ==
    /\ Resting /\ polls > 0 /\ bar < LastBar
    /\ \E b \in Bars : desk' = [desk EXCEPT !.sim = Walk(@, Path(b, desk))]
    /\ bar' = bar + 1
    /\ polls' = polls - 1
    /\ UNCHANGED <<session, pc, bare>>

\* Mutant: the simulated clock moves only with the market.
WaitForNothingTimeless ==
    /\ Resting /\ polls > 0 /\ bar >= LastBar
    /\ bar' = bar + 1
    /\ UNCHANGED <<session, pc, polls, desk, bare>>

\* The recording is exhausted; the simulated clock goes on.
WaitForNothing ==
    /\ Resting /\ polls > 0 /\ bar >= LastBar
    /\ bar' = bar + 1
    /\ polls' = polls - 1
    /\ UNCHANGED <<session, pc, desk, bare>>

EntryExpired ==
    /\ Resting /\ polls = 0
    /\ StepEnds([desk EXCEPT !.sim = CancelOrder(@)])

EntryFilled ==
    /\ pc = "resting" /\ desk.sim.order.status = "filled"
    /\ \E works \in Works :
          LET order == desk.sim.order
              direction == IF order.size > 0 THEN 1 ELSE -1
              opened == Opened(desk, direction, order.limit)
              closed == CloseCall(opened, works)
              fees == (Maker + Taker) * Size
          IN \/ StepEnds(Protected(opened, order.size))
             \/ \* no verified stop, and the emergency close worked: no trade is booked
                /\ "receipt" \in Faults /\ closed.sim.pos = 0
                /\ StepEnds([closed EXCEPT
                      !.equity = @ - Taker * Size, !.position = NoPosition,
                      !.flattened = @ + 1, !.charged = @ + fees,
                      !.sim.cash = 0, !.sim.strayed = FALSE])
             \/ \* no verified stop and still exposed: tracked, and closed once more
                /\ "receipt" \in Faults /\ closed.sim.pos # 0
                /\ \E again \in Works :
                      StepEnds(Flatten([closed EXCEPT !.unprotected = TRUE], again,
                                       "protection"))

PaperInit ==
    /\ pc = "step"
    /\ bar = 0
    /\ polls = 0
    /\ desk = NewDesk
    /\ bare = FALSE

Run == \/ HoldPosition \/ FlattenForSession \/ Reprotect \/ StandAside \/ Enter
       \/ WaitForMarket \/ WaitForNothing \/ EntryExpired \/ EntryFilled
================================================================================
