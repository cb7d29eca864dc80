# Gate.io Extreme Bot — verification project

TLA+ models of the bot in this repository, the TLC runs that check them on small
instances, and TLAPS proofs of what holds for every value of the constants. Paths
are relative to the repository. Every definition is translated from the code; the
file `PROJECT.json` says from which lines.

## 1. Inventory of the system

The bot is one Python process (`main.py --mode live`, or a panel, `menu.py`), one
`asyncio` coroutine, a REST account at Gate.io and a SQLite file. Nothing is
concurrent inside the live loop; everything around it is: the market, the
exchange's own timers, the operator's panel (another process on the same file and
account), signals, and process death.

| part | keeps | operations | correct when |
|---|---|---|---|
| circuit breakers `risk/risk_manager.py` | `_state`, `_switches`, a SQLite copy of both | `can_trade`, `observe_equity`, `record_trade`, `trip`, `reset`, load | a halt holds until a human resets it; no restart forgets the high-water mark, a latch or a cooldown |
| order manager `execution/order_manager.py` | `history` only | `submit_entry`, `close_position`, `read_order`, `position_size` | "nothing happened" is answered only when nothing was bought and nothing can be |
| simulator `SimulatedGateway` (same file) | orders, price orders, positions | the exchange's calls, `advance` | reduce-only never flips a position |
| protection `execution/protection.py` | nothing between calls | `protect` (arm, stop, verify, ladder, emergency close), `move_stop`, `trail`, `audit` | no ladder without a stop that was read back; no verified stop means flat |
| live loop `live/loop.py` | `_position`, `_nonce` | `step`, `_enter`, `_settle`, `_reprotect`, `_flatten_for_session`, `run`, shutdown | never loses a position, never doubles one, never leaves one without a stop; its books add up |
| preflight `execution/preflight.py` | nothing | grade evidence, gate, account, risk | start only flat, funded, reachable |
| live verification `live/verify.py` | nothing | one supervised round trip, `_recover` | never ends with unreported exposure |
| gate and configuration `config.py`, `main.py` | immutable | load, validate, `live_enabled` | three switches, all deliberate |
| REST client `exchange/gate_client.py` | token bucket, counters | sign, retry, write barrier | no write while the gate is shut; no blind retry of a write that is not idempotent |
| feed `exchange/websocket.py` | sockets, caches, `resync_pending` | connect, subscribe, resync, apply events, heartbeat | nothing read from a cache that a disconnect made stale |
| paper loop `paper/loop.py` | as the live loop | as the live loop, over the simulator | behaves like the live loop |
| validation `paper/validation.py` | `session_evidence` rows | grade conduct and evidence | no verdict from missing evidence |
| backtest `backtest/engine.py` | pending, position, equity | resolve a bar, walk forward | adverse level first; no look-ahead |
| sizing, liquidation, session `risk/*.py` | nothing | `plan_position`, `assess`, `session_verdict` | risk bounded, liquidation beyond the stop, no ride over a close |
| strategy `strategy/*.py` | nothing | `evaluate` | only closed bars |
| database `database/models.py` | tables | append, read | one row per trade |
| panel `menu.py` | a session dict | kill switch, flatten, start, stop, views | an order to halt halts |
| monitoring | nothing | reports, logs | read-only |

How they interact. `LiveTrader.step` refreshes candles, refreshes the dead-man
countdown if it tracks a position, settles against the exchange, and then either
looks after the position or asks, in order: session, untracked position, account,
breakers, signal, size, liquidation. `_enter` calls `submit_entry`, then
`ProtectionEngine.protect`, each a chain of REST calls. Closing a trade calls the
breakers' `record_trade` and the database. The panel opens a second `RiskManager`
on the same SQLite file, and a client of its own on the same account. The feed reads the
REST client; at this commit only the tests construct it, the loops poll REST themselves.

What is hard. A call may be refused, or take effect and have its answer lost. The
exchange fills, triggers and cancels between any two calls; the countdown cancels
*everything* when it is not refreshed. The process may be interrupted in a call,
or die between two. `PROJECT.json` lists these hazards at the lines where they
bite, with the property that would catch each, or why none does yet.

## 2. Modules

| module | models | state | actions |
|---|---|---|---|
| `RiskManager` | the breakers, the store, the panel's kill switch, the wall clock | `mem` and `store` (state and latches), `panel`, `clock` | `CanTrade`/`RefuseOutright`, `Enter`, `RecordTrade`, `Start`, `Crash`, `CrashInCall`, `OpenPanel` … `PanelCrash`, `MoveClock` |
| `RiskManager_proofs` | theorems about it | | |
| `Venue` | the exchange: entry orders, triggers, position, countdown | `orders`, `triggers`, `pos`, `armed` | `Fill`, `Market`, `CountdownExpires`; operators for what calls do |
| `OrderManager` (extends `Venue`) | `submit_entry`, one action per call; `close_position` | `pc`, `trade`, `record` | `PlaceEntry`, `PollEntry`, `CancelEntry`, `RecheckEntry`, `RereadEntry` |
| `EntryPromise` | what `submit_entry` promises, abstractly | `answer`, `bought`, `alive` | `Submit`, `Rest`, `Buy`, `Die`, `Answer` |
| `EntryLifecycle` (extends `OrderManager`) | one entry after another, with the exchange in between | adds the observer `told` | `NextEntry`, `Work`, `Exchange` |
| `EntryLifecycle_proofs` | theorems about it, the refinement of `EntryPromise` among them | | |
| `Protection` (extends `OrderManager`) | `protect`, one action per call | `job`, `missed` | `Arm`, `PlaceStop`, `VerifyStop`, `PlaceLegs`, `EmergencyClose`, `ConfirmClose` |
| `LiveTrader` (extends `Protection`) | the live loop over all of the above | `tracked`, `held`; observers `booked`, `lapsed`, `hasty` | `DecideToEnter` … `SweepLevels`, `Stop`, `Release`, `Crash`, `Start`, `Exchange` |
| `LiveTrader_proofs` | theorems about it and the modules under it | | |
| `MarketDataFeed` | the WebSocket feed for one contract: `run`, `resync`, heartbeat, `stop`, health, the position cache | `phase` (the await `run` is in), `connected`, `pending`, ages of the data, `position`, `cursor`, `link`, `recent`; observers `heard`, `synced`, `snapshot`, `made`, `lateStop` | `Connected`, `Subscribe`, `ResyncMarket` … `ResyncCallFails`, `ReadEnds`, `WakeUp`, `Price`, `PositionEvent`, `Pong`, `Rejected`, `Heartbeat`, `Stop`, `Cancelled`, `LinkFails`, `Tick` |
| `MarketDataFeed_proofs` | theorems about it | | |
| `PositionSizer` | tier selection, the stop, the tier loop, the size: `plan_position` as an operator | | |
| `LiquidationGuard` (extends `PositionSizer`) | the tier snapshot, the predicted price, `assess_plan`, `verify_fill` | | |
| `Backtest` (extends `LiquidationGuard`) | `BacktestEngine.run`, bar by bar | `bars`, `phase`, `equity`, `pending`, `position`; observers `last`, `ledger` | `CloseOnBar`, `HoldThroughBar`, `FillPending`, `WaitForFill`, `ExpirePending`, `StandAside`, `Decide`, `Finish` |
| `Backtest_proofs` | theorems about the three | | |
| `SessionGuard` | `session_verdict` over a calendar | | |
| `Simulator` | `SimulatedGateway` advanced price by price, triggers in the order they were placed | | operators on one record |
| `PaperTrader` (extends both) | the paper loop over a recording | `pc`, `bar`, `polls`, `desk` (simulator, tracked position, report); observer `bare` | `HoldPosition`, `FlattenForSession`, `Reprotect`, `StandAside`, `Enter`, `WaitForMarket`, `WaitForNothing`, `EntryExpired`, `EntryFilled` |
| `Validation`, `Preflight` (extends it) | the grading of a run's evidence; the checks before live trading | | |
| `Readiness` (extends `PaperTrader`, `Preflight`) | a supervised paper run, what it stores, and the live start that relies on it | `testimony`, `rows`, `live`; observer `truth` | the paper loop's, `RecordTrades`, `RecordEvidence`, `Crash`, `StartLive` |
| `PaperTrader_proofs` | what the simulator, the settlement and each action of the paper loop keep | | |
| `Readiness_proofs` (extends it) | theorems about the run, the calendar, the testimony and the live start | | |
| `FoldFacts` | lemmas about least elements, folds and sums over finite sets, for all of the above | | |
| `MCRisk`, `MCEntry`, `MCLive`, `MCFeed`, `MCBacktest`, `MCReadiness` | values for TLC | | |

Correspondence. `pc` names the REST call the coroutine makes next; an action is that
call with all the code up to the next one, so everything the code does between two
`await`s is one step and everything outside may move between two steps. `record` is
the `OrderRecord` in hand; `tracked` is `LiveTrader._position` with prices and money
left out; a trigger carries its client id (trade, protect call, level, attempt).
Prices are multiples of R from the entry. Faults are named strings in the constant
`Faults`, each documented in the header of the module that uses it; a run says which
it allows. Mutants (comments beginning "Mutant") are wrong variants of one
definition each, which the project's runs must reject.

In `MarketDataFeed` an action of `run` is likewise the code from one `await` to the next:
`phase` names the await, and the steps of `resync` are phases of their own, so that the
link can die and events can queue up between them. Frames a cursor drops, or that do not
parse, change nothing and have no action. A position is named by the account change it
reports, which stands for its update id.

In the sizer, the guard and the backtest a rate is a whole number of 1/`Scale`, a price is its
distance from the entry on the losing side in the same unit, so that longs and shorts are one
case, and money is counted in 1/`Scale`: every product is exact, and the roundings left are the
code's own (ticks, contracts). A bar is any pair of extremes; whether the strategy and the
breakers want a trade on it is a choice.

In `PaperTrader` a step of the loop is one action, because the simulated market moves only when
the loop advances it; the exception is an entry that rests, where the recording moves on once
per poll. `desk` is everything the run owns; `Seen(b)` is a step's first half (walk the bar's
prices through the simulator, the adverse one first, then `_settle`), and the actions differ
in what the step does then. `Readiness` composes the run with the rows it stores and with
`run_live`'s preflight: what an operator may have left in the account, the switches, the
latches and the backtest history is arbitrary when live trading is started, and so is which
reads succeed.

In `RiskManager` a call of the manager is one action, because the bot's process is
sequential and the panel reads the file only when it opens; a death inside a call is
an action of its own (`CrashInCall`), which leaves any prefix of the call's SQLite
transactions. Equity readings, limits and percentages are integers.

## 3. Runs

| run | checks | shows |
|---|---|---|
| `risk` | `TypeOK`, `NoEntryWhileHalted`, `DayLatchHolds`, `DrawdownBound`, `CooldownHolds`, `WriteThrough` | halts, the drawdown limit and cooldowns survive midnights, clock corrections, deaths inside a call and restarts |
| `risk_panel` | `NoEntryWhileHalted`, violated | a panel beside a running bot: its trip is not seen until the bot restarts |
| `entry` | `TypeOK`, `RecordsAreReal`, `KeepsPromise`, `AnswerComes` | `submit_entry` implements `EntryPromise` and always answers |
| `live` | `TypeOK`, `Covered`, `NeverForgets`, `NeverDoubles`, `BookedExactly`, `NoStaleLevel` | the loop keeps its promises under eight kinds of fault, over a trade and what it leaves to the next |
| `live_short` | `NoNakedPosition`, violated | `_reprotect` gives a short a stop that sells |
| `live_interrupt` | `DisarmedOnStop`, violated | stopped inside `protect`, the countdown stays armed |
| `live_cancel` | `NeverForgets`, violated | a failed cancel, a phantom trade, then an untracked position |
| `feed` | `TypeOK`, `ServedIsCurrent`, `PositionIsKnown`, `PositionForward`, `NotHammered`, `PingGoesFirst`, `StopEnds` | the feed serves only its open, resynced connection, applies no event that is older than a report, gives up after a storm, and stops |
| `feed_clean` | `ServedIsCurrent`, violated | after a proper close prices are served with no connection |
| `feed_stop` | `StopAlwaysEnds`, violated | a stop during the connect is lost |
| `backtest` | `TypeOK`, `RiskWithinBudget`, `LiquidationClear`, `CappedStopPasses`, `SizingSettles`, `StopHonoured`, `BooksBalance`, `RungsCoverRemaining`, `LossWithinMargin` | sizer and guard agree, whatever is rounded; a bar is resolved adversely, once; equity and trades add up |
| `readiness` | `TypeOK`, `TracksSimulator`, `BooksReconcile`, `FaithfulBooks`, `CleanTestimonyIsTrue`, `LiveStartIsEarned`, `SessionRespected`, `RunProgresses` | the rehearsal knows what it holds and books what happened, its testimony is true, and live trading starts only on it |

Bounds, and why they are enough.

* `risk`: equities 100, 99, 97 and 0 are "at the mark", "at the daily limit", "at the
  drawdown limit" and "unusable"; days of 2 clock units and a clock from 1 to 3 cross one
  midnight in both directions, with two instants of the second day for a latch to hold
  over; steps of ±1 equal the tolerance, two in a row exceed it; streaks to the limit of 2. `MaxTime` and `MaxStreak` are the only bounds.
* `entry`: two entries of two contracts, so that an abandoned order can fill while the
  next one is worked on, in part or whole. Reading again in the polling loop changes
  nothing, so one read that ends in an answer or in the cancel stands for all of them.
* `live`: two trades of two contracts on either side (a rung of the ladder can be empty, a
  fill or a ladder partial), so that an entry or a level left behind can meet the next trade;
  two attempts at a stop; `MaxCalls` = 2 protect calls (the entry's and one of `_reprotect`);
  a countdown that survives one failed refresh. Levels are at most 3 R from their trade's
  entry, and levels of the two trades rest at any distance from each other (`Firing`). The
  constraint `SecondTradeBound` keeps the second trade to one level of the first and to the
  entry's call: several old levels, and `_reprotect` over one, are left to the theorems,
  which have no such bound.

The faults `cancel`, `noid`, `arm` and `preflight` are left out of the `live` run: under
each of them some property fails, `cancel` in the run `live_cancel`, the others as the
hazards in `PROJECT.json` say. `Covered` leaves out a countdown that expired after
refreshes failed (the observer `lapsed`), which the code does not notice, and shorts
under `_reprotect`, which have the run `live_short`.

* `feed`: a tick is the ping interval (5 s). Book data is stale after one tick, tickers
  after two, a pong is missed after three (15 s), warm-up lasts two (10 s), as in
  `config.yaml`. Two attempts at a resync; three recorded reconnects within a window of three
  ticks are a storm; a backoff lasts up to one tick, so that reconnects fall on both sides of
  a window's edge. Two account changes: a report, an older event and a newer one.
  Retry delays within `resync` (1 s) are shorter than a tick and take no time.

* `backtest`: the shipped rates in units of 0.025% (100x is 40 units, the buffer 12, the
  taker fee 3, the stop between 4 and 80), with rebate and slippage rounded to one unit. Three
  ladders: one that is climbed within the budget, one whose second tier forbids the leverage,
  one that is corrupt (the rate falls), on which the loop need not settle. Three contracts:
  fine grid, coarse order grid with a size limit, coarse mark grid. ATR and swing put the stop
  at the floor, inside, on and beyond the cap. Prices reach through the liquidation price, the
  stop, the entry and each target. Five bars are a fill, two partial exits, a close and a new
  decision. `MaxBars` and `MaxTrades` are the only bounds on behaviour.
* `readiness`: bars of 15 minutes around the opening, the lunch break, the Friday close
  and a weekend of a venue with a calendar, and one recording each of a 24/7 contract and of
  one without a calendar; flat 30 minutes before a close, no entry from 45 before it nor
  until 15 after an opening. Five prices, a stop two ticks from the mark, two contracts (the
  second rung is empty), two entries a run, two polls until an entry times out, so that it
  can rest past the end of the recording of five bars. Stops that never appear (`receipt`) and
  closes without effect (`close`). An earlier session left a testimony or an
  unreadable one, which the code and the model treat like none.

The faults `closed` and `slow` are left out of the `feed` run: a proper close breaks
`ServedIsCurrent` (`feed_clean`), and a resync that outlasts the pong timeout makes the
first heartbeat close a sound link, properly, before its first ping can be answered.
`PositionForward` speaks of reports that show a position: a flat account has no row, so no
update id guards against an older event. `StopEnds` leaves out a stop during a connect
(`feed_stop`).

Deadlock is not checked in `entry` and `live`, where the bounds on trades end a
behaviour, nor in the feed, whose `run` returns, nor in `backtest` and `readiness`, which end
with the data and with the live start. In `risk` it is.

Assumptions about timing. Calls have no duration: the countdown runs out on a tracked
position only after failed refreshes, or when nobody is there, or over an entry that is not
protected yet. Of the cooldown after a trade nothing is assumed. It counts from the time a
step reads first (`live/loop.py:167`), the countdown from the refresh after that (`:173`);
after a win both are 60 s, and no check relates them. So `DecideToEnter` may come while the
countdown of the last trade still runs, over the levels that `_settle` left resting, and
`protect` re-arms it over them. `NoStaleLevel` leaves out a position entered so (the observer
`hasty`, until the countdown runs out); `Covered`, `NeverForgets`, `NeverDoubles` and
`BookedExactly` do not, and `Covered` asks for a stop of the position's own trade.

Fairness. `EntryLifecycle` and `MarketDataFeed` have liveness properties. The first
assumes weak fairness of `Work`, the next step of `submit_entry` once it was called: the polling loop has a
deadline and every request a timeout, and the coroutine is scheduled. Nothing is
assumed of the exchange, in particular not that a read ever succeeds. The second assumes
weak fairness of `Run` (the event loop runs a coroutine whose await is over; connecting and
REST calls have timeouts) and of `Tick` (time passes); nothing is assumed of the
heartbeat, the network or the server. The paper run needs none: `RunProgresses` gives it a
variant that every step decreases, so a run of scheduled steps ends.

## 4. Proofs

`RiskManager_proofs` proves, for every set of equity readings, all limits, cooldowns, day
lengths and clock steps, and under `~PanelWhileRunning` (the panel is used only while the
bot is down; without it `risk_panel` refutes the first of them):

* `TypeCorrect`, `HaltsHold`, `DrawdownHolds`, `CooldownsHold`, `WritesThrough`: the
  invariants of the run `risk` that hold whatever the clock does;
* `DayLatchesHold` (`DayLatchHolds`): a latch of the day holds until midnight as long as the
  clock was never set back.

None of these is inductive: a decision is about memory, while what must not be forgotten
lives in the file and in the history. `IInv` adds that memory equals the file while the
bot is up and could read it; that a drawdown or manual latch once set off is in the file;
that the peak in the file is the best equity seen; that the last trade's time and
outcome are in the file; and that an open panel holds a copy of the file, or nothing if it could not read it. The
proof has one lemma per group of actions (`CanTradeStep`, `RecordTradeStep`,
`CrashInCallStep`, `PanelSteps`, `ProcessSteps`, `ClockStep`), resting on lemmas about the
operators: their types, what they keep (`ObservedKeeps`, `ClosedKeeps`,
`ManualLatchesStay`) and that a reading that trips no latch is inside the limit
(`AllowedIsInside`). The last theorem needs more: `DayInv` says that a day latch set off today
is in the file, and that the file's state was written today, so no later call can take the
present for a new day and clear it. The assumptions are `RiskAssumption` and `NoStateAssumption`.

`EntryLifecycle_proofs` proves, for every entry size, number of entries, set of directions and
set of faults (assuming only `VenueAssumption` and `DirectionsAssumption`):

* `TypeCorrect` and `RecordsHold`: a record handed to the caller is well formed and never
  claims more than the exchange has;
* `PromiseKept`: `Spec => KeepsPromise`, that is, every step of `submit_entry` and of the
  exchange is a step of `EntryPromise` or is not seen by it.

A verdict is true when it is given because of what the calls before it established, and
stays true because of how orders may change later; `IInv` records both. `InHand` says where
`submit_entry` is with the entry in hand (above all: after an accepted cancel the order is no
longer open, which is what makes the re-read final); `NothingIsNothing` that an answer without
exposure is about an order that bought nothing and is dead; `OrdersAreWhole` and
`BegunInOrder` that fills move one way between nothing and the whole order, on the side asked
for. `ReadIsTrue` says what a read may be trusted for; `WorkStep` and `ExchangeStep` reduce
each action to what it does to one order and one record. In the refinement, taking an order
maps to `Rest`, a cancel and an expiring countdown to `Die`, a fill to `Buy`, a verdict or an
exception to `Answer`, and reads to stuttering (`WorkFrame`).

`LiveTrader_proofs` proves, for every entry size, number of trades, split of the ladder, number
of attempts and tolerance of outages, every property of the run `live`: `TypesHold` (`TypeOK`),
`StaysCovered` (`Covered`), `ForgetsNever` (`NeverForgets`), `DoublesNever` (`NeverDoubles`),
`FillsAddUp` (`BookedExactly`) and `LevelsAreFresh` (`NoStaleLevel`). Besides
`VenueAssumption`, `DirectionsAssumption`, `ProtectionAssumption` and `NoPositionAssumption` it
assumes `Sound`: every fault but "cancel", "noid", "arm" and "preflight" may happen. Under
each of the four some of the properties fail (section 3).

What the loop believes and what the exchange has are two states that meet only when something
is read, so `IInv` says how far apart they may be at each call. `OnlyLatestOpen` and
`HeldIsBought`: only the entry in hand can still buy, and all that is held was bought by it;
so whatever is left behind by a stop or a death, `Start` and `DecideToEnter` find nothing that
could add to a new entry. `Entering` and `VerdictIsFinal` carry the verdict's truth from
`submit_entry` into `_enter`; `Protecting` says that the call in hand covers at least what is
held, on its side, and that the countdown is armed with no refresh missed from the first
answer to its result, which is why it cannot run out in between. `Tracking` and `Stepping`
bound the position by what `_settle` has read of it; `BetweenTrades` says that nothing is held
while nothing is tracked, `LevelsAreWatched` that levels rest only under a running countdown
or after a stop, so that an entry that finds no countdown running finds no levels either, and
one of an earlier trade rests only after an entry that did not wait. `Shielded` is `Covered`
at every moment. The step where the mark moves needs that a stop for the whole position, once
fired, leaves nothing of it, whatever fired with it (`ClampTakes`): a sum over a set is at
least each of its terms (`SumBounds`, from `FoldFacts`). There is one lemma per action; those
of `submit_entry` rest on `WorkKeeps`, those of `protect` on `ProtectKeeps`.

`MarketDataFeed_proofs` proves, for every limit, timeout, window and backoff, from
`FeedAssumption`:

* whatever goes wrong: `TypeCorrect` and `EventsGoForward` (`PositionForward`);
* when sockets are not closed properly and answers are quick (`Quiet`): `ServedHolds`
  (`ServedIsCurrent`), `PositionKnown` (`PositionIsKnown`, with keys), `PingsGoFirst`
  (`PingGoesFirst`) and `HammersNever` (`NotHammered`).

Health is a predicate on flags and ages, while what it promises is about the socket and its
history; `AlwaysInv` ties the flags' phases to the socket and says that a cached position is
never older than the last report, `QuietInv` that only a socket being read is trusted, that
data in the cache came over it, and that a socket is closed properly only by a stop. The last
rests on a bound on the pong's age by the heartbeat's own count, which is why a live link
never reaches the timeout (`HeartbeatSpares`), and on `PingInterval < PongTimeout`, which
`config.py:383` enforces. The proof has a lemma per action for each of the two invariants.

`NotHammered` counts connections over a window of time, the code only the reconnects it records,
and the two move apart and together as the window slides. `Paced` therefore speaks of every
shorter window too: in the latest n ticks at most one connection more was made than reconnects
were recorded, and none more while `run` sleeps. A failure is recorded before the sleep and a
connection made after it, so both counts lose the same instants when time passes. The `Quiet` in
its hypothesis is not for convenience: after a proper close the code connects again without
recording anything.

`Backtest_proofs` proves, for every ladder (corrupt ones included), contract, rate, path of
prices and length of the data, from `SizingAssumption`, `GuardAssumption`,
`BacktestAssumption` and `NothingAssumption`:

* `BacktestTypes` (`TypeOK`);
* `BudgetHolds` (`RiskWithinBudget`): the loss at the planned stop fits the budget, whatever
  the ticks and the contract size round;
* `LiquidationsClear` (`LiquidationClear`), for a positive buffer: the planned stop fires
  before the guard's liquidation price;
* `RungsHold` (`RungsCoverRemaining`): the rungs not yet reached add up to what is held;
* `StopsHonoured` (`StopHonoured`) and `BooksHold` (`BooksBalance`);
* `LossesBounded` (`LossWithinMargin`), when slippage is at most the liquidation buffer: no
  trade held over a bar loses more than its margin, exit fees included.

Most of it is about what the sizer returns, so the inductive `Inv` says of every plan still at
work, resting or filled, that it is `Good`: the guard cleared it, and its tier covers its
notional. `PlanSound` derives that from the code: `SelectedTier` says which rung a search by
limit ends in, `StopBound` and `SizeBound` what rounding to ticks and contracts may cost,
`SnapshotClimbs` and `TierCovers` that on a ladder that passed the guard's validation the rate
found is at least the rate that applies. `Inv` also has `Single` (an entry rests only while
nothing is held), without which a fill would replace a position. `LossInv` adds `Floored`:
what was taken off so far lost no more than its share of the margin, which is what a trade
closed in several pieces needs. Induction over tiers is done by a least counterexample
(`LeastNatural`), because the library's induction takes an operator.

The same module proves, from the same assumptions, how the sizer's loop over tiers ends:

* `SizingsSettle` (`SizingSettles`): on a ladder that passes the snapshot check the loop has
  settled when its rounds are used up. A higher tier has a lower ceiling, so a stop no wider
  (`StopOrder`), so a notional no smaller, so a tier no lower (`SelectedRises`): a round goes
  up or changes nothing (`RoundsRise`), and there are as many rounds as tiers
  (`LoopSettles`). That the rounds are well defined at all is `RoundsExist`;
* `CappedStopsPass` (`CappedStopPasses`): the tick that a capped stop holds in reserve
  outweighs what rounding on the mark grid may take (`BufferSurvivesRounding`), and flooring
  the size can only lower the tier (`ActualTierNoHigher`), so the guard accepts the plan.

`Readiness_proofs` proves, for every recording, calendar, margin, entry size, split of the ladder
and fee, from `SessionAssumption`, `PaperAssumption`, `PositionAssumption` and
`VenuesAssumption`:

* `RunsProgress` (`RunProgresses`): every step of the paper loop moves the recording on or uses
  up a poll, so a run ends (`Clock`: polls are counted down from the limit, and only within the
  recording);
* `SessionsRespected` (`SessionRespected`): no entry outside a session or within its margins,
  and no position is carried past the bar that should have closed it. `OnTime` adds that the
  venue of a run is one of those configured and that a step changes only what it owns of the
  desk; the rest is arithmetic on the calendar (`OpenInWindow`, `EntryMargins`, `HoldMargin`).
* `LoopTracksSimulator` (`TracksSimulator`), `LedgerReconciles` (`BooksReconcile`) and
  `SettlementIsFaithful` (`FaithfulBooks`): what the loop tracks and books against what the
  simulator holds and exchanged;
* `TestimonyIsTrue` (`CleanTestimonyIsTrue`) and `LiveIsEarned` (`LiveStartIsEarned`);
* `TypesHold` (`TypeOK`).

The first three are about what `_settle` does not know: it sees that levels are gone and how much
is left, and has to say which level took what, at which price. `PaperTrader_proofs` shows that its
guess is right, for every size, split of the ladder and path of prices. Between two steps
`DeskOK` holds, while an entry rests `Waiting` does (`RunInv`). `DeskOK` says that the simulator
holds no more than is tracked (`Held`), that equity and results agree (`Balanced`), that
an entry ends at most one trade and one flatten (`Counted`), that a position whose stop
does not rest is admitted to in the report (`Guarded`), and, unless a level of an
earlier trade took part, that the levels tracked are those that rest, with at most the contracts
left on the rungs, and that what is booked is the cash exchanged (`Faith`). Neither half of a step
keeps this by itself. Walking the market, `ClimbOn`, `StopHits` and `StopStays` say that one price
fires rungs or the stop and never both, that rungs take what they are for and the stop all the
rest; `WalkLadder` puts three prices together, adverse one first, so that after a walk either rungs
are gone (`Climbed`) or the stop is (`Stopped`). In the settlement, `BookedRungs` and
`BookedStop` say that in either case the levels, booked nearest the entry first, come to the same
sum, each limited to its fraction of the position (`_chunk`) although the ladder was placed
with sizes of its own; `SettleKeeps` adds the two up. A level that strays is followed by
`AdvanceMoves` alone: a reduction never turns a position. There is one lemma per action
(`ReprotectKeeps`, `EntryFilledKeeps`, `EnterKeeps`, ...), collected in `RunKeeps`.

`TestimonyIsTrue` needs that a stored testimony of an observed run admits what went wrong
(`Candid`), which rests on `Guarded`: the observer `bare` is never set without the report's
`unprotected`. `LiveIsEarned` reads the verdict of the preflight backwards, check by check
(`UnwatchedFails`, `SampleSuffices`, `StartEarned`); `Launched` adds that nothing moves
after a live start. `TypesHold` rests on `Timed`, which bounds how far a waiting entry can
outrun the recording. `FaithfulBooks` is no theorem about trades in which a level of an
earlier trade took part: there the code books at the mark (section 5).

`FoldFacts` serves them all. The library's induction takes an operator, which the provers cannot
instantiate, so everything that is an induction is shown by a least counterexample: a set of
naturals has a least element (`LeastNatural`), so a set of failing subsets would have a smallest
(`SubsetInduction`), so a fold that visits a finite set by a choice of the next element exists
(`FoldExists`) and keeps what each step keeps (`FoldStays`), and sums can be taken apart
(`SumWithout`, `SumFacts`).

Only model-checked: liveness under fairness, which is out of the prover's reach (`AnswerComes`,
`StopEnds`). Every other property of a passing run is a theorem.

## 5. Findings

1. `risk/risk_manager.py:444` latches are loaded once; the panel's trip (`menu.py:579`) does
   not stop a running bot, though it says so (`menu.py:582`). Run `risk_panel`.
2. `live/loop.py:399` `_reprotect` drops the sign of a short: its stop sells, cannot fire
   against the position, and the position is marked protected. Run `live_short`.
3. `live/loop.py:667` the countdown is disarmed only when a position is tracked; stopped
   inside `protect`, it is left armed over a verified stop. Run `live_interrupt`.
4. `execution/order_manager.py:621` an entry whose cancel fails stays alive while the loop
   tracks its planned size, books it closed at the next settlement, and does not track what
   it buys later. Run `live_cancel`.
5. `exchange/websocket.py:807` a socket that was closed properly, by the server or by the
   heartbeat, ends the read loop without an exception: nothing is invalidated, and prices and
   positions of the old connection are served while there is none. Run `feed_clean`.
6. `exchange/websocket.py:850` `stop()` during a connect closes nothing, and `run` looks at
   the event only between connections: it connects and reads on. Run `feed_stop`.

Met while modelling, and written into the models as they are (a property says how far the
promise goes):

* `paper/loop.py:346` `_wait_for_market` moves the simulator only through a source's `advance`,
  which the REST source does not have: on live candles a paper entry can never fill while it
  is waited for. And a recording moves once per poll, not once per step as
  `validation.py:333` has it: an entry can fill many bars after the session's verdict.
* `paper/loop.py:670` `_settle` cancels nothing when it closes a trade, and the simulated
  countdown never expires: a level of an old trade acts on the next position, and is booked as
  "unknown" at the mark (`FaithfulBooks` leaves those trades out).
* `live/loop.py:537` the live `_settle` cancels nothing either. The countdown removes what is
  left, unless the next entry comes first, which a win cooldown as long as the countdown does
  not exclude (section 3): then old levels rest against the new position for as long as it
  is refreshed. They can only reduce it, and what they take is booked (`live`).
* `paper/loop.py:588` `_reprotect` passes an unsigned size, as the live loop does (finding 2).
* An entry that is closed for want of a stop books its fees, and the price move of the
  close not at all; from then on `ledger_reconciles` passes whatever the drift (`validation.py:518`).
* The simulator never liquidates, so `no_liquidation` cannot fail on paper.
* `execution/order_manager.py:293` `_apply_fill` sets the entry price anew on a partial reduction.
* `backtest/engine.py:415` the bar an entry fills on is compared with neither the stop nor
  the liquidation price, and a position filled on the last bar may lose more than its margin
  (`LossWithinMargin` leaves it out). The entry fee and the funding are reported
  with the trades and never reach the equity (`BooksBalance`). With one-minute bars an entry
  timeout of 20 s is a whole bar.
* `risk/position_sizer.py:400` the reserved tick keeps a capped stop from being vetoed by the
  guard only where the mark grid is no coarser than the order grid and the minimum distance
  leaves the reserve (`CappedStopPasses`); a stop that needed no cap may be vetoed by a tick.
* `live/loop.py:252`, `paper/loop.py:457` and the backtest stamp the ladder with the present
  time, so the guard's limit on its age is never exceeded.
* `live/loop.py:691` and `database/models.py:371`: a listing of orders that fails is an empty
  one, latches that cannot be read are not set, although `preflight.py:307` says that unknown
  blocks (`LiveStartIsEarned` promises only what could be read).
* `paper/validation.py:364` a run that dies leaves no testimony, and an older one stays in force.

## 6. Not modelled

* Left out of modelled parts: the margin top-up profile, the margin mode in preflight, the
  curve's statistics (the drawdown verdict is a free choice), `RestMarketSource`,
  `mark_to_market`, `move_stop`, `trail`, `move_to_breakeven` and `audit` (called by no loop),
  `emergency_close_on_sl_failure = false`, the feed's order cache, the reports' queries.
* `GateClient`'s own mechanics (signing, retries, write barrier, token bucket): their outcomes
  are the faults of the modules that call it. With them one would model
  `verify_live_order` and its recovery, and the panel's flatten and start beside a
  running bot, which need two processes on one account.
* The order of the live `_close_trade`'s writes to the breakers and the database: a write
  that raises ends the loop.
* Metrics, walk-forward and the backtest's verdict are statistics; indicators, regime and scores
  are floating-point arithmetic; rendering, logging and argument parsing are I/O. None is a
  subject for TLC.

Abstractions to keep in mind. In `LiveTrader` money, fees, average prices and P&L are not
modelled, so attribution of a fill to a level is checked there by size only (`FaithfulBooks`
checks the paper copy by money). Earlier sessions in `Readiness` are a choice of the initial
state; all trades of a run risk the same cash there, so expectancy and profit factor are both
the sign of their sum.
