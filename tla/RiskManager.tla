------------------------------ MODULE RiskManager ------------------------------
(***************************************************************************)
(* risk/risk_manager.py: the circuit breakers of one bot process, the      *)
(* SQLite store that outlives it, and the control panel (menu.py), which   *)
(* opens a manager of its own on the same file to trip or reset latches.   *)
(*                                                                         *)
(* A manager caches what it loaded at construction and writes through.     *)
(* Every store call is its own SQLite transaction, so a process can die    *)
(* between any two of them.                                                *)
(***************************************************************************)
EXTENDS Integers, FiniteSets

CONSTANTS
    Equities,              \* equity readings of the exchange; 0 is an unusable one
    MaxDrawdown,           \* RiskParams.max_drawdown, in percent
    MaxDailyLoss,          \* RiskParams.max_daily_loss, in percent
    MaxConsecutiveLosses,
    MaxOpenPositions,
    CooldownLoss, CooldownWin,
    ClockTolerance,
    DayLength,             \* clock units in a UTC day
    ClockSteps,            \* what one move of the wall clock may add (negative: NTP)
    MaxTime,               \* bound: the clock stays in 1..MaxTime
    MaxStreak,             \* bound: no loss is recorded on top of a streak this long
    PanelWhileRunning,     \* may the panel be open while the bot runs?
    NoState                \* "no equity observed yet"

ASSUME RiskAssumption ==
    /\ Equities \subseteq Nat
    /\ MaxDrawdown \in 1..50
    /\ MaxDailyLoss \in 1..20
    /\ MaxDailyLoss <= MaxDrawdown
    /\ MaxConsecutiveLosses \in Nat \ {0}
    /\ MaxOpenPositions \in Nat \ {0}
    /\ CooldownLoss \in Nat
    /\ CooldownWin \in Nat
    /\ ClockTolerance \in Nat
    /\ DayLength \in Nat \ {0}
    /\ ClockSteps \subseteq Int
    /\ MaxTime \in Nat \ {0}
    /\ MaxStreak \in Nat
    /\ PanelWhileRunning \in BOOLEAN

DayLatches == {"daily_loss", "consecutive_losses"}
ManualResetOnly == {"drawdown", "manual"}
Latching == DayLatches \cup ManualResetOnly

\* Ranked as in LATCHING; the first one tripped is the one a refusal reports.
MostSevere(switches) ==
    CHOOSE b \in switches :
        \/ b = "drawdown"
        \/ b = "daily_loss" /\ "drawdown" \notin switches
        \/ b = "consecutive_losses" /\ switches \cap {"drawdown", "daily_loss"} = {}
        \/ switches = {"manual"}

Refusals == Latching \cup {"unknown_state", "max_open_positions", "already_open", "cooldown"}

Day(t) == t \div DayLength

\* What RiskState persists; trades_today is reported and never read back.
State == [equity : Nat, peak : Nat, day : Nat, dayStart : Nat, streak : Nat,
          lastTime : Nat, lastWon : {"none", "won", "lost"}, updated : Nat]

ASSUME NoStateAssumption == NoState \notin State

Image == [state : State \cup {NoState}, switches : SUBSET Latching]
Empty == [state |-> NoState, switches |-> {}]

VARIABLES
    clock,      \* the host's wall clock
    up,         \* is the bot process running?
    unreadable, \* RiskManager._load_error of the bot is set
    mem,        \* the bot's RiskManager: _state and _switches
    holding,    \* the bot's loop tracks a position (it then asks for no other)
    store,      \* the SQLite file
    panel,      \* the panel's RiskManager while kill_switch() waits at its prompts
    open,       \* is kill_switch() open?
    decision,   \* what the bot's last call returned: "none", "allowed" or a refusal
    \* Observers of the history, never read by an action:
    haltDay,    \* per latch, the day it was last set off (-1: not since its reset)
    highWater,  \* the best equity saved since the drawdown was last reset
    lastClose,  \* clock and outcome of the last trade recorded to completion
    steppedBack \* has the clock ever run backwards?

bot == <<up, unreadable, mem, holding>>
desk == <<panel, open>>
history == <<haltDay, highWater, lastClose, steppedBack>>
vars == <<clock, bot, store, desk, decision, history>>

TypeOK ==
    /\ clock \in 1..MaxTime
    /\ up \in BOOLEAN
    /\ unreadable \in BOOLEAN
    /\ mem \in Image
    /\ holding \in BOOLEAN
    /\ store \in Image
    /\ panel \in Image
    /\ open \in BOOLEAN
    /\ decision \in Refusals \cup {"none", "allowed"}
    /\ haltDay \in [Latching -> Nat \cup {-1}]
    /\ highWater \in Nat
    /\ lastClose \in [time : Nat, won : {"none", "won", "lost"}]
    /\ steppedBack \in BOOLEAN

Init ==
    /\ clock = 1
    /\ up = FALSE
    /\ unreadable = FALSE
    /\ mem = Empty
    /\ holding = FALSE
    /\ store = Empty
    /\ panel = Empty
    /\ open = FALSE
    /\ decision = "none"
    /\ haltDay = [b \in Latching |-> -1]
    /\ highWater = 0
    /\ lastClose = [time |-> 0, won |-> "none"]
    /\ steppedBack = FALSE

(***************************************************************************)
(* The arithmetic of the breakers.                                         *)
(***************************************************************************)

\* RiskState.drawdown and .daily_loss against their limit.
Breached(base, equity, limit) == base > 0 /\ (base - equity) * 100 >= limit * base

Larger(a, b) == IF a >= b THEN a ELSE b

FirstState(now, equity) ==
    [equity |-> equity, peak |-> equity, day |-> Day(now), dayStart |-> equity,
     streak |-> 0, lastTime |-> 0, lastWon |-> "none", updated |-> now]

NewDay(m, now) == m.state # NoState /\ Day(now) # m.state.day

\* Mutant: midnight restarts the high-water mark along with the day.
ObservedPeakReset(m, now, equity) ==
    IF m.state = NoState THEN FirstState(now, equity)
    ELSE [m.state EXCEPT
            !.equity = equity,
            !.peak = IF NewDay(m, now) THEN equity ELSE Larger(@, equity),
            !.updated = now,
            !.day = Day(now),
            !.dayStart = IF NewDay(m, now) THEN equity ELSE @,
            !.streak = IF NewDay(m, now) THEN 0 ELSE @]

\* observe_equity: the state it computes. The high-water mark survives midnight.
Observed(m, now, equity) ==
    IF m.state = NoState THEN FirstState(now, equity)
    ELSE [m.state EXCEPT
            !.equity = equity,
            !.peak = Larger(@, equity),
            !.updated = now,
            !.day = Day(now),
            !.dayStart = IF NewDay(m, now) THEN equity ELSE @,
            !.streak = IF NewDay(m, now) THEN 0 ELSE @]

\* Mutants: midnight clears every latch; a day latch is judged afresh by every
\* observation.
ClearedAll(m, now) == IF NewDay(m, now) THEN m.switches ELSE {}
ClearedEachTime(m, now) == m.switches \cap DayLatches

\* observe_equity: the latches midnight clears, then those its breakers trip.
Cleared(m, now) == IF NewDay(m, now) THEN m.switches \cap DayLatches ELSE {}

Tripped(m, now, equity) ==
    LET s == Observed(m, now, equity) IN
    { b \in {"drawdown", "daily_loss"} \ (m.switches \ Cleared(m, now)) :
        \/ b = "drawdown" /\ Breached(s.peak, s.equity, MaxDrawdown)
        \/ b = "daily_loss" /\ Breached(s.dayStart, s.equity, MaxDailyLoss) }

\* Mutant: a win pays one loss back instead of ending the streak.
ClosedPaidBack(s, now, pnl) ==
    [s EXCEPT
        !.streak = IF pnl < 0 THEN @ + 1 ELSE IF pnl > 0 THEN @ - 1 ELSE @,
        !.lastTime = now,
        !.lastWon = IF pnl > 0 THEN "won" ELSE "lost",
        !.updated = now]

\* record_trade: the state after observe_equity has run.
Closed(s, now, pnl) ==
    [s EXCEPT
        !.streak = IF pnl < 0 THEN @ + 1 ELSE IF pnl > 0 THEN 0 ELSE @,
        !.lastTime = now,
        !.lastWon = IF pnl > 0 THEN "won" ELSE "lost",
        !.updated = now]

StreakTrip(m, s) ==
    IF s.streak >= MaxConsecutiveLosses THEN {"consecutive_losses"} \ m.switches ELSE {}

(***************************************************************************)
(* Writing through.  A call clears latches, trips latches, then saves the  *)
(* state, one transaction each: Written is the file after all of them,     *)
(* Torn the files a death before the last one can leave.                   *)
(***************************************************************************)
Written(image, clears, trips, s) ==
    [state |-> s, switches |-> (image.switches \ clears) \cup trips]

Prefixes(S, first) == {{}, S \cap {first}, S}

Torn(image, clears, trips) ==
    { [image EXCEPT !.switches = @ \ C] : C \in Prefixes(clears, "daily_loss") }
    \cup
    { [image EXCEPT !.switches = (@ \ clears) \cup T] : T \in Prefixes(trips, "drawdown") }

Observation(image, m, now, equity) ==
    Written(image, Cleared(m, now), Tripped(m, now, equity), Observed(m, now, equity))

TornObservation(image, m, now, equity) ==
    Torn(image, Cleared(m, now), Tripped(m, now, equity))

\* The second half of record_trade, applied to what observe_equity left.
Record(image, m, now, pnl) ==
    LET s == Closed(m.state, now, pnl) IN Written(image, {}, StreakTrip(m, s), s)

TornRecord(image, m, now, pnl) ==
    Torn(image, {}, StreakTrip(m, Closed(m.state, now, pnl)))

(***************************************************************************)
(* History.  A latch is set off when it newly appears in `after`.          *)
(***************************************************************************)
Halts(before, after) ==
    haltDay' = [b \in Latching |->
                  IF b \in after \ before THEN Day(clock) ELSE haltDay[b]]

(***************************************************************************)
(* The bot process.                                                        *)
(***************************************************************************)

\* Mutant: a restart treats itself as the start of a new day.
StartFresh ==
    /\ ~up
    /\ PanelWhileRunning \/ ~open
    /\ \E failed \in BOOLEAN :
         /\ unreadable' = failed
         /\ mem' = IF failed THEN Empty ELSE [store EXCEPT !.switches = @ \ DayLatches]
    /\ up' = TRUE
    /\ holding' = FALSE
    /\ decision' = "none"
    /\ UNCHANGED <<clock, store, desk, history>>

\* RiskManager(...): load, or remember that loading failed.
Start ==
    /\ ~up
    /\ PanelWhileRunning \/ ~open
    /\ \E failed \in BOOLEAN :
         /\ unreadable' = failed
         /\ mem' = IF failed THEN Empty ELSE store
    /\ up' = TRUE
    /\ holding' = FALSE
    /\ decision' = "none"
    /\ UNCHANGED <<clock, store, desk, history>>

Stopped == up' = FALSE /\ unreadable' = FALSE /\ mem' = Empty /\ holding' = FALSE

\* The process stops or dies between two calls.
Crash ==
    /\ up
    /\ Stopped
    /\ decision' = "none"
    /\ UNCHANGED <<clock, store, desk, history>>

\* Mutant: the two cooldowns are swapped.
CooldownSwapped(s) == IF s.lastWon = "won" THEN CooldownLoss ELSE CooldownWin

CooldownOf(s) == IF s.lastWon = "won" THEN CooldownWin ELSE CooldownLoss

Cooling(s, now) ==
    s.lastWon # "none" /\ Larger(0, now - s.lastTime) < CooldownOf(s)

\* can_trade after its observation: the first gate that says no.
Verdict(m, now, positions, held) ==
    CASE m.switches # {}                -> MostSevere(m.switches)
      [] m.switches = {} /\ positions >= MaxOpenPositions -> "max_open_positions"
      [] m.switches = {} /\ positions < MaxOpenPositions /\ held -> "already_open"
      [] m.switches = {} /\ positions < MaxOpenPositions /\ ~held
            -> IF Cooling(m.state, now) THEN "cooldown" ELSE "allowed"

ClockWentBack(m, now) == m.state # NoState /\ now < m.state.updated - ClockTolerance

\* can_trade refusing before it observes anything.
Unusable(equity) == unreadable \/ equity = 0 \/ ClockWentBack(mem, clock)

RefuseOutright(equity) ==
    /\ up
    /\ ~holding
    /\ Unusable(equity)
    /\ decision' = "unknown_state"
    /\ UNCHANGED <<clock, bot, store, desk, history>>

CanTrade(equity, positions, held) ==
    /\ up
    /\ ~holding
    /\ ~Unusable(equity)
    /\ store' = Observation(store, mem, clock, equity)
    /\ mem' = Observation(mem, mem, clock, equity)
    /\ decision' = Verdict(mem', clock, positions, held)
    /\ Halts(mem.switches \ Cleared(mem, clock), mem'.switches)
    /\ highWater' = Larger(highWater, equity)
    /\ UNCHANGED <<clock, up, unreadable, holding, desk, lastClose, steppedBack>>

\* The entry that was allowed fills.
Enter ==
    /\ up
    /\ decision = "allowed"
    /\ holding' = TRUE
    /\ decision' = "none"
    /\ UNCHANGED <<clock, up, unreadable, mem, store, desk, history>>

\* record_trade, which checks neither the clock nor the latches.
RecordTrade(equity, pnl) ==
    LET seen == Observation(mem, mem, clock, equity) IN
    /\ holding
    /\ equity > 0
    /\ pnl < 0 => mem.state.streak < MaxStreak
    /\ holding' = FALSE
    /\ store' = Record(Observation(store, mem, clock, equity), seen, clock, pnl)
    /\ mem' = Record(seen, seen, clock, pnl)
    /\ decision' = "none"
    /\ Halts(mem.switches \ Cleared(mem, clock), mem'.switches)
    /\ highWater' = Larger(highWater, equity)
    /\ lastClose' = [time |-> clock, won |-> IF pnl > 0 THEN "won" ELSE "lost"]
    /\ UNCHANGED <<clock, up, unreadable, desk, steppedBack>>

\* The process dies inside either call, between two store transactions.
CrashInCall(equity, pnl) ==
    LET seen == Observation(mem, mem, clock, equity)
        saved == Observation(store, mem, clock, equity) IN
    /\ up
    /\ ~unreadable
    /\ equity > 0
    /\ \/ /\ store' \in TornObservation(store, mem, clock, equity)
          /\ Halts(store.switches, store'.switches)
          /\ highWater' = highWater
       \/ /\ holding
          /\ pnl < 0 => mem.state.streak < MaxStreak
          /\ store' \in TornRecord(saved, seen, clock, pnl)
          /\ Halts(store.switches \ Cleared(mem, clock), store'.switches)
          /\ highWater' = Larger(highWater, equity)
    /\ Stopped
    /\ decision' = "none"
    /\ UNCHANGED <<clock, desk, lastClose, steppedBack>>

(***************************************************************************)
(* menu.kill_switch(): a second manager on the same file.                  *)
(***************************************************************************)
OpenPanel ==
    /\ ~open
    /\ PanelWhileRunning \/ ~up
    /\ open' = TRUE
    /\ panel' \in {store, Empty}         \* Empty: the file could not be read
    /\ decision' = "none"
    /\ UNCHANGED <<clock, bot, store, history>>

Leave == open' = FALSE /\ panel' = Empty /\ decision' = "none"

PanelAbort ==
    /\ open
    /\ Leave
    /\ UNCHANGED <<clock, bot, store, history>>

PanelTrip ==
    /\ open
    /\ store' = IF "manual" \in panel.switches THEN store
                ELSE [store EXCEPT !.switches = @ \cup {"manual"}]
    /\ Halts(store.switches, store'.switches)
    /\ Leave
    /\ UNCHANGED <<clock, bot, highWater, lastClose, steppedBack>>

\* reset() with no argument: every latch this manager knows of is cleared.
Rebaselined(m) ==
    [m.state EXCEPT
        !.peak = IF "drawdown" \in m.switches THEN m.state.equity ELSE @,
        !.dayStart = IF "daily_loss" \in m.switches THEN m.state.equity ELSE @,
        !.streak = IF "consecutive_losses" \in m.switches THEN 0 ELSE @]

Forgive(S) == haltDay' = [b \in Latching |-> IF b \in S THEN -1 ELSE haltDay[b]]

PanelReset ==
    /\ open
    /\ store' = IF panel.switches = {} THEN store
                ELSE [state |-> IF panel.state = NoState THEN store.state
                                ELSE Rebaselined(panel),
                      switches |-> store.switches \ panel.switches]
    /\ Forgive(panel.switches)
    /\ highWater' = IF "drawdown" \in panel.switches /\ panel.state # NoState
                    THEN panel.state.equity ELSE highWater
    /\ Leave
    /\ UNCHANGED <<clock, bot, lastClose, steppedBack>>

\* The panel dies after clearing some latches and before saving the state.
PanelCrash ==
    /\ open
    /\ \E C \in SUBSET panel.switches :
         /\ store' = [store EXCEPT !.switches = @ \ C]
         /\ Forgive(C)
    /\ Leave
    /\ UNCHANGED <<clock, bot, highWater, lastClose, steppedBack>>

(***************************************************************************)
(* The wall clock.                                                         *)
(***************************************************************************)
MoveClock ==
    /\ \E step \in ClockSteps :
         /\ clock' = clock + step
         /\ clock' \in 1..MaxTime
         /\ steppedBack' = (steppedBack \/ step < 0)
    /\ decision' = "none"
    /\ UNCHANGED <<bot, store, desk, haltDay, highWater, lastClose>>

Next ==
    \/ Start
    \/ Crash
    \/ Enter
    \/ \E equity \in Equities :
         \/ RefuseOutright(equity)
         \/ \E positions \in 0..MaxOpenPositions, held \in BOOLEAN :
              CanTrade(equity, positions, held)
         \/ \E pnl \in {-1, 0, 1} : RecordTrade(equity, pnl) \/ CrashInCall(equity, pnl)
    \/ OpenPanel
    \/ PanelAbort
    \/ PanelTrip
    \/ PanelReset
    \/ PanelCrash
    \/ MoveClock

Spec == Init /\ [][Next]_vars

--------------------------------------------------------------------------------

(***************************************************************************)
(* Properties.                                                             *)
(***************************************************************************)

\* A drawdown or manual latch, once set off by any process, keeps every later
\* can_trade of the bot from allowing an entry until a human resets it: through
\* midnights, crashes inside a call, restarts and a clock that steps back.
NoEntryWhileHalted ==
    decision = "allowed" => \A b \in ManualResetOnly : haltDay[b] = -1

\* While the clock only moves forward, a daily-loss or streak latch holds until
\* the next UTC day (or a reset).
DayLatchHolds ==
    decision = "allowed" /\ ~steppedBack =>
        \A b \in DayLatches : haltDay[b] < Day(clock)

\* An entry is allowed only with the account inside the drawdown limit, measured
\* from the best equity any completed call ever saw since the last reset: no
\* restart, crash or midnight forgets the high-water mark.
DrawdownBound ==
    decision = "allowed" => ~Breached(highWater, mem.state.equity, MaxDrawdown)

\* No entry within the cooldown of the last trade recorded, whatever restarts
\* and clock corrections happened since.
CooldownHolds ==
    decision = "allowed" /\ lastClose.won # "none" =>
        Larger(0, clock - lastClose.time) >=
            IF lastClose.won = "won" THEN CooldownWin ELSE CooldownLoss

\* Between calls the file holds exactly what the running bot believes, so a
\* death there loses nothing.
WriteThrough == up /\ ~unreadable => store = mem
================================================================================
