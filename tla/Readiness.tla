------------------------------- MODULE Readiness -------------------------------
(***************************************************************************)
(* A supervised paper run, what it leaves in the database, and the live    *)
(* start that relies on it: validation.run_session over PaperTrader, the   *)
(* trade store, and main.observed_report with run_live's preflight.        *)
(*                                                                         *)
(* The process of the paper run may die anywhere.  Only a run that reaches *)
(* its end leaves testimony, and an older testimony stays in force.  The   *)
(* state of the account and of the switches, the latches and the backtest  *)
(* history are whatever they are when the operator starts live trading.    *)
(***************************************************************************)
EXTENDS PaperTrader, Preflight

CONSTANTS
    Venues,       \* calendars and starting minutes of the recordings
    Earlier,      \* what an earlier session may have left: a testimony or one of
    NoTestimony,  \* none was ever recorded
    Corrupt,      \* a payload that from_payload refuses
    NotStarted

ASSUME VenuesAssumption ==
    Venues \subseteq [calendar : Calendars, start : Nat]

VARIABLES
    testimony,  \* the latest row of session_evidence
    rows,       \* the paper trades of the run that were stored
    truth,      \* observer: what really happened in the run testimony is about
    live        \* what run_live relied on when it started, or NotStarted

store == <<testimony, rows, truth, live>>
vars == <<paper, store>>

Truth == [bare : BOOLEAN, holding : BOOLEAN, faithful : BOOLEAN]

\* Types of everything the run and the store keep.
TypeOK ==
    /\ pc \in {"step", "resting", "over", "recorded", "off", "live"}
    /\ bar \in 0..(LastBar + 1 + Polls)
    /\ polls \in 0..Polls
    /\ desk.sim.pos \in -Size..Size
    /\ desk.sim.order.trade \in 0..MaxTrades
    /\ desk.sim.levels \subseteq Levels
    /\ desk.position \in Positions \cup {NoPosition}
    /\ desk.position # NoPosition =>
          desk.position.direction * (desk.position.entry - desk.position.stop) > 0
    /\ Len(desk.trades) + desk.flattened <= 2 * desk.filled
    /\ truth \in Truth
    /\ bare \in BOOLEAN

Init ==
    /\ PaperInit
    /\ session \in Venues
    /\ testimony \in Earlier
    /\ rows = <<>>
    /\ truth = [bare |-> FALSE, holding |-> FALSE, faithful |-> TRUE]
    /\ live = NotStarted

--------------------------------------------------------------------------------
(* run_session *)

PaperRun == Run /\ UNCHANGED store

\* Mutant: a run that ended with a position open says it ended flat.
EvidenceFlat(d, deep) ==
    [observed |-> TRUE, simulated |-> TRUE, filled |-> d.filled, flattened |-> d.flattened,
     unprotected |-> d.unprotected, openAtEnd |-> FALSE, net |-> d.equity,
     trades |-> d.trades, deep |-> deep]

\* SessionEvidence.of; deep is whether the curve fell by more than the limit.
Evidence(d, deep) ==
    [observed |-> TRUE, simulated |-> TRUE, filled |-> d.filled, flattened |-> d.flattened,
     unprotected |-> d.unprotected, openAtEnd |-> d.position # NoPosition, net |-> d.equity,
     trades |-> d.trades, deep |-> deep]

\* record_session; then the testimony, a transaction of its own.
RecordTrades ==
    /\ pc = "over"
    /\ rows' = desk.trades
    /\ pc' = "recorded"
    /\ UNCHANGED <<session, bar, polls, desk, bare, testimony, truth, live>>

Gone == pc' = "off" /\ bar' = 0 /\ polls' = 0 /\ desk' = NewDesk /\ bare' = FALSE

RecordEvidence ==
    /\ pc = "recorded"
    /\ \E deep \in BOOLEAN : testimony' = Evidence(desk, deep)
    /\ truth' = [bare |-> bare, holding |-> desk.sim.pos # 0, faithful |-> desk.faithful]
    /\ Gone
    /\ UNCHANGED <<session, rows, live>>

\* Trades are stored a transaction per row: a death on the way leaves the first few.
Crash ==
    /\ pc \in {"step", "resting", "over", "recorded"}
    /\ IF pc = "over"
       THEN \E n \in 0..Len(desk.trades) : rows' = SubSeq(desk.trades, 1, n)
       ELSE UNCHANGED rows
    /\ Gone
    /\ UNCHANGED <<session, testimony, truth, live>>

--------------------------------------------------------------------------------
(* run_live *)

\* observed_report, and preflight's fallback to stored history.
Observed == IF testimony \in {NoTestimony, Corrupt} THEN FromStore(rows, FALSE) ELSE testimony

StartLive ==
    /\ pc = "off"
    /\ \E backtest \in Backtests :
          /\ Go(EvidenceChecked(Observed, backtest))
          /\ \E config \in Config :
                /\ Loads(config) /\ Go(GateChecked(config))
                /\ \E account \in Account, latched \in BOOLEAN,
                      reads \in SUBSET {"account", "orders", "latches"} :
                      /\ Go(AccountChecked(account, reads)) /\ Go(RiskChecked(latched, reads))
                      /\ live' = [config |-> config, account |-> account,
                                  latched |-> latched, reads |-> reads]
    /\ pc' = "live"
    /\ UNCHANGED <<session, bar, polls, desk, bare, testimony, rows, truth>>

Next == PaperRun \/ RecordTrades \/ RecordEvidence \/ Crash \/ StartLive

Spec == Init /\ [][Next]_vars

--------------------------------------------------------------------------------
(* The paper run *)

\* Between two steps the loop knows what the simulator holds: nothing it does not
\* track, never more than it tracks, and never on the other side.  (Less it may:
\* levels fired since are settled in the next step.)
TracksSimulator ==
    pc \in {"step", "over", "recorded"} =>
        IF desk.position = NoPosition THEN desk.sim.pos = 0
        ELSE /\ Magnitude(desk.sim.pos) <= desk.position.remaining
             /\ desk.position.direction * desk.sim.pos >= 0

\* The account's move is the trades' net results, what the open trade has booked so
\* far, and the fees of entries that were flattened without a trade -- nothing else:
\* what ledger_reconciles asks at the end holds all along.
BooksReconcile ==
    desk.equity =
        Net(desk.trades) - desk.charged
        + (IF desk.position = NoPosition THEN 0
           ELSE desk.position.realised - desk.position.fees)

\* The results the report books from levels it finds gone are those the simulator's
\* fills produced, although _settle only guesses the order they fired in -- as long
\* as no level left by an earlier trade interfered.
FaithfulBooks == desk.faithful

\* From independent calendar arithmetic: Monday was the epoch's fifth day.
OpenAt(t) ==
    \E w \in Windows : (t - (w.weekday + 4) * DayMinutes) % (7 * DayMinutes)
                          \in w.start..(w.end - 1)

OpenThrough(from, to) == \A t \in from..to : OpenAt(t)

\* An entry is submitted only with the venue open since NoEntryAfter minutes and for
\* NoEntryBefore more; a position that a step found and left open has the venue open
\* for FlatBefore minutes more, unless its close had no effect.
SessionRespected ==
    [][pc = "step" /\ session.calendar = "windows" =>
         /\ pc' = "resting" => OpenThrough(Now - NoEntryAfter, Now + NoEntryBefore)
         /\ (desk.position # NoPosition /\ desk'.position # NoPosition /\ ~desk'.unconfirmed)
              => OpenThrough(Now, Now + FlatBefore)]_vars

\* Every step of a run brings its end nearer: also an entry that rests when the
\* recording has run out times out, on a clock that the market no longer moves.
Running == pc \in {"step", "resting"}
Ahead == (LastBar + 1 - Smaller(bar, LastBar + 1)) * (Polls + 3)
         + (IF pc = "step" THEN Polls + 2 ELSE polls)
RunProgresses == [][Running /\ Running' => Ahead' < Ahead]_vars

--------------------------------------------------------------------------------
(* What live trading relies on *)

\* Testimony that passes every conduct check is true: the run it is about never ended
\* a step exposed without a stop and left nothing open.
CleanTestimonyIsTrue ==
    (testimony \notin {NoTestimony, Corrupt} /\ Values(ConductChecks(testimony)) = {"pass"})
        => ~truth.bare /\ ~truth.holding

\* Live trading starts only on a watched run that ended and behaved, all three
\* switches thrown, an account read as empty and funded, and no latch set -- as far
\* as the orders and the latches could be read: there the code takes silence for none.
LiveStartIsEarned ==
    live # NotStarted =>
        /\ testimony \notin {NoTestimony, Corrupt}
        /\ ~truth.bare /\ ~truth.holding /\ Len(testimony.trades) >= MinTrades
        /\ live.config.dryRun = "false" /\ live.config.mode = "live" /\ live.config.confirm
        /\ live.account.positions = 0 /\ live.account.funded
        /\ "orders" \in live.reads => live.account.orders = 0
        /\ "latches" \in live.reads => ~live.latched
================================================================================
