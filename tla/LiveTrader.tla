------------------------------- MODULE LiveTrader ------------------------------
(***************************************************************************)
(* live/loop.py: LiveTrader.step and run over the order manager, the       *)
(* protection engine and the exchange, with the process stopping, being    *)
(* interrupted, dying and being started again.                             *)
(*                                                                         *)
(* The loop is one coroutine: between two calls to the exchange it is      *)
(* never interrupted, and during each of them anything may happen outside. *)
(* Breakers, their cooldowns, signal, sizing and liquidation guard are one *)
(* choice: to enter or not.                                                *)
(*                                                                         *)
(* Faults of its own:                                                      *)
(*   "crash"      the process dies between two calls                       *)
(*   "interrupt"  Ctrl-C or a cancelled task arrives during a call         *)
(*   "preflight"  listing the orders at start fails (read as "none")       *)
(***************************************************************************)
EXTENDS Protection

CONSTANTS
    MaxCalls,    \* bound: protect calls per trade
    NoPosition

VARIABLES
    tracked,  \* LiveTrader._position
    held,     \* what _settle read of the position
    \* Observers, never read by an action:
    booked,   \* of the trade recorded last: its size and what its fills add up to
    lapsed,   \* the countdown expired on the tracked position after a failed refresh
    hasty     \* the entry was decided on while an earlier countdown ran, and it runs still

loop == <<tracked, held>>
observers == <<booked, lapsed, hasty>>
vars == <<venue, manager, protection, loop, observers>>

Position == [direction : {1, -1}, size : -Size..Size, remaining : 0..Size,
             fills : 0..Size, levels : SUBSET Trigger, protected : BOOLEAN,
             recovered : BOOLEAN]

ASSUME NoPositionAssumption == NoPosition \notin Position

LoopStates == {"idle", "verdict", "settle", "list", "session", "close", "check", "sweep",
               "raised", "release", "stopped", "crashed"}

\* Types of everything the stack keeps.
TypeOK ==
    /\ ManagerTypeOK
    /\ ProtectionTypeOK
    /\ pc \in EntryStates \cup ProtectStates \cup Outcomes \cup LoopStates
    /\ tracked \in Position \cup {NoPosition}
    /\ held \in 0..Size
    /\ booked \in [size : 0..Size, fills : 0..Size]
    /\ lapsed \in BOOLEAN
    /\ hasty \in BOOLEAN

NothingBooked == [size |-> 0, fills |-> 0]

Init ==
    /\ VenueInit
    /\ ManagerInit
    /\ ProtectionInit
    /\ tracked = NoPosition
    /\ held = 0
    /\ booked = NothingBooked
    /\ lapsed = FALSE
    /\ hasty = FALSE

Up == pc \notin {"stopped", "crashed"}

\* Where the coroutine awaits the exchange within a step.
Calls == EntryStates \cup ProtectStates \cup {"verdict", "settle", "list", "close", "check", "sweep"}

--------------------------------------------------------------------------------
(* Entering *)

\* step with nothing tracked: a position the loop does not know blocks the entry;
\* a failing read of it counts as none.  A running countdown blocks nothing: the
\* cooldown counts from a time read before the refresh, and need not be longer.
DecideToEnter ==
    /\ pc = "idle"
    /\ tracked = NoPosition
    /\ pos = 0 \/ "read" \in Faults
    /\ \E direction \in Directions : SubmitEntry(direction)
    /\ booked' = NothingBooked
    /\ hasty' = armed
    /\ UNCHANGED <<venue, protection, loop, lapsed>>

\* _enter with submit_entry's record (a local, gone afterwards): no exposure ends
\* the step, any other state is protected, at the size the exchange holds if that
\* can be read.
HandleVerdict ==
    /\ pc = "verdict"
    /\ IF record.state \notin HasExposure
       THEN pc' = "idle" /\ UNCHANGED job
       ELSE LET told == IF record.filled # 0 THEN record.filled ELSE record.size
            IN \E size \in {IF pos # 0 THEN pos ELSE told}
                              \cup (IF "read" \in Faults THEN {told} ELSE {}) :
                  Protect("enter", Sign(record.size), size)
    /\ record' = NoRecord
    /\ UNCHANGED <<venue, trade, missed, loop, observers>>

\* _position_dict
Track(levels, protected) ==
    tracked' = [direction |-> Sign(job.size), size |-> job.size, remaining |-> Abs(job.size),
                fills |-> 0, levels |-> levels, protected |-> protected,
                recovered |-> FALSE]

\* _enter with protect's result.  A flattened entry is recorded as a trade; an
\* unprotected one is tracked and closed here and now.
HandleProtection ==
    /\ pc \in Outcomes
    /\ job.caller = "enter"
    /\ Returned
    /\ CASE pc = "protected" ->
               Track(job.levels, TRUE) /\ pc' = "idle"
         [] pc = "flattened" ->
               pc' = "idle" /\ UNCHANGED tracked
         [] pc = "unprotected" ->
               Track({}, FALSE) /\ pc' = "close"
    /\ UNCHANGED <<venue, trade, record, missed, held, observers>>

\* _reprotect with protect's result, or with whatever protect raised.
HandleReprotection ==
    /\ pc \in Outcomes \cup {"raised"}
    /\ job.caller = "reprotect"
    /\ Returned
    /\ IF pc = "protected"
       THEN tracked' = [tracked EXCEPT !.protected = TRUE, !.levels = job.levels,
                                       !.recovered = TRUE]
       ELSE UNCHANGED tracked
    /\ pc' = IF pc = "flattened" THEN "close" ELSE "idle"
    /\ lapsed' = (lapsed /\ pc # "protected")
    /\ UNCHANGED <<venue, trade, record, missed, held, booked, hasty>>

--------------------------------------------------------------------------------
(* A step with a position tracked *)

RefreshCountdown ==
    /\ pc = "idle"
    /\ tracked # NoPosition
    /\ Countdown(TRUE, "refresh")
    /\ pc' = "settle"
    /\ UNCHANGED <<trade, record, pos, orders, triggers, job, loop, observers>>

\* _settle, first read: nothing shrank (or nobody knows) ends it.
Settle ==
    /\ pc = "settle"
    /\ \/ held' = Abs(pos) /\ pc' = IF Abs(pos) = tracked.remaining THEN "session" ELSE "list"
       \/ "read" \in Faults /\ pc' = "session" /\ UNCHANGED held
    /\ UNCHANGED <<venue, trade, record, protection, tracked, observers>>

Rank(level) == IF level.name = "stop" THEN 0 ELSE Rung(level.name)

\* _chunk: what the level of a rank takes at most; a stop and the runner, all that is left.
ChunkAt(rank) ==
    CASE rank = 1 -> LegSize("tp1", Abs(tracked.size))
      [] rank = 2 -> LegSize("tp2", Abs(tracked.size))
      [] OTHER -> Size

\* The loop over the levels that are gone, nearest first (the stop before a tie), each
\* booking its chunk while there is something left to book: what is left when the loop
\* comes to rank 0, 1, 2 and 3, and at its end.
Owed(gone, closed) ==
    LET after(rank, owed) ==
            IF owed > 0 /\ \E level \in gone : Rank(level) = rank
            THEN owed - Least(owed, ChunkAt(rank)) ELSE owed
        first == after(0, closed)
        second == after(1, first)
        third == after(2, second)
    IN <<closed, first, second, third, after(3, third)>>

BookedLevels(gone, closed) == {level \in gone : Owed(gone, closed)[Rank(level) + 1] > 0}

\* Mutant: what no level accounts for is dropped.
BookedAtLevelsOnly(gone, closed) == closed - Owed(gone, closed)[5]

\* What no level accounts for is booked as "unknown".
Booked(gone, closed) ==
    LET rest == Owed(gone, closed)[5]
        unknown == IF rest > 0 THEN rest ELSE 0
    IN (closed - rest) + unknown

\* _book_fill of what is left, then _close_trade.
CloseTrade(rest) ==
    /\ tracked' = NoPosition
    /\ lapsed' = FALSE
    /\ booked' = [size |-> Abs(tracked.size), fills |-> tracked.fills + rest]
    /\ UNCHANGED hasty

\* _settle, second read: which levels are gone, and book the shrink to them.
Reconcile ==
    /\ pc = "list"
    /\ \/ LET gone == tracked.levels \ triggers
              closed == tracked.remaining - held
          IN IF held = 0
             THEN CloseTrade(Booked(gone, closed)) /\ pc' = "idle"
             ELSE /\ tracked' = [tracked EXCEPT !.remaining = held,
                                                !.fills = @ + Booked(gone, closed),
                                                !.levels = @ \ BookedLevels(gone, closed)]
                  /\ pc' = "session"
                  /\ UNCHANGED observers
       \/ "read" \in Faults /\ pc' = "session" /\ UNCHANGED <<tracked, observers>>
    /\ held' = 0
    /\ UNCHANGED <<venue, trade, record, protection>>

\* The venue closes: flatten.  Otherwise an unprotected position is protected.
CheckSession ==
    /\ pc = "session"
    /\ \/ pc' = "close" /\ UNCHANGED job
       \/ IF tracked.protected \/ job.call = MaxCalls
          THEN pc' = "idle" /\ UNCHANGED job
          ELSE Protect("reprotect", tracked.direction, tracked.remaining)
    /\ held' = 0
    /\ UNCHANGED <<venue, trade, record, missed, tracked, observers>>

--------------------------------------------------------------------------------
(* _flatten_for_session *)

CloseAll ==
    /\ pc = "close"
    /\ \E raised \in BOOLEAN : ClosePosition(raised)
    /\ pc' = "check"
    /\ UNCHANGED <<trade, record, protection, loop, observers>>

\* Mutant: a failing read counts as a size of zero.
CheckClosedHopeful ==
    /\ pc = "check"
    /\ pc' \in {IF pos = 0 THEN "sweep" ELSE "idle"}
                  \cup (IF "read" \in Faults THEN {"sweep"} ELSE {})
    /\ UNCHANGED <<venue, trade, record, protection, loop, observers>>

\* Only a size of zero that was read counts as closed.
CheckClosed ==
    /\ pc = "check"
    /\ pc' \in {IF pos = 0 THEN "sweep" ELSE "idle"}
                  \cup (IF "read" \in Faults THEN {"idle"} ELSE {})
    /\ UNCHANGED <<venue, trade, record, protection, loop, observers>>

\* Every level is cancelled, one call each, and a failure passed over.
SweepLevels ==
    /\ pc = "sweep"
    /\ \E kept \in SUBSET (tracked.levels \cap triggers) :
          /\ kept # {} => "refuse" \in Faults
          /\ triggers' = triggers \ (tracked.levels \ kept)
    /\ CloseTrade(tracked.remaining)
    /\ pc' = "idle"
    /\ UNCHANGED <<trade, record, protection, pos, orders, armed, held>>

--------------------------------------------------------------------------------
(* Stopping and starting *)

\* The pause between two steps ends in a stop, or the step in an exception.
Stop ==
    /\ \/ pc = "idle"
       \/ pc = "raised" /\ job.caller = "enter"
       \/ pc \in Calls /\ "interrupt" \in Faults
    /\ pc' = "release"
    /\ UNCHANGED <<venue, trade, record, protection, loop, observers>>

\* _release_on_shutdown: nothing to do without a tracked position.
Release ==
    /\ pc = "release"
    /\ pc' = "stopped"
    /\ IF tracked = NoPosition THEN UNCHANGED <<armed, missed>> ELSE Countdown(FALSE, "refresh")
    /\ UNCHANGED <<trade, record, job, loop, observers, pos, orders, triggers>>

Crash ==
    /\ Up
    /\ "crash" \in Faults
    /\ pc' = "crashed"
    /\ tracked' = NoPosition
    /\ held' = 0
    /\ job' = NoJob
    /\ lapsed' = FALSE
    /\ UNCHANGED <<venue, trade, record, missed, booked, hasty>>

\* Mutant: preflight looks at the position and the open orders only.
StartSeesOrdersOnly ==
    /\ ~Up
    /\ pos = 0
    /\ \A n \in Trades : orders[n].status # "open"
    /\ pc' = "idle"
    /\ tracked' = NoPosition
    /\ held' = 0
    /\ job' = NoJob
    /\ missed' = 0
    /\ lapsed' = FALSE
    /\ UNCHANGED <<venue, trade, record, booked, hasty>>

\* run_live: preflight refuses an account that is not flat.
Start ==
    /\ ~Up
    /\ pos = 0
    /\ (triggers = {} /\ \A n \in Trades : orders[n].status # "open") \/ "preflight" \in Faults
    /\ pc' = "idle"
    /\ tracked' = NoPosition
    /\ held' = 0
    /\ job' = NoJob
    /\ missed' = 0
    /\ lapsed' = FALSE
    /\ UNCHANGED <<venue, trade, record, booked, hasty>>

--------------------------------------------------------------------------------
\* protect arms the countdown and every step with a position tracked refreshes it:
\* it expires then only when enough refreshes in a row failed.
Unattended ==
    \/ ~Up
    \/ missed = Outage
    \/ tracked = NoPosition /\ pc \notin (ProtectStates \ {"arm"}) \cup Outcomes

Exchange ==
    \/ (\E n \in Trades : Fill(n)) /\ UNCHANGED <<lapsed, hasty>>
    \/ (\E fired \in Firing : Market(fired)) /\ UNCHANGED <<lapsed, hasty>>
    \/ /\ Unattended
       /\ CountdownExpires
       /\ lapsed' = (lapsed \/ (tracked # NoPosition /\ missed > 0))
       /\ hasty' = FALSE

Next ==
    \/ EntryStep /\ UNCHANGED <<protection, loop, observers>>
    \/ ProtectStep /\ UNCHANGED <<loop, observers>>
    \/ DecideToEnter \/ HandleVerdict \/ HandleProtection \/ HandleReprotection
    \/ RefreshCountdown \/ Settle \/ Reconcile \/ CheckSession
    \/ CloseAll \/ CheckClosed \/ SweepLevels
    \/ Stop \/ Release \/ Crash \/ Start
    \/ Exchange /\ UNCHANGED <<manager, protection, loop, booked>>

Spec == Init /\ [][Next]_vars

--------------------------------------------------------------------------------
\* A live stop of this trade for the whole position, on the side and with the rule
\* that closes it when the mark runs against it.
Guarded ==
    \E t \in triggers :
        /\ t.name = "stop"
        /\ t.trade = trade
        /\ Sign(t.size) = -Sign(pos)
        /\ Abs(t.size) >= Abs(pos)
        /\ t.rule = StopTriggerRule(Sign(pos))

SaysProtected == tracked # NoPosition /\ tracked.protected
ReprotectedShort == tracked.recovered /\ tracked.direction = -1

\* Whatever failed on the way, a position the loop calls protected has a live stop
\* for all of it: between two steps, and after the loop has stopped (whose release
\* keeps the countdown from cancelling it).  Not when refreshing the countdown, or
\* releasing it, failed and it expired; and shorts that _reprotect protected are
\* left to NoNakedPosition.
Covered ==
    pc \in {"idle", "stopped"} /\ pos # 0 /\ SaysProtected /\ ~ReprotectedShort /\ ~lapsed
        => Guarded

\* "The invariant is that no position exists without a verified stop"
\* (_reprotect): the same, with nothing left out.
NoNakedPosition ==
    pc = "idle" /\ pos # 0 /\ SaysProtected => Guarded

\* The loop cannot lose track of a position: between two steps, what the exchange
\* holds is tracked, on its side.
NeverForgets ==
    pc = "idle" /\ pos # 0 => tracked # NoPosition /\ tracked.direction = Sign(pos)

\* "cannot double-enter": whatever entries are left behind, what is held is never
\* more than one of them.
NeverDoubles == Abs(pos) <= Size

\* The fills of a trade add up to its size, however its levels fired between the
\* reads of a step and whatever the reads missed.
BookedExactly ==
    /\ tracked # NoPosition => tracked.fills + tracked.remaining = Abs(tracked.size)
    /\ booked.fills = booked.size

\* No level of an earlier trade rests against the position now held, although _settle
\* cancels nothing when it closes a trade: the sweep, the countdown and preflight
\* remove what a trade left, whichever way the loop went on.  The one way past them is
\* an entry decided on while the countdown over such levels still runs; it lasts for
\* as long as protect and the refreshes keep that countdown from running out.
NoStaleLevel ==
    pos # 0 /\ ~hasty => \A t \in triggers : Sign(t.size) = -Sign(pos) => t.trade = trade

\* "the dead-man countdown is disarmed on every stop path": whoever stops the loop
\* while a live stop covers the position, no countdown is left to cancel it.
DisarmedOnStop == pc = "stopped" /\ pos # 0 /\ Guarded => ~armed
================================================================================
