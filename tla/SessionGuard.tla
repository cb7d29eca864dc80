------------------------------ MODULE SessionGuard -----------------------------
(***************************************************************************)
(* risk/session_guard.py: may a position be opened, or kept, at this       *)
(* minute?  Time is in whole minutes since the epoch (UTC).                *)
(***************************************************************************)
EXTENDS Integers

CONSTANTS
    Windows,        \* the open intervals of the venue with a calendar
    FlatBefore,     \* flat_before_close_minutes
    NoEntryBefore,  \* no_entry_before_close_minutes
    NoEntryAfter,   \* no_entry_after_open_minutes
    UnknownClosed   \* treat_unknown_session_as_closed

DayMinutes == 1440

SessionWindow == [weekday : 0..6, start : 0..(DayMinutes - 1), end : 1..DayMinutes]

ASSUME SessionAssumption ==
    /\ Windows \subseteq SessionWindow
    /\ FlatBefore \in Nat /\ NoEntryBefore \in Nat /\ NoEntryAfter \in Nat
    /\ FlatBefore <= NoEntryBefore
    /\ UnknownClosed \in BOOLEAN

\* A 24/7 contract, one with a calendar, one without, and the guard switched off.
Calendars == {"always", "windows", "unknown", "disabled"}

\* 0 is Monday; the epoch was a Thursday.
Weekday(now) == ((now \div DayMinutes) + 3) % 7

Minute(now) == now % DayMinutes

Current(now) ==
    {w \in Windows : w.weekday = Weekday(now) /\ w.start <= Minute(now) /\ Minute(now) < w.end}

Verdict(stage, entry, flat) == [stage |-> stage, entry |-> entry, flat |-> flat]

InWindow(now) ==
    LET window == CHOOSE w \in Current(now) : TRUE
        toClose == window.end - Minute(now)
        sinceOpen == Minute(now) - window.start
    IN IF toClose <= FlatBefore THEN Verdict("before_close", FALSE, TRUE)
       ELSE IF toClose <= NoEntryBefore THEN Verdict("before_close", FALSE, FALSE)
       ELSE IF sinceOpen < NoEntryAfter THEN Verdict("after_open", FALSE, FALSE)
       ELSE Verdict("ok", TRUE, FALSE)

SessionVerdict(calendar, now) ==
    CASE calendar \in {"always", "disabled"} -> Verdict("ok", TRUE, FALSE)
      [] calendar = "unknown" -> IF UnknownClosed THEN Verdict("unknown", FALSE, FALSE)
                                 ELSE Verdict("ok", TRUE, FALSE)
      [] calendar = "windows" -> IF Current(now) = {} THEN Verdict("closed", FALSE, FALSE)
                                 ELSE InWindow(now)
================================================================================
