------------------------------- MODULE MCReadiness -----------------------------
(***************************************************************************)
(* A venue with a lunch break, Monday to Friday, replayed in bars of a     *)
(* quarter of an hour: from its opening, into the break, on a weekend; and *)
(* one recording each of a 24/7 contract and of one without a calendar.    *)
(***************************************************************************)
EXTENDS Readiness

MCWindows == {[weekday |-> day, start |-> hours[1], end |-> hours[2]] :
                 day \in 0..4, hours \in {<<90, 240>>, <<300, 480>>}}

Monday == 4 * DayMinutes
Friday == 8 * DayMinutes
Sunday == 10 * DayMinutes

MCVenues == {[calendar |-> "windows", start |-> Monday + 75],
             [calendar |-> "windows", start |-> Friday + 165],
             [calendar |-> "windows", start |-> Sunday + 105],
             [calendar |-> "always", start |-> Sunday],
             [calendar |-> "unknown", start |-> Monday]}

MCMaker == -1

MCFaults == {"receipt", "close"}

\* An earlier session of two winners; no session at all counts like an unreadable one.
MCClean == [observed |-> TRUE, simulated |-> TRUE, filled |-> 2, flattened |-> 0,
            unprotected |-> FALSE, openAtEnd |-> FALSE, net |-> 16,
            trades |-> [n \in 1..2 |-> [net |-> 8, risk |-> 8, gap |-> 1]], deep |-> FALSE]

MCEarlier == {Corrupt, MCClean}
================================================================================
