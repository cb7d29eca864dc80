----------------------------- MODULE EntryLifecycle ----------------------------
(***************************************************************************)
(* submit_entry on its own: a caller that submits one entry after another  *)
(* and leaves each to itself once it has an answer, with the exchange      *)
(* filling, cancelling and expiring orders in between.  Its answers keep   *)
(* the promise of EntryPromise.                                            *)
(***************************************************************************)
EXTENDS OrderManager

VARIABLE
    told   \* observer: per entry, the record its caller holds

vars == <<venue, manager, told>>

Init == VenueInit /\ ManagerInit /\ told = [n \in Trades |-> NoRecord]

\* Between entries the caller may have armed a countdown that is still running.
NextEntry ==
    /\ pc \in {"idle", "verdict", "raised"}
    /\ \E direction \in Directions : SubmitEntry(direction)
    /\ armed' \in {armed, TRUE}
    /\ UNCHANGED <<pos, orders, triggers>>

Work == EntryStep /\ told' = [told EXCEPT ![trade] = record']

Exchange == CountdownExpires \/ \E n \in Trades : Fill(n)

Next ==
    \/ NextEntry /\ told' = [told EXCEPT ![trade'] = record']
    \/ Work
    \/ Exchange /\ UNCHANGED <<manager, told>>

Spec == Init /\ [][Next]_vars

\* The polling loop has a deadline and every call a timeout, so an entry that was
\* begun is worked on until it is answered; nothing is assumed of the exchange.
FairSpec == Spec /\ WF_vars(Work)

--------------------------------------------------------------------------------
\* Types of everything the entry path keeps: a status read back is always one the
\* code knows, and a record never holds more than a whole entry.
TypeOK ==
    /\ ManagerTypeOK
    /\ pc \in EntryStates \cup {"idle", "verdict", "raised"}
    /\ told \in [Trades -> Record]

\* What the caller of submit_entry was told about entry n.
Answer(n) ==
    CASE n > trade -> "none"
      [] n <= trade /\ told[n].state = "none" ->
            IF n = trade /\ pc \in EntryStates THEN "waiting" ELSE "raised"
      [] n <= trade /\ told[n].state \in HasExposure -> "exposed"
      [] OTHER -> "nothing"

Promise == INSTANCE EntryPromise WITH
    answer <- [n \in Trades |-> Answer(n)],
    bought <- [n \in Trades |-> Abs(FilledOf(orders[n]))],
    alive <- [n \in Trades |-> orders[n].status = "open"]

\* submit_entry implements EntryPromise: whatever fails and however fills race the
\* deadline and the cancel, "expired", "cancelled" or "rejected" is answered only
\* for an entry that bought nothing and can buy nothing any more.
KeepsPromise == Promise!Spec

\* A record never claims more than the exchange has: "filled" stands for the whole
\* entry, and the filled size it carries (the size protect() will be asked to
\* cover) has really been bought, on the side that was asked for.
RecordsAreReal ==
    \A n \in Trades :
        LET verdict == told[n]
            bought == FilledOf(orders[n])
        IN /\ verdict.state = "filled" => verdict.filled = verdict.size /\ bought = verdict.size
           /\ verdict.filled # 0 => /\ Sign(verdict.filled) = Sign(verdict.size)
                                   /\ Abs(verdict.filled) <= Abs(bought)

\* Every entry is answered: no combination of failing reads and failing cancels
\* keeps submit_entry from returning (or raising).
AnswerComes == pc = "place" ~> pc \in {"verdict", "raised"}
================================================================================
