------------------------------ MODULE OrderManager -----------------------------
(***************************************************************************)
(* execution/order_manager.py: submit_entry and close_position, one action *)
(* per call to the exchange, with everything the code does until its next  *)
(* call.  The exchange moves between any two calls.                        *)
(*                                                                         *)
(* Faults names what may go wrong with a call:                             *)
(*   "read"     a read fails                                               *)
(*   "refuse"   a write raises and had no effect                           *)
(*   "lost"     a write took effect and its answer was lost                *)
(*   "cancel"   cancelling an order that is still open raises, no effect   *)
(*   "noid"     an entry is answered without an order id                   *)
(*   "unfilled" a market close is accepted and executes in part or not     *)
(* The modules above add faults of their own.                              *)
(***************************************************************************)
EXTENDS Venue

CONSTANTS
    Directions,  \* 1 long, -1 short
    Faults

ASSUME DirectionsAssumption == Directions \subseteq {1, -1} /\ Directions # {}

VARIABLES
    pc,      \* the call the process makes next
    trade,   \* the nonce of the entry in hand, 0 before the first
    record   \* the OrderRecord of that entry: what was asked for, then the verdict

manager == <<pc, trade, record>>

Terminal == {"filled", "cancelled", "expired", "rejected"}
HasExposure == {"filled", "partially_filled", "unknown"}
OrderStates == Terminal \cup HasExposure \cup {"new", "submitted", "open"}

Record == [state : OrderStates \cup {"none"}, size : -Size..Size, filled : -Size..Size]
NoRecord == [state |-> "none", size |-> 0, filled |-> 0]

EntryStates == {"place", "poll", "cancel", "recheck", "reread"}

ManagerTypeOK ==
    /\ VenueTypeOK
    /\ trade \in 0..MaxTrades
    /\ record \in Record

ManagerInit ==
    /\ pc = "idle"
    /\ trade = 0
    /\ record = NoRecord

--------------------------------------------------------------------------------
(* Reading an order back. *)

\* Mutants: a status passed through unmapped; a cancelled order with some of it
\* filled taken for a filled one.
StateFromRawUnmapped(order) ==
    CASE order.status = "filled" -> "filled"
      [] order.status = "open" -> IF FilledOf(order) = 0 THEN "open" ELSE "partially_filled"
      [] OTHER -> IF FilledOf(order) = 0 THEN "finished" ELSE "partially_filled"

StateFromRawHasty(order) ==
    IF FilledOf(order) # 0 THEN "filled"
    ELSE IF order.status = "open" THEN "open" ELSE "cancelled"

StateFromRaw(order) ==
    CASE order.status = "filled" -> "filled"
      [] order.status = "open" -> IF FilledOf(order) = 0 THEN "open" ELSE "partially_filled"
      [] OTHER -> IF FilledOf(order) = 0 THEN "cancelled" ELSE "partially_filled"

Unknown == [record EXCEPT !.state = "unknown"]

\* The records read_order can return: what the exchange says, or UNKNOWN.
ReadOrder ==
    {[record EXCEPT !.state = StateFromRaw(orders[trade]), !.filled = FilledOf(orders[trade])]}
        \cup (IF "read" \in Faults THEN {Unknown} ELSE {})

Return(verdict) == record' = verdict /\ pc' = "verdict"

--------------------------------------------------------------------------------
(* submit_entry *)

\* The call itself: a new nonce, nothing sent yet.
SubmitEntry(direction) ==
    /\ trade < MaxTrades
    /\ trade' = trade + 1
    /\ record' = [NoRecord EXCEPT !.size = direction * Size]
    /\ pc' = "place"

PlaceEntry ==
    /\ pc = "place"
    /\ \/ /\ Accept(trade, record.size)
          /\ pc' = "poll"
          /\ UNCHANGED record
       \/ \* an answer without an order id: the order may or may not exist
          /\ "noid" \in Faults
          /\ Accept(trade, record.size) \/ UNCHANGED orders
          /\ Return(Unknown)
       \/ \* place_order raised, and submit_entry lets it through
          /\ \/ "refuse" \in Faults /\ UNCHANGED orders
             \/ "lost" \in Faults /\ Accept(trade, record.size)
          /\ pc' = "raised"
          /\ UNCHANGED record
    /\ UNCHANGED <<trade, pos, triggers, armed>>

\* Mutant: the deadline is an answer, and nothing is cancelled.
PollEntryGivingUp ==
    /\ pc = "poll"
    /\ \E read \in ReadOrder :
          Return(IF read.state \in HasExposure \cup Terminal
                 THEN read
                 ELSE [read EXCEPT !.state = "expired"])
    /\ UNCHANGED <<trade, venue>>

\* One read of the polling loop: a terminal state returns, the deadline leads to
\* the cancel, and reading again changes nothing.
PollEntry ==
    /\ pc = "poll"
    /\ \E read \in ReadOrder :
          IF read.state \in Terminal
          THEN Return(read)
          ELSE pc' = "cancel" /\ UNCHANGED record
    /\ UNCHANGED <<trade, venue>>

CancelEntry ==
    /\ pc = "cancel"
    /\ \/ Withdraw(trade) /\ pc' = "reread"
       \/ \* cancel_order raised
          /\ \/ UNCHANGED orders /\ (orders[trade].status # "open" \/ "cancel" \in Faults)
             \/ Withdraw(trade) /\ "lost" \in Faults
          /\ pc' = "recheck"
    /\ UNCHANGED <<trade, record, pos, triggers, armed>>

\* Mutants: the re-read is believed whatever it says; the cancel is tried again
\* until the order is gone.
RecheckEntryBelieving ==
    /\ pc = "recheck"
    /\ \E read \in ReadOrder : Return(read)
    /\ UNCHANGED <<trade, venue>>

RecheckEntryRetrying ==
    /\ pc = "recheck"
    /\ \E read \in ReadOrder :
          IF read.state \in HasExposure THEN Return(read) ELSE pc' = "cancel" /\ UNCHANGED record
    /\ UNCHANGED <<trade, venue>>

\* After a cancel that raised: only a state with exposure is believed.
RecheckEntry ==
    /\ pc = "recheck"
    /\ \E read \in ReadOrder :
          Return(IF read.state \in HasExposure THEN read ELSE [read EXCEPT !.state = "unknown"])
    /\ UNCHANGED <<trade, venue>>

\* After a cancel that was accepted: did it race a fill?
RereadEntry ==
    /\ pc = "reread"
    /\ \E read \in ReadOrder :
          Return(IF read.state = "cancelled" /\ read.filled = 0
                 THEN [read EXCEPT !.state = "expired"]
                 ELSE read)
    /\ UNCHANGED <<trade, venue>>

EntryStep == PlaceEntry \/ PollEntry \/ CancelEntry \/ RecheckEntry \/ RereadEntry

--------------------------------------------------------------------------------
(* close_position: reduce_only with close, so it can only take the position to *)
(* zero.  Its caller reads the position itself; the record is not used.        *)

ClosePosition(raised) ==
    /\ \/ pos' = 0 /\ (raised => "lost" \in Faults)
       \/ ~raised /\ "unfilled" \in Faults /\ \E k \in 1..Abs(pos) : pos' = Sign(pos) * k
       \/ raised /\ "refuse" \in Faults /\ UNCHANGED pos
    /\ UNCHANGED <<orders, triggers, armed>>
================================================================================
