-------------------------- MODULE EntryLifecycle_proofs ------------------------
(***************************************************************************)
(* Theorems about EntryLifecycle for every entry size, number of entries,  *)
(* set of directions and set of faults.                                    *)
(***************************************************************************)
EXTENDS EntryLifecycle, TLAPS

(***************************************************************************)
(* The inductive invariant.                                                *)
(***************************************************************************)

\* An entry order is whole: its size is a planned one, what is left of it lies
\* between nothing and all of it, and only a live order has something left to wait
\* for.
Whole(order) ==
    /\ order.status = "none" => order = NoOrder
    /\ order.status # "none" => order.size \in {Size, -Size}
    /\ order.status = "open" => order.left # 0
    /\ order.status = "filled" => order.left = 0
    /\ order.size >= 0 => 0 <= order.left /\ order.left <= order.size
    /\ order.size <= 0 => order.size <= order.left /\ order.left <= 0

OrdersAreWhole == \A n \in Trades : Whole(orders[n])

\* Entries are begun one after another; what was not begun does not exist.
BegunInOrder ==
    \A n \in Trades :
        /\ n > trade => told[n] = NoRecord /\ orders[n] = NoOrder
        /\ n <= trade => told[n].size \in {Size, -Size}
        /\ orders[n].status # "none" => orders[n].size = told[n].size

\* The entry in hand, and where submit_entry is with it.
InHand ==
    /\ pc = "idle" => trade = 0
    /\ pc # "idle" => trade \in Trades /\ told[trade] = record
    /\ pc \in EntryStates \cup {"raised"} => record.state = "none" /\ record.filled = 0
    /\ pc = "verdict" => record.state # "none"
    /\ pc = "place" => orders[trade] = NoOrder
    /\ pc = "reread" => orders[trade].status # "open"

\* An answer that means "there is nothing" is true of the order, and stays true.
Settled(verdict, order) ==
    verdict.size # 0 /\ verdict.state \notin HasExposure \cup {"none"}
        => order.status # "open" /\ FilledOf(order) = 0

NothingIsNothing == \A n \in Trades : Settled(told[n], orders[n])

\* RecordsAreReal, of one entry.
Real(verdict, order) ==
    /\ verdict.state = "filled" => verdict.filled = verdict.size /\ FilledOf(order) = verdict.size
    /\ verdict.filled # 0 => /\ Sign(verdict.filled) = Sign(verdict.size)
                             /\ Abs(verdict.filled) <= Abs(FilledOf(order))

IInv ==
    /\ TypeOK
    /\ OrdersAreWhole
    /\ BegunInOrder
    /\ InHand
    /\ NothingIsNothing
    /\ RecordsAreReal

(***************************************************************************)
(* What the operators return.                                              *)
(***************************************************************************)

\* Reading an order back gives a record of a known status that claims what the
\* exchange has, or an unknown one that claims what was claimed before.
LEMMA ReadType ==
    ASSUME TypeOK, OrdersAreWhole, trade \in Trades, NEW read \in ReadOrder
    PROVE  /\ read \in Record
           /\ read.size = record.size
           /\ \/ read.state = "unknown" /\ read.filled = record.filled
              \/ read.state = StateFromRaw(orders[trade]) /\ read.filled = FilledOf(orders[trade])
<1> DEFINE order == orders[trade]
<1>1. order \in EntryOrder /\ Whole(order) /\ record \in Record
  BY DEF TypeOK, ManagerTypeOK, VenueTypeOK, OrdersAreWhole
<1>2. FilledOf(order) \in -Size..Size
  BY <1>1, VenueAssumption DEF FilledOf, EntryOrder, Whole
<1>3. StateFromRaw(order) \in OrderStates
  BY <1>1 DEF StateFromRaw, OrderStates, Terminal, HasExposure
<1>4. OrderStates \cup {"none"} # {} /\ "unknown" \in OrderStates
  BY DEF OrderStates, HasExposure
<1>5. CASE read = [record EXCEPT !.state = StateFromRaw(order), !.filled = FilledOf(order)]
  BY <1>1, <1>2, <1>3, <1>5 DEF Record
<1>6. CASE read = Unknown
  BY <1>1, <1>4, <1>6 DEF Unknown, Record
<1>7. QED
  BY <1>5, <1>6 DEF ReadOrder

(***************************************************************************)
(* The invariant holds initially and is kept by every step.                *)
(***************************************************************************)

\* Nothing was asked for yet.
LEMMA InitIInv == Init => IInv
<1> SUFFICES ASSUME Init PROVE IInv
  OBVIOUS
<1> USE VenueAssumption DEF Init, VenueInit, ManagerInit
<1>1. TypeOK
  <2>1. NoOrder \in EntryOrder /\ NoRecord \in Record
    BY DEF EntryOrder, Record, NoOrder, NoRecord
  <2>2. VenueTypeOK
    <3>1. orders \in [Trades -> EntryOrder]
      BY <2>1
    <3>2. triggers \subseteq Trigger
      OBVIOUS
    <3>3. pos \in Int
      OBVIOUS
    <3>4. armed \in BOOLEAN
      BY Zenon
    <3>5. QED
      BY <3>1, <3>2, <3>3, <3>4 DEF VenueTypeOK
  <2>3. pc \in EntryStates \cup {"idle", "verdict", "raised"} /\ trade \in 0..MaxTrades
    BY DEF EntryStates
  <2>4. QED
    BY <2>1, <2>2, <2>3 DEF TypeOK, ManagerTypeOK
<1> USE DEF NoOrder, NoRecord
<1>2. OrdersAreWhole
  BY DEF OrdersAreWhole, Whole, Trades
<1>3. BegunInOrder /\ InHand
  BY DEF BegunInOrder, InHand, EntryStates, Trades
<1>4. NothingIsNothing
  BY DEF NothingIsNothing, Settled, FilledOf
<1>5. RecordsAreReal
  BY DEF RecordsAreReal, FilledOf
<1>6. QED
  BY <1>1, <1>2, <1>3, <1>4, <1>5 DEF IInv

\* submit_entry is called.
LEMMA NextEntryStep ==
    ASSUME IInv, NextEntry, told' = [told EXCEPT ![trade'] = record']
    PROVE  IInv'
<1> PICK direction \in Directions : SubmitEntry(direction)
  BY DEF NextEntry
<1> USE VenueAssumption, DirectionsAssumption DEF IInv, NextEntry, SubmitEntry
<1>1. /\ trade' = trade + 1 /\ trade' \in Trades
      /\ record' = [state |-> "none", size |-> direction * Size, filled |-> 0]
      /\ record'.size \in {Size, -Size}
      /\ pc' = "place" /\ orders' = orders
  BY DEF TypeOK, ManagerTypeOK, Trades, NoRecord
<1>2. TypeOK'
  <2>1. armed' \in BOOLEAN
    BY Zenon DEF TypeOK, ManagerTypeOK, VenueTypeOK
  <2>2. record' \in Record
    <3>1. record'.size \in -Size..Size /\ 0 \in -Size..Size
      BY <1>1
    <3>2. record' = [state |-> "none", size |-> record'.size, filled |-> 0]
      BY <1>1
    <3>3. QED
      BY ONLY <3>1, <3>2 DEF Record
  <2>3. told' \in [Trades -> Record]
    BY <2>2 DEF TypeOK
  <2>4. trade' \in 0..MaxTrades
    BY <1>1 DEF Trades
  <2>5. QED
    BY <1>1, <2>1, <2>2, <2>3, <2>4 DEF TypeOK, ManagerTypeOK, VenueTypeOK, EntryStates
<1>3. OrdersAreWhole'
  BY <1>1 DEF OrdersAreWhole
<1>4. BegunInOrder'
  BY <1>1 DEF BegunInOrder, TypeOK, ManagerTypeOK, Trades, NoOrder
<1>5. InHand'
  BY <1>1 DEF InHand, EntryStates, BegunInOrder, TypeOK, ManagerTypeOK, Trades
<1>6. NothingIsNothing'
  BY <1>1 DEF NothingIsNothing, Settled, InHand, TypeOK, ManagerTypeOK, Trades
<1>7. RecordsAreReal'
  BY <1>1 DEF RecordsAreReal, TypeOK
<1>8. QED
  BY <1>2, <1>3, <1>4, <1>5, <1>6, <1>7

\* What the exchange has of an entry it has just taken.
LEMMA AcceptedOrder ==
    ASSUME IInv, pc = "place", Accept(trade, record.size)
    PROVE  /\ orders' \in [Trades -> EntryOrder]
           /\ OrdersAreWhole'
           /\ \A n \in Trades \ {trade} : orders'[n] = orders[n]
           /\ orders'[trade].size = record.size
           /\ FilledOf(orders'[trade]) = 0
<1> USE VenueAssumption DEF IInv
<1>1. trade \in Trades /\ record \in Record /\ record.size \in {Size, -Size}
  BY DEF InHand, BegunInOrder, TypeOK, ManagerTypeOK, Trades
<1>2. PICK status \in {"open", "cancelled"} :
         orders' = [orders EXCEPT ![trade] =
                      [status |-> status, size |-> record.size, left |-> record.size]]
  BY DEF Accept
<1>3. [status |-> status, size |-> record.size, left |-> record.size] \in EntryOrder
  BY <1>1 DEF EntryOrder
<1>4. orders \in [Trades -> EntryOrder]
  BY DEF TypeOK, ManagerTypeOK, VenueTypeOK
<1>5. Whole([status |-> status, size |-> record.size, left |-> record.size])
  BY <1>1 DEF Whole
<1>6. QED
  BY <1>1, <1>2, <1>3, <1>4, <1>5 DEF OrdersAreWhole, FilledOf

\* A cancelled order keeps what it bought and buys no more.
LEMMA CancelledOrder ==
    ASSUME NEW order \in EntryOrder, Whole(order)
    PROVE  /\ Cancelled(order) \in EntryOrder
           /\ Whole(Cancelled(order))
           /\ Cancelled(order).size = order.size
           /\ FilledOf(Cancelled(order)) = FilledOf(order)
           /\ Cancelled(order).status # "open"
           /\ order.status # "open" => Cancelled(order) = order
BY DEF Cancelled, EntryOrder, Whole, FilledOf

\* What every call of submit_entry has in common: it touches the order of the entry
\* in hand, if any, and leaves a record that is true of it.
LEMMA WorkStep ==
    ASSUME IInv, pc \in EntryStates,
           UNCHANGED <<trade, pos, triggers, armed>>,
           told' = [told EXCEPT ![trade] = record'],
           orders' \in [Trades -> EntryOrder],
           OrdersAreWhole',
           \A n \in Trades \ {trade} : orders'[n] = orders[n],
           orders'[trade].status # "none" => orders'[trade].size = record.size,
           record' \in Record,
           record'.size = record.size,
           \/ pc' \in {"poll", "cancel", "recheck", "reread", "raised"} /\ record' = record
           \/ pc' = "verdict" /\ record'.state # "none",
           pc' = "reread" => orders'[trade].status # "open",
           Settled(record', orders'[trade]),
           Real(record', orders'[trade])
    PROVE  IInv'
<1> USE DEF IInv
<1>1. trade \in Trades /\ told[trade] = record
  BY DEF InHand, EntryStates
<1>2. told' \in [Trades -> Record] /\ \A n \in Trades : told'[n] = IF n = trade THEN record' ELSE told[n]
  BY <1>1 DEF TypeOK
<1>3. TypeOK'
  BY <1>2 DEF TypeOK, ManagerTypeOK, VenueTypeOK, EntryStates
<1>4. BegunInOrder'
  BY <1>1, <1>2 DEF BegunInOrder, TypeOK, ManagerTypeOK, Trades
<1>5. InHand'
  BY <1>1, <1>2 DEF InHand, EntryStates
<1>6. NothingIsNothing'
  BY <1>1, <1>2 DEF NothingIsNothing
<1>7. RecordsAreReal'
  <2>1. \A n \in Trades : Real(told[n], orders[n])
    BY DEF RecordsAreReal, Real
  <2>2. \A n \in Trades : Real(told'[n], orders'[n])
    BY <1>1, <1>2, <2>1
  <2>3. QED
    BY <2>2 DEF RecordsAreReal, Real
<1>8. QED
  BY <1>3, <1>4, <1>5, <1>6, <1>7

\* The same for a call that leaves every order alone and returns a verdict.
LEMMA ReturnStep ==
    ASSUME IInv, pc \in EntryStates, NEW verdict \in Record, Return(verdict),
           UNCHANGED <<trade, venue>>, told' = [told EXCEPT ![trade] = record'],
           verdict.size = record.size, verdict.state # "none",
           Settled(verdict, orders[trade]), Real(verdict, orders[trade])
    PROVE  IInv'
<1>1. trade \in Trades
  BY DEF IInv, InHand, EntryStates
<1>2. orders' = orders /\ orders \in [Trades -> EntryOrder] /\ OrdersAreWhole'
  BY DEF venue, IInv, TypeOK, ManagerTypeOK, VenueTypeOK, OrdersAreWhole
<1>3. orders[trade].status # "none" => orders[trade].size = record.size
  BY <1>1 DEF IInv, BegunInOrder, InHand, EntryStates
<1>4. QED
  BY <1>1, <1>2, <1>3, WorkStep DEF Return, venue

\* And for one that only moves on to the next call.
LEMMA MoveOn ==
    ASSUME IInv, pc \in EntryStates, pc' \in {"poll", "cancel", "recheck", "raised"},
           UNCHANGED <<record, trade, venue>>, told' = [told EXCEPT ![trade] = record']
    PROVE  IInv'
<1>1. trade \in Trades /\ record \in Record /\ record.state = "none" /\ record.filled = 0
  BY DEF IInv, InHand, EntryStates, TypeOK, ManagerTypeOK
<1>2. orders' = orders /\ orders \in [Trades -> EntryOrder] /\ OrdersAreWhole'
  BY DEF venue, IInv, TypeOK, ManagerTypeOK, VenueTypeOK, OrdersAreWhole
<1>3. orders[trade].status # "none" => orders[trade].size = record.size
  BY <1>1 DEF IInv, BegunInOrder, InHand, EntryStates
<1>4. Settled(record, orders[trade]) /\ Real(record, orders[trade])
  BY <1>1 DEF Settled, Real
<1>5. QED
  BY <1>1, <1>2, <1>3, <1>4, WorkStep DEF venue

\* A record read back is true of the order it was read from.
LEMMA ReadIsTrue ==
    ASSUME IInv, pc \in EntryStates \ {"place"}, NEW read \in ReadOrder
    PROVE  /\ read \in Record /\ read.size = record.size /\ read.state # "none"
           /\ IF read.state = "open" THEN orders[trade].status = "open" ELSE Settled(read, orders[trade])
           /\ Real(read, orders[trade])
<1> DEFINE order == orders[trade]
<1> USE VenueAssumption
<1>1. /\ trade \in Trades /\ record \in Record /\ record.state = "none" /\ record.filled = 0
      /\ record.size \in {Size, -Size}
      /\ order \in EntryOrder /\ Whole(order)
      /\ order.status # "none" => order.size = record.size
  BY DEF IInv, InHand, BegunInOrder, EntryStates, TypeOK, ManagerTypeOK, VenueTypeOK,
         OrdersAreWhole, Trades
<1>2. /\ read \in Record /\ read.size = record.size
      /\ \/ read.state = "unknown" /\ read.filled = record.filled
         \/ read.state = StateFromRaw(order) /\ read.filled = FilledOf(order)
  BY <1>1, ReadType DEF IInv
<1>3. CASE read.state = "unknown" /\ read.filled = record.filled
  BY <1>1, <1>2, <1>3 DEF Settled, Real, HasExposure
<1>4. CASE read.state = StateFromRaw(order) /\ read.filled = FilledOf(order)
  <2> HIDE DEF order
  <2>1. /\ read.state \in {"filled", "open", "cancelled", "partially_filled"}
        /\ read.state = "filled" => order.status = "filled"
        /\ read.state = "open" => order.status = "open"
        /\ read.state = "cancelled" => order.status # "open" /\ FilledOf(order) = 0
    BY <1>4 DEF StateFromRaw
  <2>2. FilledOf(order) \in Int /\ Abs(read.filled) <= Abs(FilledOf(order))
    BY <1>1, <1>4 DEF Abs, FilledOf, EntryOrder
  <2>3. ASSUME order.status = "filled"
        PROVE  FilledOf(order) = read.size
    BY <1>1, <1>2, <2>3 DEF FilledOf, Whole, EntryOrder
  <2>4. ASSUME FilledOf(order) # 0
        PROVE  Sign(FilledOf(order)) = Sign(read.size)
    <3>1. order.status # "none"
      BY <1>1, <2>4 DEF Whole, FilledOf, NoOrder
    <3>2. QED
      BY <1>1, <1>2, <2>4, <3>1 DEF Sign, FilledOf, Whole, EntryOrder
  <2>5. Real(read, order)
    BY <1>4, <2>1, <2>2, <2>3, <2>4 DEF Real
  <2>6. QED
    BY <1>2, <2>1, <2>5 DEF Settled, HasExposure, order
<1>5. QED
  BY <1>2, <1>3, <1>4

\* place_order: taken, refused, or answered in a way that says neither.
LEMMA PlaceEntryKeeps ==
    ASSUME IInv, PlaceEntry, told' = [told EXCEPT ![trade] = record']
    PROVE  IInv'
<1> USE DEF PlaceEntry
<1>1. /\ pc \in EntryStates
      /\ trade \in Trades /\ record \in Record /\ record.state = "none" /\ record.filled = 0
      /\ orders[trade] = NoOrder
  BY DEF EntryStates, IInv, InHand, TypeOK, ManagerTypeOK
<1>2. /\ Unknown \in Record /\ Unknown.size = record.size
      /\ Unknown.state = "unknown" /\ Unknown.filled = 0
  BY <1>1 DEF Unknown, Record, OrderStates, HasExposure
<1>3. \A order \in EntryOrder :
         /\ Settled(Unknown, order) /\ Real(Unknown, order)
         /\ Settled(record, order) /\ Real(record, order)
  BY <1>1, <1>2 DEF Settled, Real, HasExposure
<1>4. CASE Accept(trade, record.size)
  <2>1. orders'[trade] \in EntryOrder
    BY <1>1, <1>4, AcceptedOrder
  <2>2. CASE pc' \in {"poll", "raised"} /\ record' = record
    BY <1>1, <1>3, <1>4, <2>1, <2>2, AcceptedOrder, WorkStep
  <2>3. CASE Return(Unknown)
    BY <1>1, <1>2, <1>3, <1>4, <2>1, <2>3, AcceptedOrder, WorkStep DEF Return
  <2>4. QED
    BY <2>2, <2>3
<1>5. CASE UNCHANGED orders
  <2>1. UNCHANGED venue /\ orders[trade] \in EntryOrder
    BY <1>1, <1>5 DEF venue, IInv, TypeOK, ManagerTypeOK, VenueTypeOK
  <2>2. CASE pc' = "raised" /\ record' = record
    BY <1>1, <2>1, <2>2, MoveOn
  <2>3. CASE Return(Unknown)
    BY <1>1, <1>2, <1>3, <2>1, <2>3, ReturnStep
  <2>4. CASE Accept(trade, record.size)
    BY <1>4, <2>4
  <2>5. QED
    BY <2>2, <2>3, <2>4
<1>6. QED
  BY <1>4, <1>5

\* The polling loop: a terminal state is returned, the deadline goes on to the cancel.
LEMMA PollEntryKeeps ==
    ASSUME IInv, PollEntry, told' = [told EXCEPT ![trade] = record']
    PROVE  IInv'
<1>1. PICK read \in ReadOrder : IF read.state \in Terminal
                               THEN Return(read)
                               ELSE pc' = "cancel" /\ UNCHANGED record
  BY DEF PollEntry
<1>2. pc \in EntryStates \ {"place"} /\ UNCHANGED <<trade, venue>>
  BY DEF PollEntry, EntryStates
<1>3. CASE read.state \in Terminal
  BY <1>1, <1>2, <1>3, ReadIsTrue, ReturnStep DEF Terminal
<1>4. CASE read.state \notin Terminal
  BY <1>1, <1>2, <1>4, MoveOn
<1>5. QED
  BY <1>3, <1>4

\* cancel_order: done, refused, or done with the answer lost.
LEMMA CancelEntryKeeps ==
    ASSUME IInv, CancelEntry, told' = [told EXCEPT ![trade] = record']
    PROVE  IInv'
<1> USE DEF CancelEntry
<1>1. /\ pc \in EntryStates
      /\ trade \in Trades /\ record \in Record /\ record.state = "none" /\ record.filled = 0
      /\ orders \in [Trades -> EntryOrder] /\ OrdersAreWhole
      /\ orders[trade].status # "none" => orders[trade].size = record.size
  BY DEF EntryStates, IInv, InHand, BegunInOrder, TypeOK, ManagerTypeOK, VenueTypeOK
<1>2. \A order : Settled(record, order) /\ Real(record, order)
  BY <1>1 DEF Settled, Real
<1>3. CASE Withdraw(trade) /\ pc' \in {"recheck", "reread"}
  <2>1. orders' = [orders EXCEPT ![trade] = Cancelled(orders[trade])]
    BY <1>3 DEF Withdraw
  <2>2. /\ Cancelled(orders[trade]) \in EntryOrder
        /\ Whole(Cancelled(orders[trade]))
        /\ Cancelled(orders[trade]).size = orders[trade].size
        /\ Cancelled(orders[trade]).status # "open"
        /\ orders[trade].status # "open" => Cancelled(orders[trade]) = orders[trade]
    BY <1>1, CancelledOrder DEF OrdersAreWhole
  <2>3. orders' \in [Trades -> EntryOrder] /\ OrdersAreWhole'
    BY <1>1, <2>1, <2>2 DEF OrdersAreWhole
  <2>4. orders'[trade].status # "none" => orders'[trade].size = record.size
    BY <1>1, <2>1, <2>2
  <2>5. QED
    BY <1>1, <1>2, <1>3, <2>1, <2>2, <2>3, <2>4, WorkStep
<1>4. CASE UNCHANGED orders /\ pc' = "recheck"
  BY <1>1, <1>4, MoveOn DEF venue
<1>5. QED
  BY <1>3, <1>4

\* After a cancel that raised, a state without exposure is not believed.
LEMMA RecheckEntryKeeps ==
    ASSUME IInv, RecheckEntry, told' = [told EXCEPT ![trade] = record']
    PROVE  IInv'
<1>1. PICK read \in ReadOrder :
         Return(IF read.state \in HasExposure THEN read ELSE [read EXCEPT !.state = "unknown"])
  BY DEF RecheckEntry
<1>2. pc \in EntryStates \ {"place"} /\ UNCHANGED <<trade, venue>>
  BY DEF RecheckEntry, EntryStates
<1>3. CASE read.state \in HasExposure
  BY <1>1, <1>2, <1>3, ReadIsTrue, ReturnStep DEF HasExposure
<1>4. CASE read.state \notin HasExposure
  <2> DEFINE doubt == [read EXCEPT !.state = "unknown"]
  <2>1. read \in Record /\ read.size = record.size /\ Real(read, orders[trade])
    BY <1>2, ReadIsTrue
  <2>2. /\ doubt \in Record /\ doubt.size = read.size /\ doubt.filled = read.filled
        /\ doubt.state = "unknown"
    BY <2>1 DEF Record, OrderStates, HasExposure
  <2>3. Return(doubt)
    BY <1>1, <1>4
  <2> HIDE DEF doubt
  <2>4. Settled(doubt, orders[trade]) /\ Real(doubt, orders[trade])
    BY <2>1, <2>2 DEF Settled, Real, HasExposure
  <2>5. QED
    BY <1>2, <2>1, <2>2, <2>3, <2>4, ReturnStep
<1>5. QED
  BY <1>3, <1>4

\* After a cancel that was accepted, the order is dead and its fills are final.
LEMMA RereadEntryKeeps ==
    ASSUME IInv, RereadEntry, told' = [told EXCEPT ![trade] = record']
    PROVE  IInv'
<1>1. PICK read \in ReadOrder :
         Return(IF read.state = "cancelled" /\ read.filled = 0
                THEN [read EXCEPT !.state = "expired"]
                ELSE read)
  BY DEF RereadEntry
<1>2. /\ pc \in EntryStates \ {"place"} /\ UNCHANGED <<trade, venue>>
      /\ orders[trade].status # "open"
  BY DEF RereadEntry, EntryStates, IInv, InHand
<1>3. /\ read \in Record /\ read.size = record.size /\ read.state # "none"
      /\ Settled(read, orders[trade]) /\ Real(read, orders[trade])
  BY <1>2, ReadIsTrue
<1>4. CASE ~(read.state = "cancelled" /\ read.filled = 0)
  BY <1>1, <1>2, <1>3, <1>4, ReturnStep
<1>5. CASE read.state = "cancelled" /\ read.filled = 0
  <2> DEFINE gone == [read EXCEPT !.state = "expired"]
  <2>1. /\ gone \in Record /\ gone.size = read.size /\ gone.filled = 0 /\ gone.state = "expired"
    BY <1>3, <1>5 DEF Record, OrderStates, Terminal
  <2>2. Return(gone)
    BY <1>1, <1>5
  <2> HIDE DEF gone
  <2>3. Settled(gone, orders[trade]) /\ Real(gone, orders[trade])
    BY <1>3, <1>5, <2>1 DEF Settled, Real, HasExposure
  <2>4. QED
    BY <1>2, <1>3, <2>1, <2>2, <2>3, ReturnStep
<1>6. QED
  BY <1>4, <1>5

\* Orders may lose life or gain fills, each in its own direction; told records stay
\* true of them.
LEMMA ExchangeStep ==
    ASSUME IInv, UNCHANGED <<manager, told>>, pos' \in Int, armed' \in BOOLEAN,
           triggers' \subseteq Trigger,
           orders' \in [Trades -> EntryOrder],
           \A n \in Trades :
              /\ Whole(orders'[n])
              /\ orders'[n].size = orders[n].size
              /\ orders'[n].status = "none" <=> orders[n].status = "none"
              /\ orders[n].status # "open" => orders'[n] = orders[n]
              /\ Abs(FilledOf(orders[n])) <= Abs(FilledOf(orders'[n]))
    PROVE  IInv'
<1> USE VenueAssumption DEF IInv, manager
<1>1. TypeOK'
  BY DEF TypeOK, ManagerTypeOK, VenueTypeOK
<1>2. OrdersAreWhole'
  BY DEF OrdersAreWhole
<1>3. BegunInOrder'
  BY DEF BegunInOrder, NoOrder
<1>4. InHand'
  BY DEF InHand, NoOrder
<1>5. NothingIsNothing'
  BY DEF NothingIsNothing, Settled
<1>6. RecordsAreReal'
  <2>1. SUFFICES ASSUME NEW n \in Trades
                 PROVE  Real(told[n], orders'[n])
    BY <2>1 DEF RecordsAreReal, Real
  <2>2. Real(told[n], orders[n])
    BY DEF RecordsAreReal, Real
  <2>3. /\ told[n] \in Record /\ orders[n] \in EntryOrder /\ orders'[n] \in EntryOrder
        /\ Whole(orders[n]) /\ Whole(orders'[n])
        /\ told[n].size \in {0, Size, -Size}
        /\ orders[n].status # "none" => orders[n].size = told[n].size
    BY DEF TypeOK, ManagerTypeOK, VenueTypeOK, OrdersAreWhole, BegunInOrder, NoRecord, Trades
  <2>4. ASSUME told[n].state = "filled"
        PROVE  FilledOf(orders'[n]) = told[n].size
    <3>1. FilledOf(orders[n]) = told[n].size
      BY <2>2, <2>4 DEF Real
    <3>2. orders[n].status # "open"
      BY <2>3, <3>1 DEF Whole, FilledOf, EntryOrder
    <3>3. QED
      BY <3>1, <3>2
  <2>5. /\ told[n].filled \in Int
        /\ FilledOf(orders[n]) \in Int /\ FilledOf(orders'[n]) \in Int
    BY <2>3 DEF Record, EntryOrder, FilledOf
  <2>6. Abs(told[n].filled) \in Int /\ Abs(FilledOf(orders[n])) \in Int /\ Abs(FilledOf(orders'[n])) \in Int
    BY <2>5 DEF Abs
  <2>7. QED
    BY <2>2, <2>4, <2>6 DEF Real
<1>7. QED
  BY <1>1, <1>2, <1>3, <1>4, <1>5, <1>6

\* The market takes some of a resting entry.
LEMMA FillKeeps ==
    ASSUME IInv, NEW m \in Trades, Fill(m), UNCHANGED <<manager, told>>
    PROVE  IInv'
<1> USE VenueAssumption
<1>1. /\ orders \in [Trades -> EntryOrder] /\ pos \in Int /\ armed \in BOOLEAN
      /\ triggers \subseteq Trigger /\ \A n \in Trades : Whole(orders[n])
  BY DEF IInv, TypeOK, ManagerTypeOK, VenueTypeOK, OrdersAreWhole
<1> DEFINE order == orders[m]
<1>2. order \in EntryOrder /\ Whole(order) /\ order.status = "open"
  BY <1>1 DEF Fill
<1>3. PICK k \in 1..Abs(order.left) :
         /\ orders' = [orders EXCEPT ![m].left = order.left - k * Sign(order.left),
                                    ![m].status = IF order.left - k * Sign(order.left) = 0
                                                  THEN "filled" ELSE @]
         /\ pos' = pos + k * Sign(order.left)
  BY DEF Fill
<1>4. PICK left \in Int :
         /\ left = order.left - k * Sign(order.left)
         /\ k * Sign(order.left) \in Int
         /\ order.size > 0 => 0 <= left /\ left < order.left
         /\ order.size < 0 => order.left < left /\ left <= 0
  BY <1>2 DEF Whole, Sign, Abs, EntryOrder
<1> DEFINE after == [status |-> IF left = 0 THEN "filled" ELSE "open",
                     size |-> order.size, left |-> left]
<1>5. orders'[m] = after /\ \A n \in Trades \ {m} : orders'[n] = orders[n]
  BY <1>1, <1>2, <1>3, <1>4 DEF EntryOrder
<1>6. order.size \in {Size, -Size} /\ order.left \in -Size..Size
  BY <1>2 DEF Whole, EntryOrder
<1>7. after \in EntryOrder /\ Whole(after)
  <2>1. left \in -Size..Size
    BY <1>2, <1>4, <1>6 DEF Whole
  <2>2. CASE left = 0
    BY <1>4, <1>6, <2>1, <2>2 DEF EntryOrder, Whole
  <2>3. CASE left # 0
    BY <1>2, <1>4, <1>6, <2>1, <2>3 DEF EntryOrder, Whole
  <2>4. QED
    BY <2>2, <2>3
<1>8. Abs(FilledOf(order)) <= Abs(FilledOf(after))
  BY <1>2, <1>4, <1>6 DEF Abs, FilledOf, Whole
<1>9. after.size = order.size /\ after.status # "none"
  OBVIOUS
<1> HIDE DEF after, order
<1>10. orders' \in [Trades -> EntryOrder]
  BY <1>1, <1>3, <1>5, <1>7
<1>11. \A n \in Trades :
          /\ Whole(orders'[n])
          /\ orders'[n].size = orders[n].size
          /\ orders'[n].status = "none" <=> orders[n].status = "none"
          /\ orders[n].status # "open" => orders'[n] = orders[n]
          /\ Abs(FilledOf(orders[n])) <= Abs(FilledOf(orders'[n]))
  BY <1>1, <1>2, <1>5, <1>7, <1>8, <1>9 DEF order, Abs, FilledOf, EntryOrder
<1>12. pos' \in Int /\ UNCHANGED <<triggers, armed>>
  BY <1>1, <1>3, <1>4 DEF Fill
<1>13. QED
  BY <1>1, <1>10, <1>11, <1>12, ExchangeStep

\* The countdown cancels every resting entry.
LEMMA CountdownExpiresKeeps ==
    ASSUME IInv, CountdownExpires, UNCHANGED <<manager, told>>
    PROVE  IInv'
<1> USE DEF CountdownExpires
<1>1. /\ orders \in [Trades -> EntryOrder] /\ pos' \in Int
      /\ \A n \in Trades : Whole(orders[n])
  BY DEF IInv, TypeOK, ManagerTypeOK, VenueTypeOK, OrdersAreWhole
<1>2. armed' \in BOOLEAN
  BY Zenon
<1>3. triggers' \subseteq Trigger
  OBVIOUS
<1>4. \A n \in Trades :
         /\ orders'[n] = Cancelled(orders[n])
         /\ Cancelled(orders[n]) \in EntryOrder
         /\ Whole(Cancelled(orders[n]))
         /\ Cancelled(orders[n]).size = orders[n].size
         /\ FilledOf(Cancelled(orders[n])) = FilledOf(orders[n])
         /\ orders[n].status # "open" => Cancelled(orders[n]) = orders[n]
  BY <1>1, CancelledOrder
<1>5. \A n \in Trades : orders[n].status = "open" => Cancelled(orders[n]).status = "cancelled"
  BY <1>1 DEF Cancelled, EntryOrder
<1>6. orders' \in [Trades -> EntryOrder]
  BY <1>4
<1>7. \A n \in Trades : Abs(FilledOf(orders[n])) <= Abs(FilledOf(orders'[n]))
  BY <1>1, <1>4 DEF Abs, FilledOf, EntryOrder
<1>8. \A n \in Trades : orders'[n].status = "none" <=> orders[n].status = "none"
  BY <1>4, <1>5
<1>9. QED
  BY <1>1, <1>2, <1>3, <1>4, <1>6, <1>7, <1>8, ExchangeStep

\* A step that changes nothing.
LEMMA StutterKeeps ==
    ASSUME IInv, UNCHANGED vars
    PROVE  IInv'
<1> USE DEF IInv, vars, venue, manager
<1>1. TypeOK'
  BY DEF TypeOK, ManagerTypeOK, VenueTypeOK
<1>2. OrdersAreWhole'
  BY DEF OrdersAreWhole
<1>3. BegunInOrder' /\ InHand'
  BY DEF BegunInOrder, InHand
<1>4. NothingIsNothing'
  BY DEF NothingIsNothing
<1>5. RecordsAreReal'
  BY DEF RecordsAreReal
<1>6. QED
  BY <1>1, <1>2, <1>3, <1>4, <1>5

(***************************************************************************)
(* The theorems.                                                           *)
(***************************************************************************)

\* The inductive invariant holds in every reachable state.
THEOREM Invariance == Spec => []IInv
<1>1. Init => IInv
  BY InitIInv
<1>2. IInv /\ [Next]_vars => IInv'
  <2> SUFFICES ASSUME IInv, [Next]_vars
               PROVE  IInv'
    OBVIOUS
  <2>1. CASE NextEntry /\ told' = [told EXCEPT ![trade'] = record']
    BY <2>1, NextEntryStep
  <2>2. CASE Work
    <3> told' = [told EXCEPT ![trade] = record']
      BY <2>2 DEF Work
    <3>1. CASE PlaceEntry
      BY <3>1, PlaceEntryKeeps
    <3>2. CASE PollEntry
      BY <3>2, PollEntryKeeps
    <3>3. CASE CancelEntry
      BY <3>3, CancelEntryKeeps
    <3>4. CASE RecheckEntry
      BY <3>4, RecheckEntryKeeps
    <3>5. CASE RereadEntry
      BY <3>5, RereadEntryKeeps
    <3>6. QED
      BY <2>2, <3>1, <3>2, <3>3, <3>4, <3>5 DEF Work, EntryStep
  <2>3. CASE Exchange /\ UNCHANGED <<manager, told>>
    BY <2>3, FillKeeps, CountdownExpiresKeeps DEF Exchange
  <2>4. CASE UNCHANGED vars
    BY <2>4, StutterKeeps
  <2>5. QED
    BY <2>1, <2>2, <2>3, <2>4 DEF Next
<1>3. QED
  BY <1>1, <1>2, PTL DEF Spec

\* Every variable of the entry path keeps its type: a state read back is one
\* OrderState knows, and no record holds more than a whole entry.
THEOREM TypeCorrect == Spec => []TypeOK
<1>1. IInv => TypeOK
  BY DEF IInv
<1>2. QED
  BY <1>1, Invariance, PTL

\* A record handed to the caller of submit_entry never claims more than the
\* exchange has, whatever fails and however fills race the cancel.
THEOREM RecordsHold == Spec => []RecordsAreReal
<1>1. IInv => RecordsAreReal
  BY DEF IInv
<1>2. QED
  BY <1>1, Invariance, PTL

(***************************************************************************)
(* EntryLifecycle implements EntryPromise: every step of submit_entry and  *)
(* of the exchange is a step of the promise or is not seen by it.          *)
(***************************************************************************)

\* What the refinement mapping reads off an order.
LEMMA BoughtOf ==
    ASSUME IInv, NEW n \in Trades
    PROVE  /\ FilledOf(orders[n]) \in Int
           /\ Abs(FilledOf(orders[n])) \in 0..Size
           /\ Abs(FilledOf(orders[n])) = 0 <=> FilledOf(orders[n]) = 0
<1>1. orders[n] \in EntryOrder /\ Whole(orders[n])
  BY DEF IInv, TypeOK, ManagerTypeOK, VenueTypeOK, OrdersAreWhole
<1>2. CASE orders[n].status = "none"
  BY <1>1, <1>2, VenueAssumption DEF Whole, NoOrder, Abs, FilledOf
<1>3. CASE orders[n].status # "none"
  BY <1>1, <1>3, VenueAssumption DEF Whole, Abs, FilledOf, EntryOrder
<1>4. QED
  BY <1>2, <1>3

\* Nothing was asked for and nothing bought.
LEMMA InitMaps == Init => Promise!Init
<1> SUFFICES ASSUME Init PROVE Promise!Init
  OBVIOUS
<1> USE VenueAssumption DEF Init, VenueInit, ManagerInit
<1>1. \A n \in Trades : Answer(n) = "none"
  BY DEF Answer, HasExposure, Trades
<1>2. \A n \in Trades : Abs(FilledOf(orders[n])) = 0 /\ orders[n].status # "open"
  BY DEF NoOrder, FilledOf, Abs
<1>3. \A n \in Trades : (orders[n].status = "open") = FALSE
  BY <1>2
<1>4. QED
  BY <1>1, <1>2, <1>3 DEF Promise!Init, Promise!Entries, Trades

\* submit_entry is called.
LEMMA NextEntryMaps ==
    ASSUME IInv, NextEntry, told' = [told EXCEPT ![trade'] = record']
    PROVE  Promise!Next
<1>1. PICK direction \in Directions : SubmitEntry(direction)
  BY DEF NextEntry
<1>2. PICK m \in Trades : m = trade + 1
  BY <1>1, VenueAssumption DEF SubmitEntry, IInv, TypeOK, ManagerTypeOK, Trades
<1>3. /\ trade \in 0..MaxTrades /\ trade' = m /\ m \in Int
      /\ record'.state = "none" /\ pc' = "place"
      /\ UNCHANGED orders
      /\ \A n \in Trades : told'[n] = IF n = m THEN record' ELSE told[n]
  BY <1>1, <1>2, VenueAssumption
     DEF NextEntry, SubmitEntry, IInv, TypeOK, ManagerTypeOK, Trades, NoRecord
<1>4. Answer(m) = "none" /\ Answer(m)' = "waiting"
  BY <1>2, <1>3 DEF Answer, HasExposure, EntryStates
<1>5. \A n \in Trades : n # m => Answer(n)' = Answer(n)
  <2>1. SUFFICES ASSUME NEW n \in Trades, n # m
                 PROVE  Answer(n)' = Answer(n)
    OBVIOUS
  <2>2. n = trade /\ told[n].state = "none" => pc = "raised"
    BY DEF NextEntry, IInv, InHand, Trades
  <2>3. pc \notin EntryStates
    BY DEF NextEntry, EntryStates
  <2>4. n \in Int /\ told'[n] = told[n]
    BY <1>3, <2>1, VenueAssumption DEF Trades
  <2>5. QED
    BY <1>2, <1>3, <2>1, <2>2, <2>3, <2>4 DEF Answer, HasExposure
<1>6. Promise!Submit(m)
  BY <1>3, <1>4, <1>5 DEF Promise!Submit
<1>7. QED
  BY <1>6 DEF Promise!Next, Promise!Entries, Trades

\* The countdown ends every entry that was still resting.
LEMMA CountdownExpiresMaps ==
    ASSUME IInv, CountdownExpires, UNCHANGED <<manager, told>>
    PROVE  Promise!Next
<1>1. orders \in [Trades -> EntryOrder]
  BY DEF IInv, TypeOK, ManagerTypeOK, VenueTypeOK
<1>2. \A n \in Trades : orders'[n].status # "open" /\ FilledOf(orders'[n]) = FilledOf(orders[n])
  BY <1>1 DEF CountdownExpires, Cancelled, FilledOf, EntryOrder
<1>3. \A n \in Trades : Answer(n)' = Answer(n)
  BY DEF Answer, HasExposure, manager
<1>4. Promise!Die
  BY <1>2, <1>3 DEF Promise!Die, Promise!Entries, Trades
<1>5. QED
  BY <1>4 DEF Promise!Next

\* What every call of submit_entry looks like from outside: one entry was waiting,
\* and its answer, if any, is true.
LEMMA WorkFrame ==
    ASSUME IInv, IInv', Work, NEW m \in Trades, m = trade
    PROVE  /\ Answer(m) = "waiting"
           /\ Answer(m)' \in {"waiting", "raised", "exposed", "nothing"}
           /\ Answer(m)' = "nothing" => orders'[m].status # "open" /\ FilledOf(orders'[m]) = 0
           /\ Answer(m)' = "waiting" <=> pc' \in EntryStates
           /\ \A n \in Trades : n # m => Answer(n)' = Answer(n)
<1>1. /\ trade' = m /\ m \in Int /\ pc \in EntryStates /\ told[m].state = "none"
      /\ \A n \in Trades : n # m => told'[n] = told[n]
  BY VenueAssumption
     DEF Work, EntryStep, PlaceEntry, PollEntry, CancelEntry, RecheckEntry, RereadEntry,
         IInv, InHand, EntryStates, TypeOK, Trades
<1>2. pc' \in EntryStates => told'[m].state = "none"
  BY <1>1 DEF IInv, InHand, EntryStates
<1>3. Answer(m) = "waiting"
  BY <1>1 DEF Answer, HasExposure
<1>4. \A n \in Trades : n # m => Answer(n)' = Answer(n)
  <2>1. SUFFICES ASSUME NEW n \in Trades, n # m PROVE Answer(n)' = Answer(n)
    OBVIOUS
  <2>2. told'[n] = told[n]
    BY <1>1, <2>1
  <2>3. QED
    BY <1>1, <2>1, <2>2 DEF Answer, HasExposure
<1>5. /\ Answer(m)' \in {"waiting", "raised", "exposed", "nothing"}
      /\ Answer(m)' = "waiting" <=> pc' \in EntryStates
      /\ Answer(m)' = "nothing" => told'[m].state \notin HasExposure \cup {"none"}
  BY <1>1, <1>2 DEF Answer, HasExposure
<1>6. told'[m].size # 0 /\ Settled(told'[m], orders'[m])
  BY <1>1, VenueAssumption DEF IInv, BegunInOrder, NothingIsNothing
<1>7. QED
  BY <1>3, <1>4, <1>5, <1>6 DEF Settled

\* A call that leaves the orders alone answers, or is not seen.
LEMMA AnswerMaps ==
    ASSUME IInv, IInv', Work, UNCHANGED orders
    PROVE  Promise!Next \/ UNCHANGED Promise!promise
<1>1. PICK m \in Trades : m = trade
  BY DEF Work, EntryStep, PlaceEntry, PollEntry, CancelEntry, RecheckEntry, RereadEntry, IInv,
         InHand
<1>2. CASE Answer(m)' = "waiting"
  <2>1. \A n \in Trades : Answer(n)' = Answer(n)
    BY <1>1, <1>2, WorkFrame
  <2>2. QED
    BY <2>1 DEF Promise!promise
<1>3. CASE Answer(m)' # "waiting"
  <2>1. Answer(m)' = "nothing" => Abs(FilledOf(orders[m])) = 0 /\ orders[m].status # "open"
    BY <1>1, WorkFrame, BoughtOf
  <2>2. Promise!Answer(m)
    BY <1>1, <1>3, <2>1, WorkFrame DEF Promise!Answer
  <2>3. QED
    BY <2>2 DEF Promise!Next, Promise!Entries, Trades
<1>4. QED
  BY <1>2, <1>3

\* The exchange takes the order, or cancels it as it arrives.
LEMMA AcceptMaps ==
    ASSUME IInv, IInv', Work, PlaceEntry, Accept(trade, record.size)
    PROVE  Promise!Next \/ UNCHANGED Promise!promise
<1>1. PICK m \in Trades : m = trade
  BY DEF PlaceEntry, IInv, InHand
<1>2. /\ orders[m] = NoOrder /\ FilledOf(orders'[m]) = 0
      /\ \A n \in Trades : n # m => orders'[n] = orders[n]
  BY <1>1, AcceptedOrder DEF PlaceEntry, IInv, InHand
<1>3. Abs(FilledOf(orders[m])) = 0 /\ Abs(FilledOf(orders'[m])) = 0
  BY <1>2 DEF NoOrder, FilledOf, Abs
<1>4. CASE orders'[m].status = "open"
  <2>1. Answer(m)' # "nothing"
    BY <1>1, <1>4, WorkFrame
  <2>2. Promise!Rest(m)
    BY <1>1, <1>2, <1>3, <1>4, <2>1, WorkFrame DEF Promise!Rest
  <2>3. QED
    BY <2>2 DEF Promise!Next, Promise!Entries, Trades
<1>5. CASE orders'[m].status # "open"
  <2>1. \A n \in Trades : /\ (orders'[n].status = "open") = (orders[n].status = "open")
                         /\ Abs(FilledOf(orders'[n])) = Abs(FilledOf(orders[n]))
    BY <1>2, <1>3, <1>5 DEF NoOrder
  <2>2. CASE Answer(m)' = "waiting"
    <3>1. \A n \in Trades : Answer(n)' = Answer(n)
      BY <1>1, <2>2, WorkFrame
    <3>2. QED
      BY <2>1, <3>1 DEF Promise!promise
  <2>3. CASE Answer(m)' # "waiting"
    <3>1. Promise!Answer(m)
      BY <1>1, <1>2, <1>3, <1>5, <2>1, <2>3, WorkFrame DEF Promise!Answer, NoOrder
    <3>2. QED
      BY <3>1 DEF Promise!Next, Promise!Entries, Trades
  <2>4. QED
    BY <2>2, <2>3
<1>6. QED
  BY <1>4, <1>5

\* A cancel that took effect.
LEMMA WithdrawMaps ==
    ASSUME IInv, IInv', Work, CancelEntry, Withdraw(trade), pc' \in EntryStates
    PROVE  Promise!Next
<1>1. PICK m \in Trades : m = trade
  BY DEF CancelEntry, IInv, InHand
<1>2. \A n \in Trades : orders[n] \in EntryOrder /\ Whole(orders[n])
  BY DEF IInv, TypeOK, ManagerTypeOK, VenueTypeOK, OrdersAreWhole
<1>3. \A n \in Trades : orders'[n] = IF n = m THEN Cancelled(orders[n]) ELSE orders[n]
  BY <1>1 DEF Withdraw, IInv, TypeOK, ManagerTypeOK, VenueTypeOK
<1>4. \A n \in Trades : FilledOf(orders'[n]) = FilledOf(orders[n])
  BY <1>2, <1>3, CancelledOrder
<1>5. orders'[m].status # "open"
  BY <1>2, <1>3, CancelledOrder
<1>6. \A n \in Trades : Answer(n)' = Answer(n)
  BY <1>1, WorkFrame
<1>7. \A n \in Trades :
         (orders'[n].status = "open") = (orders[n].status = "open" /\ n \notin {m})
  BY <1>3, <1>5
<1>8. {m} \in SUBSET Promise!Entries
  BY DEF Promise!Entries, Trades
<1>9. Promise!Die
  BY <1>4, <1>6, <1>7, <1>8 DEF Promise!Die, Promise!Entries, Trades
<1>10. QED
  BY <1>9 DEF Promise!Next

\* The market buys for a resting entry.
LEMMA FillMaps ==
    ASSUME IInv, IInv', NEW m \in Trades, Fill(m), UNCHANGED <<manager, told>>
    PROVE  Promise!Next
<1> USE VenueAssumption
<1>1. \A n \in Trades : Answer(n)' = Answer(n)
  BY DEF Answer, HasExposure, manager
<1>2. orders \in [Trades -> EntryOrder] /\ orders[m] \in EntryOrder /\ Whole(orders[m])
  BY DEF IInv, TypeOK, ManagerTypeOK, VenueTypeOK, OrdersAreWhole
<1>3. PICK k \in 1..Abs(orders[m].left) :
         orders' = [orders EXCEPT ![m].left = orders[m].left - k * Sign(orders[m].left),
                                  ![m].status = IF orders[m].left - k * Sign(orders[m].left) = 0
                                                THEN "filled" ELSE @]
  BY DEF Fill
<1>4. \A n \in Trades : n # m => orders'[n] = orders[n]
  BY <1>2, <1>3
<1>5. /\ orders[m].status = "open"
      /\ orders'[m].size = orders[m].size
      /\ orders'[m].left = orders[m].left - k * Sign(orders[m].left)
      /\ orders'[m].status = "open" <=> orders'[m].left # 0
  BY <1>2, <1>3 DEF Fill, EntryOrder
<1>6. orders[m].size \in {Size, -Size} /\ orders[m].left \in Int /\ k \in Int
  BY <1>2, <1>5 DEF Whole, EntryOrder
<1>7. orders'[m].left = IF orders[m].size > 0 THEN orders[m].left - k ELSE orders[m].left + k
  BY <1>2, <1>5, <1>6 DEF Whole, Sign
<1> DEFINE before == Abs(FilledOf(orders[m]))
           after == Abs(FilledOf(orders'[m]))
<1>8. /\ k \in 1..(Size - before) /\ after = before + k
      /\ orders'[m].left # 0 <=> after < Size
  BY <1>2, <1>5, <1>6, <1>7 DEF Abs, FilledOf, Whole
<1>9. (orders'[m].status = "open") = (after < Size)
  BY <1>5, <1>8
<1>10. Promise!Buy(m)
  <2>1. [n \in Trades |-> Abs(FilledOf(orders[n]))]'
           = [[n \in Trades |-> Abs(FilledOf(orders[n]))] EXCEPT ![m] = @ + k]
    BY <1>4, <1>8
  <2>2. [n \in Trades |-> orders[n].status = "open"]'
           = [[n \in Trades |-> orders[n].status = "open"] EXCEPT ![m] = (after < Size)]
    BY <1>4, <1>9
  <2>3. [n \in Trades |-> Abs(FilledOf(orders[n]))]'[m] = after
    OBVIOUS
  <2>4. QED
    BY <1>1, <1>5, <1>8, <2>1, <2>2, <2>3 DEF Promise!Buy
<1>11. QED
  BY <1>10 DEF Promise!Next, Promise!Entries, Trades

(***************************************************************************)
(* The theorem.                                                            *)
(***************************************************************************)

\* submit_entry keeps its promise whatever fails and however fills race the deadline
\* and the cancel: "expired", "cancelled" or "rejected" is answered only for an entry
\* that bought nothing and can buy nothing any more.
THEOREM PromiseKept == Spec => KeepsPromise
<1>1. Init => Promise!Init
  BY InitMaps
<1>2. IInv /\ IInv' /\ [Next]_vars => [Promise!Next]_(Promise!promise)
  <2> SUFFICES ASSUME IInv, IInv', [Next]_vars
               PROVE  Promise!Next \/ UNCHANGED Promise!promise
    OBVIOUS
  <2>1. CASE NextEntry /\ told' = [told EXCEPT ![trade'] = record']
    BY <2>1, NextEntryMaps
  <2>2. CASE Work
    <3>1. CASE UNCHANGED orders
      BY <2>2, <3>1, AnswerMaps
    <3>2. CASE PlaceEntry /\ ~UNCHANGED orders
      BY <2>2, <3>2, AcceptMaps DEF PlaceEntry
    <3>3. CASE CancelEntry /\ ~UNCHANGED orders
      BY <2>2, <3>3, WithdrawMaps DEF CancelEntry, EntryStates
    <3>4. QED
      BY <2>2, <3>1, <3>2, <3>3
         DEF Work, EntryStep, PollEntry, RecheckEntry, RereadEntry, venue
  <2>3. CASE Exchange /\ UNCHANGED <<manager, told>>
    BY <2>3, FillMaps, CountdownExpiresMaps DEF Exchange
  <2>4. CASE UNCHANGED vars
    BY <2>4 DEF vars, venue, manager, Promise!promise, Answer
  <2>5. QED
    BY <2>1, <2>2, <2>3, <2>4 DEF Next
<1>3. QED
  BY <1>1, <1>2, Invariance, PTL DEF Spec, KeepsPromise, Promise!Spec
================================================================================
