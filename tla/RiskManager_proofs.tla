--------------------------- MODULE RiskManager_proofs --------------------------
(***************************************************************************)
(* Theorems about RiskManager for every value of its constants, with the   *)
(* control panel used only while the bot is stopped.                       *)
(***************************************************************************)
EXTENDS RiskManager, TLAPS

(***************************************************************************)
(* The inductive invariant.  WriteThrough makes the file speak for the     *)
(* running bot; the others say what the file remembers of the history.     *)
(***************************************************************************)

\* The file still holds every manual latch set off since its reset.
HaltsAreStored == \A b \in ManualResetOnly : haltDay[b] # -1 => b \in store.switches

\* The file's high-water mark is the true one.
MarkIsStored == highWater = IF store.state = NoState THEN 0 ELSE store.state.peak

\* The file remembers the last trade recorded to completion.
CloseIsStored ==
    lastClose.won # "none" =>
        /\ store.state # NoState
        /\ store.state.lastTime = lastClose.time
        /\ store.state.lastWon = lastClose.won

\* A bot that could not load believes nothing; neither does a stopped one.
BlindIsEmpty == ~up \/ unreadable => mem = Empty /\ ~holding

\* The panel works on the file as it is, and alone.
PanelIsAlone == open => ~up /\ panel \in {store, Empty}

\* What an allowed answer was based on.
AllowedIsClear ==
    decision = "allowed" =>
        /\ up /\ ~unreadable
        /\ mem.state # NoState
        /\ mem.switches = {}
        /\ ~Breached(mem.state.peak, mem.state.equity, MaxDrawdown)
        /\ ~Cooling(mem.state, clock)

HoldingIsSeen == holding => mem.state # NoState

IInv ==
    /\ TypeOK
    /\ WriteThrough
    /\ HaltsAreStored
    /\ MarkIsStored
    /\ CloseIsStored
    /\ BlindIsEmpty
    /\ PanelIsAlone
    /\ AllowedIsClear
    /\ HoldingIsSeen

(***************************************************************************)
(* What the operators return.                                              *)
(***************************************************************************)

\* A clock reading lies in a day.
LEMMA DayType == ASSUME NEW t \in Nat PROVE Day(t) \in Nat
  BY RiskAssumption DEF Day

\* An observation yields a state, whatever the manager held.
LEMMA ObservedType ==
  ASSUME NEW m \in Image, NEW now \in Nat, NEW equity \in Nat
  PROVE  Observed(m, now, equity) \in State
  <1>1. Day(now) \in Nat
    BY DayType
  <1>2. CASE m.state = NoState
    BY <1>1, <1>2 DEF Observed, FirstState, State
  <1>3. CASE m.state # NoState
    <2>1. m.state \in State
      BY <1>3 DEF Image
    <2>2. Larger(m.state.peak, equity) \in Nat
      BY <2>1 DEF State, Larger
    <2>3. QED
      BY <1>1, <1>3, <2>1, <2>2 DEF Observed, State
  <1>4. QED
    BY <1>2, <1>3

\* A closed trade yields a state.
LEMMA ClosedType ==
  ASSUME NEW s \in State, NEW now \in Nat, NEW pnl \in {-1, 0, 1}
  PROVE  Closed(s, now, pnl) \in State
  <1> DEFINE streak == IF pnl < 0 THEN s.streak + 1 ELSE IF pnl > 0 THEN 0 ELSE s.streak
             won == IF pnl > 0 THEN "won" ELSE "lost"
  <1>1. streak \in Nat /\ won \in {"none", "won", "lost"}
    BY DEF State
  <1>2. Closed(s, now, pnl) =
          [s EXCEPT !.streak = streak, !.lastTime = now, !.lastWon = won, !.updated = now]
    BY DEF Closed
  <1> HIDE DEF streak, won
  <1>3. QED
    BY <1>1, <1>2 DEF State

\* A store write yields an image, and so does a torn one.
LEMMA WrittenType ==
  ASSUME NEW image \in Image, NEW clears, NEW trips \in SUBSET Latching,
         NEW s \in State \cup {NoState}
  PROVE  Written(image, clears, trips, s) \in Image
  BY DEF Written, Image

LEMMA TornType ==
  ASSUME NEW image \in Image, NEW clears, NEW trips \in SUBSET Latching
  PROVE  \A x \in Torn(image, clears, trips) :
           x \in Image /\ x.state = image.state
  BY DEF Torn, Prefixes, Image

LEMMA ObservationType ==
  ASSUME NEW image \in Image, NEW m \in Image, NEW now \in Nat, NEW equity \in Nat
  PROVE  /\ Observation(image, m, now, equity) \in Image
         /\ Observation(image, m, now, equity).state = Observed(m, now, equity)
         /\ Tripped(m, now, equity) \in SUBSET Latching
  <1>1. Tripped(m, now, equity) \in SUBSET Latching
    BY DEF Tripped, Latching, DayLatches, ManualResetOnly
  <1>2. Observed(m, now, equity) \in State
    BY ObservedType
  <1>3. QED
    BY <1>1, <1>2, WrittenType DEF Observation, Written

LEMMA RecordType ==
  ASSUME NEW image \in Image, NEW m \in Image, NEW now \in Nat, NEW pnl \in {-1, 0, 1},
         m.state # NoState
  PROVE  /\ Record(image, m, now, pnl) \in Image
         /\ Record(image, m, now, pnl).state = Closed(m.state, now, pnl)
         /\ StreakTrip(m, Closed(m.state, now, pnl)) \in SUBSET Latching
  <1>1. m.state \in State
    BY DEF Image
  <1>2. Closed(m.state, now, pnl) \in State
    BY <1>1, ClosedType
  <1>3. StreakTrip(m, Closed(m.state, now, pnl)) \in SUBSET Latching
    BY DEF StreakTrip, Latching, DayLatches
  <1>4. QED
    BY <1>2, <1>3, WrittenType DEF Record, Written

\* An answer is a permission or one of the refusals.
LEMMA VerdictType ==
  ASSUME NEW m \in Image, NEW now, NEW positions \in Nat, NEW held \in BOOLEAN
  PROVE  /\ Verdict(m, now, positions, held) \in Refusals \cup {"allowed"}
         /\ Verdict(m, now, positions, held) = "allowed" =>
              m.switches = {} /\ ~Cooling(m.state, now)
  <1>1. CASE m.switches # {}
    <2> DEFINE Worst(b) ==
          \/ b = "drawdown"
          \/ b = "daily_loss" /\ "drawdown" \notin m.switches
          \/ b = "consecutive_losses" /\ m.switches \cap {"drawdown", "daily_loss"} = {}
          \/ m.switches = {"manual"}
    <2>1. m.switches \subseteq {"daily_loss", "consecutive_losses", "drawdown", "manual"}
      BY DEF Image, Latching, DayLatches, ManualResetOnly
    <2>2. \E b \in m.switches : Worst(b)
      BY <1>1, <2>1
    <2>3. MostSevere(m.switches) \in m.switches
      BY <2>2 DEF MostSevere
    <2>4. Verdict(m, now, positions, held) = MostSevere(m.switches)
      BY <1>1 DEF Verdict
    <2>5. QED
      BY <2>1, <2>3, <2>4 DEF Refusals, Latching, DayLatches, ManualResetOnly
  <1>2. CASE m.switches = {}
    BY <1>2, RiskAssumption DEF Verdict, Refusals
  <1>3. QED
    BY <1>1, <1>2

\* What an observation keeps of the state it updates.
LEMMA ObservedKeeps ==
  ASSUME NEW m \in Image, NEW now \in Nat, NEW equity \in Nat
  PROVE  LET s == Observed(m, now, equity) IN
         /\ s # NoState
         /\ s.equity = equity
         /\ m.state = NoState => s.peak = equity /\ s.lastWon = "none"
         /\ m.state # NoState =>
              /\ s.peak = Larger(m.state.peak, equity)
              /\ s.lastTime = m.state.lastTime
              /\ s.lastWon = m.state.lastWon
  <1>1. Observed(m, now, equity) # NoState
    BY ObservedType, NoStateAssumption
  <1>2. CASE m.state = NoState
    BY <1>1, <1>2 DEF Observed, FirstState
  <1>3. CASE m.state # NoState
    <2>1. m.state \in State
      BY <1>3 DEF Image
    <2>2. QED
      BY <1>1, <1>3, <2>1 DEF Observed, State
  <1>4. QED
    BY <1>2, <1>3

\* What recording a close changes and keeps.
LEMMA ClosedKeeps ==
  ASSUME NEW s \in State, NEW now \in Nat, NEW pnl \in {-1, 0, 1}
  PROVE  /\ Closed(s, now, pnl) # NoState
         /\ Closed(s, now, pnl).peak = s.peak
         /\ Closed(s, now, pnl).lastTime = now
         /\ Closed(s, now, pnl).lastWon = IF pnl > 0 THEN "won" ELSE "lost"
  <1>1. Closed(s, now, pnl) # NoState
    BY ClosedType, NoStateAssumption
  <1>2. QED
    BY <1>1 DEF Closed, State

\* Manual latches are neither cleared nor lost by an observation, nor by a torn one.
LEMMA ManualLatchesStay ==
  ASSUME NEW image \in Image, NEW m \in Image, NEW now \in Nat, NEW equity \in Nat,
         NEW b \in ManualResetOnly, b \in image.switches
  PROVE  /\ b \in Observation(image, m, now, equity).switches
         /\ \A x \in TornObservation(image, m, now, equity) : b \in x.switches
  <1>1. b \notin Cleared(m, now)
    BY DEF Cleared, DayLatches, ManualResetOnly
  <1>2. b \in Observation(image, m, now, equity).switches
    BY <1>1 DEF Observation, Written
  <1>3. ASSUME NEW x \in TornObservation(image, m, now, equity)
        PROVE  b \in x.switches
    BY <1>1 DEF TornObservation, Torn, Prefixes, Image
  <1>4. QED
    BY <1>2, <1>3

LEMMA ManualLatchesStayRecorded ==
  ASSUME NEW image \in Image, NEW m, NEW now, NEW pnl, NEW b \in image.switches
  PROVE  /\ b \in Record(image, m, now, pnl).switches
         /\ \A x \in TornRecord(image, m, now, pnl) : b \in x.switches
  BY DEF Record, Written, TornRecord, Torn, Prefixes, Image

\* An answer of "allowed" after an observation means the drawdown is inside its limit.
LEMMA AllowedIsInside ==
  ASSUME NEW m \in Image, NEW now \in Nat, NEW equity \in Nat,
         Observation(m, m, now, equity).switches = {}
  PROVE  LET s == Observation(m, m, now, equity).state IN
         ~Breached(s.peak, s.equity, MaxDrawdown)
  <1>1. Tripped(m, now, equity) = {} /\ m.switches \ Cleared(m, now) = {}
    BY DEF Observation, Written
  <1>2. ~Breached(Observed(m, now, equity).peak, Observed(m, now, equity).equity, MaxDrawdown)
    BY <1>1 DEF Tripped
  <1>3. QED
    BY <1>2 DEF Observation, Written

--------------------------------------------------------------------------------

(***************************************************************************)
(* The invariant is inductive: one lemma per kind of step.                 *)
(***************************************************************************)
USE RiskAssumption, NoStateAssumption

LEMMA InitIInv == Init => IInv
  <1> SUFFICES ASSUME Init PROVE IInv
    OBVIOUS
  <1> USE DEF Init
  <1>1. Empty \in Image /\ Empty.state = NoState
    BY DEF Empty, Image
  <1>2. TypeOK
    <2>1. clock \in 1..MaxTime /\ lastClose \in [time : Nat, won : {"none", "won", "lost"}]
      OBVIOUS
    <2>2. haltDay \in [Latching -> Nat \cup {-1}]
      OBVIOUS
    <2>3. QED
      BY <1>1, <2>1, <2>2 DEF TypeOK
  <1>3. HaltsAreStored
    BY DEF HaltsAreStored, Latching, ManualResetOnly
  <1>4. QED
    BY <1>1, <1>2, <1>3 DEF IInv, WriteThrough, MarkIsStored, CloseIsStored,
       BlindIsEmpty, PanelIsAlone, AllowedIsClear, HoldingIsSeen

\* Starting, stopping, entering and refusing outright leave file and history alone.
LEMMA ProcessSteps ==
  ASSUME IInv, ~PanelWhileRunning,
         Start \/ Crash \/ Enter \/ \E equity \in Equities : RefuseOutright(equity)
  PROVE  IInv'
  <1> USE DEF IInv, TypeOK, WriteThrough, HaltsAreStored, MarkIsStored, CloseIsStored,
              BlindIsEmpty, PanelIsAlone, AllowedIsClear, HoldingIsSeen, history, desk, bot
  <1>0. Empty \in Image
    BY DEF Empty, Image
  <1>1. CASE Start
    <2> USE <1>1 DEF Start
    <2>1. PICK failed \in BOOLEAN :
            unreadable' = failed /\ mem' = IF failed THEN Empty ELSE store
      OBVIOUS
    <2>2. mem' \in Image /\ (~unreadable' => mem' = store) /\ (unreadable' => mem' = Empty)
      BY <1>0, <2>1
    <2>3. TypeOK'
      BY <2>1, <2>2 DEF Refusals
    <2>4. ~open
      OBVIOUS
    <2>5. QED
      BY <2>2, <2>3, <2>4
  <1>2. CASE Crash
    BY <1>0, <1>2 DEF Crash, Stopped, Refusals
  <1>3. CASE Enter
    BY <1>3 DEF Enter
  <1>4. CASE \E equity \in Equities : RefuseOutright(equity)
    BY <1>4 DEF RefuseOutright, Refusals
  <1>5. QED
    BY <1>1, <1>2, <1>3, <1>4

\* The ghost of the latches stays well typed.
LEMMA HaltsType ==
  ASSUME TypeOK, NEW before, NEW after, Halts(before, after)
  PROVE  /\ haltDay' \in [Latching -> Nat \cup {-1}]
         /\ \A b \in ManualResetOnly :
              haltDay'[b] # -1 => haltDay[b] # -1 \/ b \in after
  <1>1. Day(clock) \in Nat
    BY DayType DEF TypeOK
  <1>2. ManualResetOnly \subseteq Latching
    BY DEF Latching
  <1>3. QED
    BY <1>1, <1>2 DEF Halts, TypeOK

\* The wall clock is a natural number.
LEMMA ClockType == TypeOK => clock \in Nat
  BY DEF TypeOK

\* can_trade that observes: the file follows the bot, and the answer is about both.
LEMMA CanTradeStep ==
  ASSUME IInv, NEW equity \in Equities, NEW positions \in 0..MaxOpenPositions,
         NEW held \in BOOLEAN, CanTrade(equity, positions, held)
  PROVE  IInv'
  <1> USE DEF CanTrade
  <1> DEFINE seen == Observation(mem, mem, clock, equity)
  <1>1. /\ up /\ ~unreadable /\ ~open /\ store = mem
        /\ mem \in Image /\ clock \in Nat /\ equity \in Nat
    <2>1. up /\ ~unreadable
      BY DEF Unusable
    <2>2. ~open /\ store = mem
      BY <2>1 DEF IInv, WriteThrough, PanelIsAlone
    <2>3. mem \in Image /\ clock \in Nat
      BY ClockType DEF IInv, TypeOK
    <2>4. QED
      BY <2>1, <2>2, <2>3
  <1>2. mem' = seen /\ store' = seen
    BY <1>1
  <1>3. /\ seen \in Image
        /\ seen.state = Observed(mem, clock, equity)
    BY ONLY <1>1, ObservationType DEF seen
  <1>4. /\ seen.state # NoState
        /\ mem.state = NoState => seen.state.peak = equity /\ seen.state.lastWon = "none"
        /\ mem.state # NoState =>
             /\ seen.state.peak = Larger(mem.state.peak, equity)
             /\ seen.state.lastTime = mem.state.lastTime
             /\ seen.state.lastWon = mem.state.lastWon
    BY <1>1, <1>3, ObservedKeeps
  <1>5. /\ decision' \in Refusals \cup {"allowed"}
        /\ decision' = "allowed" => seen.switches = {} /\ ~Cooling(seen.state, clock)
    BY <1>2, <1>3, VerdictType
  <1>6. /\ haltDay' \in [Latching -> Nat \cup {-1}]
        /\ \A b \in ManualResetOnly : haltDay'[b] # -1 => haltDay[b] # -1 \/ b \in seen.switches
    BY <1>2, HaltsType DEF IInv
  <1> HIDE DEF seen
  <1>7. TypeOK'
    <2>1. highWater' \in Nat
      BY <1>1 DEF Larger, IInv, TypeOK
    <2>2. QED
      BY <1>2, <1>3, <1>5, <1>6, <2>1 DEF IInv, TypeOK, desk
  <1>8. HaltsAreStored'
    <2>1. ASSUME NEW b \in ManualResetOnly, haltDay'[b] # -1 PROVE b \in seen.switches
      <3>1. CASE haltDay[b] # -1
        BY <1>1, <3>1, ManualLatchesStay DEF IInv, HaltsAreStored, seen
      <3>2. CASE haltDay[b] = -1
        BY <1>6, <2>1, <3>2
      <3>3. QED
        BY <3>1, <3>2
    <2>2. QED
      BY <1>2, <2>1 DEF HaltsAreStored
  <1>9. MarkIsStored'
    <2>1. CASE mem.state = NoState
      BY <1>1, <1>2, <1>4, <2>1 DEF IInv, MarkIsStored, Larger
    <2>2. CASE mem.state # NoState
      BY <1>1, <1>2, <1>4, <2>2 DEF IInv, MarkIsStored
    <2>3. QED
      BY <2>1, <2>2
  <1>10. CloseIsStored'
    BY <1>1, <1>2, <1>4 DEF IInv, CloseIsStored
  <1>11. AllowedIsClear'
    <2>1. ASSUME decision' = "allowed"
          PROVE ~Breached(seen.state.peak, seen.state.equity, MaxDrawdown)
      BY <1>1, <1>5, <2>1, AllowedIsInside DEF seen
    <2>2. QED
      BY <1>1, <1>2, <1>4, <1>5, <2>1 DEF AllowedIsClear
  <1>12. WriteThrough' /\ BlindIsEmpty' /\ PanelIsAlone' /\ HoldingIsSeen'
    BY <1>1, <1>2, <1>4 DEF WriteThrough, BlindIsEmpty, PanelIsAlone, HoldingIsSeen, desk
  <1>13. QED
    BY <1>7, <1>8, <1>9, <1>10, <1>11, <1>12 DEF IInv

\* record_trade: the trade and the observation both reach the file.
LEMMA RecordTradeStep ==
  ASSUME IInv, NEW equity \in Equities, NEW pnl \in {-1, 0, 1}, RecordTrade(equity, pnl)
  PROVE  IInv'
  <1> USE DEF RecordTrade
  <1> DEFINE seen == Observation(mem, mem, clock, equity)
             done == Record(seen, seen, clock, pnl)
  <1>1. /\ up /\ ~unreadable /\ ~open /\ store = mem
        /\ mem \in Image /\ clock \in Nat /\ equity \in Nat /\ mem.state # NoState
    <2>1. up /\ ~unreadable /\ mem.state # NoState
      BY DEF IInv, BlindIsEmpty, HoldingIsSeen, TypeOK
    <2>2. ~open /\ store = mem
      BY <2>1 DEF IInv, WriteThrough, PanelIsAlone
    <2>3. mem \in Image /\ clock \in Nat
      BY ClockType DEF IInv, TypeOK
    <2>4. QED
      BY <2>1, <2>2, <2>3
  <1>2. mem' = done /\ store' = done
    BY <1>1
  <1>3. /\ seen \in Image
        /\ seen.state = Observed(mem, clock, equity)
        /\ seen.state \in State /\ seen.state # NoState
    <2>1. seen \in Image /\ seen.state = Observed(mem, clock, equity)
      BY <1>1, ObservationType
    <2>2. Observed(mem, clock, equity) \in State
      BY <1>1, ObservedType
    <2>3. QED
      BY <2>1, <2>2, NoStateAssumption
  <1>4. seen.state.peak = Larger(mem.state.peak, equity)
    BY <1>1, <1>3, ObservedKeeps
  <1> HIDE DEF seen
  <1>5. /\ done \in Image
        /\ done.state = Closed(seen.state, clock, pnl)
    BY ONLY <1>1, <1>3, RecordType DEF done
  <1>6. /\ done.state # NoState
        /\ done.state.peak = seen.state.peak
        /\ done.state.lastTime = clock
        /\ done.state.lastWon = IF pnl > 0 THEN "won" ELSE "lost"
    BY <1>1, <1>3, <1>5, ClosedKeeps
  <1>7. /\ haltDay' \in [Latching -> Nat \cup {-1}]
        /\ \A b \in ManualResetOnly : haltDay'[b] # -1 => haltDay[b] # -1 \/ b \in done.switches
    BY <1>2, HaltsType DEF IInv
  <1>8. HaltsAreStored'
    <2>1. ASSUME NEW b \in ManualResetOnly, haltDay'[b] # -1 PROVE b \in done.switches
      <3>1. CASE haltDay[b] # -1
        <4>1. b \in seen.switches
          BY <1>1, <3>1, ManualLatchesStay DEF IInv, HaltsAreStored, seen
        <4>2. QED
          BY <1>3, <4>1, ManualLatchesStayRecorded
      <3>2. CASE haltDay[b] = -1
        BY <1>7, <2>1, <3>2
      <3>3. QED
        BY <3>1, <3>2
    <2>2. QED
      BY <1>2, <2>1 DEF HaltsAreStored
  <1> HIDE DEF done
  <1>9. TypeOK'
    <2>1. highWater' \in Nat
      BY <1>1 DEF Larger, IInv, TypeOK
    <2>2. lastClose' \in [time : Nat, won : {"none", "won", "lost"}]
      BY <1>1
    <2>3. QED
      BY <1>2, <1>5, <1>7, <2>1, <2>2 DEF IInv, TypeOK, desk
  <1>10. MarkIsStored'
    BY <1>1, <1>2, <1>4, <1>6 DEF IInv, MarkIsStored
  <1>11. CloseIsStored'
    BY <1>2, <1>6 DEF CloseIsStored
  <1>12. WriteThrough' /\ BlindIsEmpty' /\ PanelIsAlone' /\ HoldingIsSeen' /\ AllowedIsClear'
    BY <1>1, <1>2, <1>6 DEF WriteThrough, BlindIsEmpty, PanelIsAlone, HoldingIsSeen,
       AllowedIsClear, desk
  <1>13. QED
    BY <1>8, <1>9, <1>10, <1>11, <1>12 DEF IInv

\* The process dies inside a call: the file is torn, and nothing true is lost.
LEMMA CrashInCallStep ==
  ASSUME IInv, NEW equity \in Equities, NEW pnl \in {-1, 0, 1}, CrashInCall(equity, pnl)
  PROVE  IInv'
  <1> DEFINE seen == Observation(mem, mem, clock, equity)
  <1>1. /\ store = mem /\ ~open
        /\ store \in Image /\ clock \in Nat /\ equity \in Nat
    <2>1. up /\ ~unreadable
      BY DEF CrashInCall
    <2>2. QED
      BY <2>1, ClockType DEF IInv, TypeOK, WriteThrough, PanelIsAlone
  <1>2. up' = FALSE /\ unreadable' = FALSE /\ mem' = Empty /\ holding' = FALSE
        /\ decision' = "none"
        /\ UNCHANGED <<clock, panel, open, lastClose, steppedBack>>
    BY DEF CrashInCall, Stopped, desk
  <1>3. /\ store' \in Image
        /\ haltDay' \in [Latching -> Nat \cup {-1}]
        /\ highWater' \in Nat
        /\ MarkIsStored' /\ CloseIsStored' /\ HaltsAreStored'
    <2>1. CASE /\ store' \in TornObservation(store, mem, clock, equity)
               /\ Halts(store.switches, store'.switches)
               /\ highWater' = highWater
      <3>1. store' \in Image /\ store'.state = store.state
        BY <1>1, <2>1, ObservationType, TornType DEF TornObservation
      <3>2. /\ haltDay' \in [Latching -> Nat \cup {-1}]
            /\ \A b \in ManualResetOnly :
                 haltDay'[b] # -1 => haltDay[b] # -1 \/ b \in store'.switches
        BY <2>1, HaltsType DEF IInv
      <3>3. HaltsAreStored'
        <4>1. ASSUME NEW b \in ManualResetOnly, haltDay[b] # -1 PROVE b \in store'.switches
          BY <1>1, <2>1, <4>1, ManualLatchesStay DEF IInv, HaltsAreStored
        <4>2. QED
          BY <3>2, <4>1 DEF HaltsAreStored
      <3>4. MarkIsStored' /\ CloseIsStored' /\ highWater' \in Nat
        BY <1>2, <2>1, <3>1 DEF IInv, TypeOK, MarkIsStored, CloseIsStored
      <3>5. QED
        BY <3>1, <3>2, <3>3, <3>4
    <2>2. CASE /\ holding
               /\ store' \in TornRecord(Observation(store, mem, clock, equity),
                                        seen, clock, pnl)
               /\ Halts(store.switches \ Cleared(mem, clock), store'.switches)
               /\ highWater' = Larger(highWater, equity)
      <3>1. store.state # NoState
        BY <1>1, <2>2 DEF IInv, HoldingIsSeen
      <3>2. /\ seen \in Image
            /\ seen.state = Observed(mem, clock, equity)
            /\ seen.state \in State /\ seen.state # NoState
            /\ seen.state.peak = Larger(store.state.peak, equity)
            /\ seen.state.lastTime = store.state.lastTime
            /\ seen.state.lastWon = store.state.lastWon
        <4>1. seen \in Image /\ seen.state = Observed(store, clock, equity)
          BY ONLY <1>1, ObservationType DEF seen
        <4>2. Observed(store, clock, equity) \in State
          BY ONLY <1>1, ObservedType
        <4>3. /\ Observed(store, clock, equity) # NoState
              /\ Observed(store, clock, equity).peak = Larger(store.state.peak, equity)
              /\ Observed(store, clock, equity).lastTime = store.state.lastTime
              /\ Observed(store, clock, equity).lastWon = store.state.lastWon
          BY ONLY <1>1, <3>1, ObservedKeeps
        <4>4. QED
          BY ONLY <1>1, <4>1, <4>2, <4>3
      <3>3. StreakTrip(seen, Closed(seen.state, clock, pnl)) \in SUBSET Latching
        BY <1>1, <3>2, RecordType
      <3>4. store' \in Image /\ store'.state = seen.state
        BY <1>1, <2>2, <3>2, <3>3, TornType DEF TornRecord
      <3>5. /\ haltDay' \in [Latching -> Nat \cup {-1}]
            /\ \A b \in ManualResetOnly :
                 haltDay'[b] # -1 => haltDay[b] # -1 \/ b \in store'.switches
        BY <2>2, HaltsType DEF IInv
      <3>6. HaltsAreStored'
        <4>1. ASSUME NEW b \in ManualResetOnly, haltDay[b] # -1 PROVE b \in store'.switches
          <5>1. b \in seen.switches
            BY <1>1, <4>1, ManualLatchesStay DEF IInv, HaltsAreStored
          <5>2. QED
            BY <1>1, <2>2, <3>2, <5>1, ManualLatchesStayRecorded
        <4>2. QED
          BY <3>5, <4>1 DEF HaltsAreStored
      <3>7. MarkIsStored' /\ highWater' \in Nat
        BY <1>1, <2>2, <3>1, <3>2, <3>4 DEF IInv, TypeOK, MarkIsStored, Larger
      <3>8. CloseIsStored'
        BY <1>2, <3>1, <3>2, <3>4 DEF IInv, CloseIsStored
      <3>9. QED
        BY <3>4, <3>5, <3>6, <3>7, <3>8
    <2>3. QED
      BY <2>1, <2>2 DEF CrashInCall
  <1>4. TypeOK'
    <2>1. Empty \in Image
      BY DEF Empty, Image
    <2>2. QED
      BY <1>2, <1>3, <2>1 DEF IInv, TypeOK
  <1>5. QED
    BY <1>1, <1>2, <1>3, <1>4 DEF IInv, WriteThrough, BlindIsEmpty, PanelIsAlone,
       AllowedIsClear, HoldingIsSeen

\* The panel reads, trips, resets or dies; the bot is down meanwhile.
LEMMA PanelSteps ==
  ASSUME IInv, ~PanelWhileRunning,
         OpenPanel \/ PanelAbort \/ PanelTrip \/ PanelReset \/ PanelCrash
  PROVE  IInv'
  <1>1. ~up
    BY DEF OpenPanel, PanelAbort, PanelTrip, PanelReset, PanelCrash, IInv, PanelIsAlone
  <1>2. /\ mem = Empty /\ ~holding /\ decision' = "none"
        /\ UNCHANGED <<up, mem, holding, unreadable, clock, lastClose, steppedBack>>
    BY <1>1 DEF OpenPanel, PanelAbort, PanelTrip, PanelReset, PanelCrash, Leave, bot, history,
       IInv, BlindIsEmpty
  <1>3. Empty \in Image
    BY DEF Empty, Image
  <1>4. /\ store' \in Image /\ panel' \in Image /\ open' \in BOOLEAN
        /\ haltDay' \in [Latching -> Nat \cup {-1}]
        /\ highWater' \in Nat
        /\ HaltsAreStored' /\ MarkIsStored' /\ CloseIsStored' /\ PanelIsAlone'
    <2>1. CASE OpenPanel
      BY <1>1, <1>2, <1>3, <2>1 DEF OpenPanel, history, IInv, TypeOK, HaltsAreStored,
         MarkIsStored, CloseIsStored, PanelIsAlone
    <2>2. CASE PanelAbort
      BY <1>2, <1>3, <2>2 DEF PanelAbort, Leave, history, IInv, TypeOK, HaltsAreStored,
         MarkIsStored, CloseIsStored, PanelIsAlone
    <2>3. CASE PanelTrip
      <3>1. store' \in Image /\ store'.state = store.state
            /\ store.switches \subseteq store'.switches
        BY <2>3 DEF PanelTrip, IInv, TypeOK, Image, Latching, ManualResetOnly
      <3>2. /\ haltDay' \in [Latching -> Nat \cup {-1}]
            /\ \A b \in ManualResetOnly :
                 haltDay'[b] # -1 => haltDay[b] # -1 \/ b \in store'.switches
        BY <2>3, HaltsType DEF PanelTrip, IInv
      <3>3. QED
        BY <1>2, <1>3, <2>3, <3>1, <3>2 DEF PanelTrip, Leave, IInv, TypeOK, HaltsAreStored,
           MarkIsStored, CloseIsStored, PanelIsAlone
    <2>4. CASE PanelReset
      <3>1. panel \in {store, Empty} /\ store \in Image /\ panel \in Image
        BY <2>4, <1>3 DEF PanelReset, IInv, PanelIsAlone, TypeOK
      <3>2. CASE panel.switches = {}
        BY <1>2, <1>3, <2>4, <3>1, <3>2 DEF PanelReset, Forgive, Leave, IInv, TypeOK,
           HaltsAreStored, MarkIsStored, CloseIsStored, PanelIsAlone
      <3>3. CASE panel.switches # {}
        <4>1. panel = store
          BY <3>1, <3>3 DEF Empty
        <4>2. store'.switches = {}
              /\ store'.state = IF store.state = NoState THEN NoState ELSE Rebaselined(store)
          BY <2>4, <3>3, <4>1 DEF PanelReset
        <4>3. haltDay' = [b \in Latching |-> IF b \in store.switches THEN -1 ELSE haltDay[b]]
          BY <2>4, <4>1 DEF PanelReset, Forgive
        <4>4. HaltsAreStored' /\ haltDay' \in [Latching -> Nat \cup {-1}]
          <5>1. haltDay \in [Latching -> Nat \cup {-1}]
            BY DEF IInv, TypeOK
          <5>2. ManualResetOnly \subseteq Latching
            BY DEF Latching
          <5>3. QED
            BY <4>3, <5>1, <5>2 DEF IInv, HaltsAreStored
        <4>5. store.state # NoState =>
                /\ Rebaselined(store) \in State
                /\ Rebaselined(store) # NoState
                /\ Rebaselined(store).peak =
                     IF "drawdown" \in store.switches THEN store.state.equity ELSE store.state.peak
                /\ Rebaselined(store).lastTime = store.state.lastTime
                /\ Rebaselined(store).lastWon = store.state.lastWon
          <5> SUFFICES ASSUME store.state # NoState
                       PROVE /\ Rebaselined(store) \in State
                             /\ Rebaselined(store).peak =
                                  IF "drawdown" \in store.switches THEN store.state.equity
                                                                   ELSE store.state.peak
                             /\ Rebaselined(store).lastTime = store.state.lastTime
                             /\ Rebaselined(store).lastWon = store.state.lastWon
            BY NoStateAssumption
          <5> DEFINE peak == IF "drawdown" \in store.switches THEN store.state.equity
                                                              ELSE store.state.peak
                     start == IF "daily_loss" \in store.switches THEN store.state.equity
                                                                 ELSE store.state.dayStart
                     streak == IF "consecutive_losses" \in store.switches THEN 0
                                                                          ELSE store.state.streak
          <5>1. store.state \in State
            BY <3>1 DEF Image
          <5>2. peak \in Nat /\ start \in Nat /\ streak \in Nat
            BY <5>1 DEF State
          <5>3. Rebaselined(store) =
                  [store.state EXCEPT !.peak = peak, !.dayStart = start, !.streak = streak]
            BY DEF Rebaselined
          <5> HIDE DEF start, streak
          <5>4. QED
            BY <5>1, <5>2, <5>3 DEF State
        <4>6. store' \in Image
          BY <2>4, <4>1, <4>2, <4>5, <3>1, <3>3 DEF PanelReset, Image
        <4>7. MarkIsStored' /\ highWater' \in Nat
          <5>1. CASE store.state = NoState
            BY <2>4, <4>1, <4>2, <5>1 DEF PanelReset, IInv, TypeOK, MarkIsStored
          <5>2. CASE store.state # NoState
            <6>1. store.state.equity \in Nat
              BY <3>1, <5>2 DEF Image, State
            <6>2. QED
              BY <2>4, <4>1, <4>2, <4>5, <5>2, <6>1 DEF PanelReset, IInv, TypeOK, MarkIsStored
          <5>3. QED
            BY <5>1, <5>2
        <4>8. CloseIsStored'
          BY <1>2, <4>2, <4>5 DEF IInv, CloseIsStored
        <4>9. PanelIsAlone' /\ panel' \in Image /\ open' \in BOOLEAN
          BY <1>3, <2>4 DEF PanelReset, Leave, PanelIsAlone
        <4>10. QED
          BY <4>4, <4>6, <4>7, <4>8, <4>9
      <3>4. QED
        BY <3>2, <3>3
    <2>5. CASE PanelCrash
      <3>1. PICK C \in SUBSET panel.switches :
              store' = [store EXCEPT !.switches = @ \ C] /\ Forgive(C)
        BY <2>5 DEF PanelCrash
      <3>2. store' \in Image /\ store'.state = store.state
            /\ store'.switches = store.switches \ C
        BY <3>1 DEF IInv, TypeOK, Image
      <3>3. HaltsAreStored' /\ haltDay' \in [Latching -> Nat \cup {-1}]
        <4>1. haltDay \in [Latching -> Nat \cup {-1}]
          BY DEF IInv, TypeOK
        <4>2. ManualResetOnly \subseteq Latching
          BY DEF Latching
        <4>3. QED
          BY <3>1, <3>2, <4>1, <4>2 DEF Forgive, IInv, HaltsAreStored
      <3>4. QED
        BY <1>2, <1>3, <2>5, <3>2, <3>3 DEF PanelCrash, Leave, IInv, TypeOK, MarkIsStored,
           CloseIsStored, PanelIsAlone
    <2>6. QED
      BY <2>1, <2>2, <2>3, <2>4, <2>5
  <1>5. TypeOK'
    BY <1>2, <1>4 DEF IInv, TypeOK
  <1>6. QED
    BY <1>1, <1>2, <1>4, <1>5 DEF IInv, WriteThrough, BlindIsEmpty, AllowedIsClear, HoldingIsSeen

\* The clock moves: every answer is forgotten and nothing else changes.
LEMMA ClockStep == IInv /\ MoveClock => IInv'
  <1> SUFFICES ASSUME IInv, MoveClock PROVE IInv'
    OBVIOUS
  <1>1. /\ clock' \in 1..MaxTime /\ steppedBack' \in BOOLEAN /\ decision' = "none"
        /\ UNCHANGED <<up, unreadable, mem, holding, store, panel, open, haltDay, highWater,
                       lastClose>>
    BY DEF MoveClock, bot, desk
  <1>2. TypeOK'
    BY <1>1 DEF IInv, TypeOK
  <1>3. QED
    BY <1>1, <1>2 DEF IInv, WriteThrough, HaltsAreStored, MarkIsStored, CloseIsStored,
       BlindIsEmpty, PanelIsAlone, AllowedIsClear, HoldingIsSeen

LEMMA StutterStep == IInv /\ UNCHANGED vars => IInv'
  BY DEF vars, bot, desk, history, IInv, TypeOK, WriteThrough, HaltsAreStored, MarkIsStored,
     CloseIsStored, BlindIsEmpty, PanelIsAlone, AllowedIsClear, HoldingIsSeen

--------------------------------------------------------------------------------

(***************************************************************************)
(* The theorems.                                                           *)
(***************************************************************************)

\* The inductive invariant holds in every behaviour in which the panel is used
\* only on a stopped bot.
THEOREM Inductive == ~PanelWhileRunning /\ Spec => []IInv
  <1>1. ASSUME ~PanelWhileRunning, IInv, [Next]_vars PROVE IInv'
    <2>1. CASE Start \/ Crash \/ Enter \/ \E equity \in Equities : RefuseOutright(equity)
      BY <1>1, <2>1, ProcessSteps
    <2>2. CASE \E equity \in Equities, positions \in 0..MaxOpenPositions, held \in BOOLEAN :
                 CanTrade(equity, positions, held)
      BY <1>1, <2>2, CanTradeStep
    <2>3. CASE \E equity \in Equities, pnl \in {-1, 0, 1} : RecordTrade(equity, pnl)
      BY <1>1, <2>3, RecordTradeStep
    <2>4. CASE \E equity \in Equities, pnl \in {-1, 0, 1} : CrashInCall(equity, pnl)
      BY <1>1, <2>4, CrashInCallStep
    <2>5. CASE OpenPanel \/ PanelAbort \/ PanelTrip \/ PanelReset \/ PanelCrash
      BY <1>1, <2>5, PanelSteps
    <2>6. CASE MoveClock
      BY <1>1, <2>6, ClockStep
    <2>7. CASE UNCHANGED vars
      BY <1>1, <2>7, StutterStep
    <2>8. QED
      BY <1>1, <2>1, <2>2, <2>3, <2>4, <2>5, <2>6, <2>7 DEF Next
  <1>2. CASE PanelWhileRunning
    BY <1>2
  <1>3. CASE ~PanelWhileRunning
    <2>1. IInv /\ [Next]_vars => IInv'
      BY <1>1, <1>3
    <2>2. QED
      BY <2>1, InitIInv, PTL DEF Spec
  <1>4. QED
    BY <1>2, <1>3

\* RiskManager's state, the file and the panel's copy stay well formed.
THEOREM TypeCorrect == ~PanelWhileRunning /\ Spec => []TypeOK
  BY Inductive, PTL DEF IInv

\* A manual latch set off by anyone stops every entry until a human resets it.
THEOREM HaltsHold == ~PanelWhileRunning /\ Spec => []NoEntryWhileHalted
  <1>1. IInv => NoEntryWhileHalted
    BY DEF IInv, WriteThrough, HaltsAreStored, AllowedIsClear, NoEntryWhileHalted
  <1>2. QED
    BY <1>1, Inductive, PTL

\* An entry is allowed only inside the drawdown limit of the true high-water mark.
THEOREM DrawdownHolds == ~PanelWhileRunning /\ Spec => []DrawdownBound
  <1>1. IInv => DrawdownBound
    BY DEF IInv, WriteThrough, MarkIsStored, AllowedIsClear, DrawdownBound
  <1>2. QED
    BY <1>1, Inductive, PTL

\* No entry inside the cooldown of the last completed trade.
THEOREM CooldownsHold == ~PanelWhileRunning /\ Spec => []CooldownHolds
  <1>1. ASSUME IInv PROVE CooldownHolds
    <2> SUFFICES ASSUME decision = "allowed", lastClose.won # "none"
                 PROVE  Larger(0, clock - lastClose.time) >=
                            IF lastClose.won = "won" THEN CooldownWin ELSE CooldownLoss
      BY DEF CooldownHolds
    <2>1. ~Cooling(store.state, clock)
      BY <1>1 DEF IInv, WriteThrough, AllowedIsClear
    <2>2. store.state.lastWon = lastClose.won /\ store.state.lastTime = lastClose.time
      BY <1>1 DEF IInv, CloseIsStored
    <2>3. clock \in Nat /\ lastClose.time \in Nat
      BY <1>1, ClockType DEF IInv, TypeOK
    <2>4. QED
      BY <2>1, <2>2, <2>3 DEF Cooling, CooldownOf, Larger
  <1>2. QED
    BY <1>1, Inductive, PTL

\* Between calls the file holds what the bot believes.
THEOREM WritesThrough == ~PanelWhileRunning /\ Spec => []WriteThrough
  BY Inductive, PTL DEF IInv

--------------------------------------------------------------------------------

(***************************************************************************)
(* Day latches.  While the clock runs forward, one that was set off today  *)
(* is in the file, and the file knows that it was written today, so that   *)
(* no observation takes the present moment for a new day.                  *)
(***************************************************************************)
DayInv ==
    ~steppedBack =>
        \A b \in DayLatches :
            /\ haltDay[b] <= Day(clock)
            /\ haltDay[b] = Day(clock) =>
                 /\ b \in store.switches
                 /\ store.state # NoState
                 /\ store.state.day = Day(clock)

\* Days follow the clock.
LEMMA DayMonotonic == ASSUME NEW s \in Nat, NEW t \in Nat, s <= t PROVE Day(s) <= Day(t)
  BY RiskAssumption, SMTT(60) DEF Day

\* After an observation the state is of today, and today's latches are kept.
LEMMA ObservationIsToday ==
  ASSUME NEW image \in Image, NEW m \in Image, NEW now \in Nat, NEW equity \in Nat
  PROVE  /\ Observed(m, now, equity).day = Day(now)
         /\ m.state # NoState /\ m.state.day = Day(now) => Cleared(m, now) = {}
         /\ "daily_loss" \in Tripped(m, now, equity) =>
              m.state # NoState /\ m.state.day = Day(now)
  <1>1. Day(now) \in Nat
    BY DayType
  <1>2. CASE m.state = NoState
    <2>1. Observed(m, now, equity) = FirstState(now, equity)
      BY <1>2 DEF Observed
    <2>2. ~Breached(equity, equity, MaxDailyLoss)
      BY DEF Breached
    <2>3. QED
      BY <1>2, <2>1, <2>2 DEF FirstState, Tripped
  <1>3. CASE m.state # NoState
    <2>1. m.state \in State
      BY <1>3 DEF Image
    <2>2. /\ Observed(m, now, equity).day = Day(now)
          /\ Observed(m, now, equity).equity = equity
          /\ NewDay(m, now) => Observed(m, now, equity).dayStart = equity
      BY <1>3, <2>1 DEF Observed, State
    <2>3. ~Breached(equity, equity, MaxDailyLoss)
      BY DEF Breached
    <2>4. QED
      BY <1>3, <2>2, <2>3 DEF NewDay, Cleared, Tripped
  <1>4. QED
    BY <1>2, <1>3

\* What a call does to today's latches: those that were in the file stay, those it
\* sets off are in the file it leaves.
LEMMA LatchesKept ==
  ASSUME IInv, DayInv, ~steppedBack, NEW before, NEW after, Halts(before, after),
         NEW b \in DayLatches,
         haltDay[b] = Day(clock) => b \in after
  PROVE  /\ haltDay'[b] <= Day(clock)
         /\ haltDay'[b] = Day(clock) => b \in after
         /\ haltDay'[b] = Day(clock) => haltDay[b] = Day(clock) \/ b \in after \ before
  <1>1. Day(clock) \in Nat /\ haltDay[b] \in Int /\ b \in Latching
    BY DayType DEF IInv, TypeOK, Latching
  <1>2. haltDay'[b] = IF b \in after \ before THEN Day(clock) ELSE haltDay[b]
    BY <1>1 DEF Halts
  <1>3. QED
    BY <1>1, <1>2 DEF DayInv

LEMMA DayCanTrade ==
  ASSUME IInv, DayInv, NEW equity \in Equities, NEW positions \in 0..MaxOpenPositions,
         NEW held \in BOOLEAN, CanTrade(equity, positions, held)
  PROVE  DayInv'
  <1> DEFINE seen == Observation(mem, mem, clock, equity)
  <1>1. /\ store = mem /\ mem \in Image /\ clock \in Nat /\ equity \in Nat
        /\ UNCHANGED <<clock, steppedBack>>
    <2>1. up /\ ~unreadable
      BY DEF CanTrade, Unusable
    <2>2. QED
      BY <2>1, ClockType DEF CanTrade, IInv, TypeOK, WriteThrough
  <1>2. mem' = seen /\ store' = seen
    BY <1>1 DEF CanTrade
  <1>3. Halts(mem.switches \ Cleared(mem, clock), seen.switches)
    BY <1>2 DEF CanTrade
  <1>4. /\ seen.state = Observed(mem, clock, equity)
        /\ seen.state # NoState
        /\ seen.state.day = Day(clock)
        /\ mem.state # NoState /\ mem.state.day = Day(clock) => Cleared(mem, clock) = {}
    <2>1. seen.state = Observed(mem, clock, equity)
      BY ONLY <1>1, ObservationType DEF seen
    <2>2. Observed(mem, clock, equity) # NoState
      BY ONLY <1>1, ObservedKeeps
    <2>3. /\ Observed(mem, clock, equity).day = Day(clock)
          /\ mem.state # NoState /\ mem.state.day = Day(clock) => Cleared(mem, clock) = {}
      BY ONLY <1>1, ObservationIsToday
    <2>4. QED
      BY ONLY <2>1, <2>2, <2>3
  <1>5. (mem.switches \ Cleared(mem, clock)) \subseteq seen.switches
    BY DEF Observation, Written
  <1> HIDE DEF seen
  <1>6. ASSUME ~steppedBack, NEW b \in DayLatches
        PROVE  /\ haltDay'[b] <= Day(clock)
               /\ haltDay'[b] = Day(clock) => b \in seen.switches
    <2>1. haltDay[b] = Day(clock) => b \in seen.switches
      BY <1>1, <1>4, <1>5, <1>6 DEF DayInv
    <2>2. QED
      BY <1>3, <1>6, <2>1, LatchesKept
  <1>7. QED
    BY <1>1, <1>2, <1>4, <1>6 DEF DayInv

LEMMA DayRecordTrade ==
  ASSUME IInv, DayInv, NEW equity \in Equities, NEW pnl \in {-1, 0, 1},
         RecordTrade(equity, pnl)
  PROVE  DayInv'
  <1> DEFINE seen == Observation(mem, mem, clock, equity)
             done == Record(seen, seen, clock, pnl)
  <1>1. /\ store = mem /\ mem \in Image /\ clock \in Nat /\ equity \in Nat
        /\ UNCHANGED <<clock, steppedBack>>
    <2>1. up /\ ~unreadable
      BY DEF RecordTrade, IInv, BlindIsEmpty
    <2>2. QED
      BY <2>1, ClockType DEF RecordTrade, IInv, TypeOK, WriteThrough
  <1>2. mem' = done /\ store' = done
    BY <1>1 DEF RecordTrade
  <1>3. Halts(mem.switches \ Cleared(mem, clock), done.switches)
    BY <1>2 DEF RecordTrade
  <1>4. /\ seen \in Image
        /\ seen.state \in State /\ seen.state # NoState
        /\ seen.state.day = Day(clock)
        /\ mem.state # NoState /\ mem.state.day = Day(clock) => Cleared(mem, clock) = {}
    <2>1. seen \in Image /\ seen.state = Observed(mem, clock, equity)
      BY ONLY <1>1, ObservationType DEF seen
    <2>2. Observed(mem, clock, equity) \in State /\ Observed(mem, clock, equity) # NoState
      BY ONLY <1>1, ObservedType, ObservedKeeps
    <2>3. /\ Observed(mem, clock, equity).day = Day(clock)
          /\ mem.state # NoState /\ mem.state.day = Day(clock) => Cleared(mem, clock) = {}
      BY ONLY <1>1, ObservationIsToday
    <2>4. QED
      BY ONLY <2>1, <2>2, <2>3
  <1>5. (mem.switches \ Cleared(mem, clock)) \subseteq seen.switches
    BY DEF Observation, Written
  <1> HIDE DEF seen
  <1>6. /\ done.state = Closed(seen.state, clock, pnl)
        /\ done.state # NoState
        /\ done.state.day = Day(clock)
    <2>1. done.state = Closed(seen.state, clock, pnl)
      <3>1. seen \in Image /\ seen.state # NoState /\ clock \in Nat
        BY <1>1, <1>4
      <3>2. QED
        BY ONLY <3>1, RecordType DEF done
    <2>2. Closed(seen.state, clock, pnl) # NoState
      BY <1>1, <1>4, ClosedKeeps
    <2>3. Closed(seen.state, clock, pnl).day = seen.state.day
      BY <1>4 DEF Closed, State
    <2>4. QED
      BY <1>4, <2>1, <2>2, <2>3
  <1>7. seen.switches \subseteq done.switches
    BY DEF Record, Written
  <1> HIDE DEF done
  <1>8. ASSUME ~steppedBack, NEW b \in DayLatches
        PROVE  /\ haltDay'[b] <= Day(clock)
               /\ haltDay'[b] = Day(clock) => b \in done.switches
    <2>1. haltDay[b] = Day(clock) => b \in done.switches
      BY <1>1, <1>4, <1>5, <1>7, <1>8 DEF DayInv
    <2>2. QED
      BY <1>3, <1>8, <2>1, LatchesKept
  <1>9. QED
    BY <1>1, <1>2, <1>6, <1>8 DEF DayInv

\* The daily loss is the only latch an observation sets off by the day, and never on the
\* first one of a day: a torn write that holds it is in a file of today.
LEMMA DayCrashInCall ==
  ASSUME IInv, DayInv, NEW equity \in Equities, NEW pnl \in {-1, 0, 1},
         CrashInCall(equity, pnl)
  PROVE  DayInv'
  <1> DEFINE seen == Observation(mem, mem, clock, equity)
  <1>1. /\ store = mem /\ mem \in Image /\ clock \in Nat /\ equity \in Nat
        /\ UNCHANGED <<clock, steppedBack>>
    <2>1. up /\ ~unreadable
      BY DEF CrashInCall
    <2>2. QED
      BY <2>1, ClockType DEF CrashInCall, IInv, TypeOK, WriteThrough
  <1>2. /\ mem.state # NoState /\ mem.state.day = Day(clock) => Cleared(mem, clock) = {}
        /\ "daily_loss" \in Tripped(mem, clock, equity) =>
             mem.state # NoState /\ mem.state.day = Day(clock)
    BY <1>1, ObservationIsToday
  <1>3. CASE /\ store' \in TornObservation(store, mem, clock, equity)
             /\ Halts(store.switches, store'.switches)
    <2>1. store'.state = store.state
      BY <1>1, <1>3, ObservationType, TornType DEF TornObservation
    <2>2. /\ store'.switches \subseteq store.switches \cup Tripped(mem, clock, equity)
          /\ (store.switches \ Cleared(mem, clock)) \subseteq store'.switches
      BY <1>1, <1>3 DEF TornObservation, Torn, Prefixes, Image
    <2>3. ASSUME NEW b \in DayLatches, b \in Tripped(mem, clock, equity)
          PROVE  b = "daily_loss"
      BY <2>3 DEF Tripped, DayLatches
    <2>4. ASSUME ~steppedBack, NEW b \in DayLatches
          PROVE  /\ haltDay'[b] <= Day(clock)
                 /\ haltDay'[b] = Day(clock) =>
                      /\ b \in store'.switches
                      /\ store.state # NoState /\ store.state.day = Day(clock)
      <3>1. haltDay[b] = Day(clock) => b \in store'.switches
        BY <1>1, <1>2, <2>2, <2>4 DEF DayInv
      <3>2. /\ haltDay'[b] <= Day(clock)
            /\ haltDay'[b] = Day(clock) => b \in store'.switches
            /\ haltDay'[b] = Day(clock) =>
                 haltDay[b] = Day(clock) \/ b \in store'.switches \ store.switches
        BY <1>3, <2>4, <3>1, LatchesKept
      <3>3. QED
        BY <1>1, <1>2, <2>2, <2>3, <2>4, <3>2 DEF DayInv
    <2>5. QED
      BY <1>1, <2>1, <2>4 DEF DayInv
  <1>4. CASE /\ holding
             /\ store' \in TornRecord(Observation(store, mem, clock, equity),
                                      seen, clock, pnl)
             /\ Halts(store.switches \ Cleared(mem, clock), store'.switches)
    <2>1. /\ seen \in Image
          /\ seen.state \in State /\ seen.state # NoState
          /\ seen.state.day = Day(clock)
      <3>1. seen \in Image /\ seen.state = Observed(mem, clock, equity)
        BY ONLY <1>1, ObservationType DEF seen
      <3>2. Observed(mem, clock, equity) \in State /\ Observed(mem, clock, equity) # NoState
        BY ONLY <1>1, ObservedType, ObservedKeeps
      <3>3. /\ Observed(mem, clock, equity).day = Day(clock)
            /\ mem.state # NoState /\ mem.state.day = Day(clock) => Cleared(mem, clock) = {}
        BY ONLY <1>1, ObservationIsToday
      <3>4. QED
        BY ONLY <3>1, <3>2, <3>3
    <2>2. (store.switches \ Cleared(mem, clock)) \subseteq seen.switches
      BY <1>1 DEF Observation, Written
    <2> HIDE DEF seen
    <2>3. store' \in TornRecord(seen, seen, clock, pnl)
      BY <1>1, <1>4 DEF seen
    <2>4. store'.state = seen.state
      <3>1. StreakTrip(seen, Closed(seen.state, clock, pnl)) \in SUBSET Latching
        BY <1>1, <2>1, RecordType
      <3>2. QED
        BY <2>1, <2>3, <3>1, TornType DEF TornRecord
    <2>5. seen.switches \subseteq store'.switches
      BY <2>1, <2>3, ManualLatchesStayRecorded
    <2>6. ASSUME ~steppedBack, NEW b \in DayLatches
          PROVE  /\ haltDay'[b] <= Day(clock)
                 /\ haltDay'[b] = Day(clock) => b \in store'.switches
      <3>1. haltDay[b] = Day(clock) => b \in store'.switches
        BY <1>1, <1>2, <2>2, <2>5, <2>6 DEF DayInv
      <3>2. QED
        BY <1>4, <2>6, <3>1, LatchesKept
    <2>7. QED
      BY <1>1, <2>1, <2>4, <2>6 DEF DayInv
  <1>5. QED
    BY <1>3, <1>4 DEF CrashInCall

\* The panel forgets a latch only where it clears it, and keeps the file's day.
LEMMA DayPanel ==
  ASSUME IInv, DayInv, OpenPanel \/ PanelAbort \/ PanelTrip \/ PanelReset \/ PanelCrash
  PROVE  DayInv'
  <1>1. UNCHANGED <<clock, steppedBack>> /\ Day(clock) \in Nat
    BY ClockType, DayType
       DEF OpenPanel, PanelAbort, PanelTrip, PanelReset, PanelCrash, history, IInv
  <1>2. haltDay \in [Latching -> Nat \cup {-1}] /\ DayLatches \subseteq Latching
        /\ store \in Image
    BY DEF IInv, TypeOK, Latching
  <1>3. CASE OpenPanel \/ PanelAbort
    BY <1>1, <1>3 DEF OpenPanel, PanelAbort, history, DayInv
  <1>4. CASE PanelTrip
    <2>1. \/ store'.state = store.state /\ store'.switches = store.switches \cup {"manual"}
          \/ store' = store
      BY <1>2, <1>4 DEF PanelTrip, Image
    <2>2. \A b \in DayLatches : haltDay'[b] = haltDay[b]
      BY <1>2, <1>4, <2>1 DEF PanelTrip, Halts, DayLatches
    <2>3. QED
      BY <1>1, <2>1, <2>2 DEF DayInv
  <1>5. CASE PanelReset
    <2>1. haltDay' = [b \in Latching |-> IF b \in panel.switches THEN -1 ELSE haltDay[b]]
      BY <1>5 DEF PanelReset, Forgive
    <2>2. panel \in {store, Empty}
      BY <1>5 DEF PanelReset, IInv, PanelIsAlone
    <2>3. CASE panel.switches = {}
      BY <1>1, <1>2, <1>5, <2>1, <2>3 DEF PanelReset, DayInv
    <2>4. CASE panel.switches # {}
      <3>1. panel = store
        BY <2>2, <2>4 DEF Empty
      <3>2. \A b \in DayLatches : haltDay'[b] = Day(clock) => b \notin store.switches
                                                             /\ haltDay[b] = Day(clock)
        BY <1>1, <1>2, <2>1, <3>1
      <3>3. \A b \in DayLatches : haltDay'[b] <= haltDay[b] \/ haltDay'[b] <= Day(clock)
        BY <1>1, <1>2, <2>1
      <3>4. ASSUME ~steppedBack, NEW b \in DayLatches
            PROVE  haltDay'[b] <= Day(clock) /\ haltDay'[b] # Day(clock)
        <4>1. haltDay[b] = Day(clock) => b \in store.switches
          BY <3>4 DEF DayInv
        <4>2. haltDay'[b] = -1 \/ haltDay'[b] = haltDay[b]
          BY <1>2, <2>1
        <4>3. QED
          BY <1>1, <1>2, <3>2, <3>4, <4>1, <4>2 DEF DayInv
      <3>5. QED
        BY <1>1, <3>4 DEF DayInv
    <2>5. QED
      BY <2>3, <2>4
  <1>6. CASE PanelCrash
    <2>1. PICK C \in SUBSET panel.switches :
            store' = [store EXCEPT !.switches = @ \ C] /\ Forgive(C)
      BY <1>6 DEF PanelCrash
    <2>2. store'.state = store.state /\ store'.switches = store.switches \ C
      BY <1>2, <2>1 DEF Image
    <2>3. \A b \in DayLatches : haltDay'[b] = IF b \in C THEN -1 ELSE haltDay[b]
      BY <1>2, <2>1 DEF Forgive
    <2>4. QED
      BY <1>1, <2>2, <2>3 DEF DayInv
  <1>7. QED
    BY <1>3, <1>4, <1>5, <1>6

\* Time passes: a latch of today is still one of today, or of an earlier day.
LEMMA DayClock == ASSUME IInv, DayInv, MoveClock PROVE DayInv'
  <1> SUFFICES ASSUME ~steppedBack', NEW b \in DayLatches
               PROVE  /\ haltDay[b] <= Day(clock')
                      /\ haltDay[b] = Day(clock') =>
                           /\ b \in store.switches
                           /\ store.state # NoState
                           /\ store.state.day = Day(clock')
    BY DEF DayInv, MoveClock
  <1>1. ~steppedBack /\ clock \in Nat /\ clock' \in Nat /\ clock <= clock'
    <2>1. PICK step \in ClockSteps : /\ clock' = clock + step
                                     /\ clock' \in 1..MaxTime
                                     /\ steppedBack' = (steppedBack \/ step < 0)
      BY DEF MoveClock
    <2>2. clock \in Nat
      BY ClockType DEF IInv
    <2>3. ~steppedBack /\ ~(step < 0)
      BY <2>1, Zenon
    <2>4. QED
      BY <2>1, <2>2, <2>3
  <1>2. Day(clock) \in Nat /\ Day(clock') \in Nat /\ Day(clock) <= Day(clock')
    BY <1>1, DayType, DayMonotonic
  <1>3. haltDay[b] \in Int
    BY DEF IInv, TypeOK, Latching
  <1>4. QED
    BY <1>1, <1>2, <1>3 DEF DayInv

\* A bot restarts, stops, enters or refuses: none touches the file or the latches.
LEMMA DayProcess ==
  ASSUME DayInv,
         \/ Start \/ Crash \/ Enter \/ \E equity \in Equities : RefuseOutright(equity)
         \/ UNCHANGED vars
  PROVE  DayInv'
  <1>1. UNCHANGED <<clock, store, steppedBack, haltDay>>
    BY DEF Start, Crash, Enter, RefuseOutright, vars, history
  <1>2. QED
    BY <1>1 DEF DayInv

\* Today's latch, whoever crashed or restarted since, is seen by the next can_trade.
THEOREM DayLatchesHold == ~PanelWhileRunning /\ Spec => []DayLatchHolds
  <1>1. Init => DayInv
    <2> SUFFICES ASSUME Init PROVE DayInv
      OBVIOUS
    <2>1. Day(clock) \in Nat
      BY DayType DEF Init
    <2>2. \A b \in DayLatches : haltDay[b] = -1
      BY DEF Init, Latching
    <2>3. QED
      BY <2>1, <2>2 DEF DayInv
  <1>2. IInv /\ DayInv /\ [Next]_vars => DayInv'
    <2> SUFFICES ASSUME IInv, DayInv, [Next]_vars PROVE DayInv'
      OBVIOUS
    <2>1. CASE \E equity \in Equities, positions \in 0..MaxOpenPositions, held \in BOOLEAN :
                 CanTrade(equity, positions, held)
      BY <2>1, DayCanTrade
    <2>2. CASE \E equity \in Equities, pnl \in {-1, 0, 1} : RecordTrade(equity, pnl)
      BY <2>2, DayRecordTrade
    <2>3. CASE \E equity \in Equities, pnl \in {-1, 0, 1} : CrashInCall(equity, pnl)
      BY <2>3, DayCrashInCall
    <2>4. CASE OpenPanel \/ PanelAbort \/ PanelTrip \/ PanelReset \/ PanelCrash
      BY <2>4, DayPanel
    <2>5. CASE MoveClock
      BY <2>5, DayClock
    <2>6. CASE \/ Start \/ Crash \/ Enter \/ \E equity \in Equities : RefuseOutright(equity)
               \/ UNCHANGED vars
      BY <2>6, DayProcess
    <2>7. QED
      BY <2>1, <2>2, <2>3, <2>4, <2>5, <2>6 DEF Next
  <1>3. IInv /\ DayInv => DayLatchHolds
    <2> SUFFICES ASSUME IInv, DayInv, decision = "allowed", ~steppedBack,
                        NEW b \in DayLatches
                 PROVE  haltDay[b] < Day(clock)
      BY DEF DayLatchHolds
    <2>1. store.switches = {}
      BY DEF IInv, AllowedIsClear, WriteThrough
    <2>2. Day(clock) \in Nat /\ haltDay[b] \in Int
      BY ClockType, DayType DEF IInv, TypeOK, Latching
    <2>3. QED
      BY <2>1, <2>2 DEF DayInv
  <1>4. QED
    BY <1>1, <1>2, <1>3, Inductive, PTL DEF Spec
================================================================================
