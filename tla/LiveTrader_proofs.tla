---------------------------- MODULE LiveTrader_proofs ---------------------------
(***************************************************************************)
(* Theorems about the live loop for every entry size, number of trades and *)
(* of attempts, split of the ladder and tolerance of outages, under every  *)
(* fault but the four whose runs or hazards show what they break.          *)
(***************************************************************************)
EXTENDS LiveTrader, FoldFacts

\* A cancel that is accepted cancels, an entry is answered with its id, protect's arming
\* of the countdown works and the listing of orders at start is readable.
Sound == Faults \cap {"cancel", "noid", "arm", "preflight"} = {}

(***************************************************************************)
(* The inductive invariant.                                                *)
(***************************************************************************)

Order == orders[trade]

\* The contracts on one side: from nothing to all of bound.
Within(amount, bound) ==
    /\ bound >= 0 => 0 <= amount /\ amount <= bound
    /\ bound <= 0 => bound <= amount /\ amount <= 0

Whole(order) ==
    /\ order.status = "none" => order = NoOrder
    /\ order.status # "none" => order.size \in {Size, -Size}
    /\ order.status = "filled" => order.left = 0
    /\ Within(order.left, order.size)

\* Only the entry in hand can still buy, and only before its verdict or after a loop
\* that ended without one.
OnlyLatestOpen ==
    \A n \in Trades :
        /\ Whole(orders[n])
        /\ n > trade => orders[n] = NoOrder
        /\ orders[n].status = "open" =>
              /\ n = trade /\ tracked = NoPosition
              /\ pc \in {"poll", "cancel", "raised", "release", "stopped", "crashed"}

\* What is held was bought by the entry in hand.
HeldIsBought == pos # 0 => trade \in Trades /\ Within(pos, FilledOf(Order))

\* The entry between submit_entry's first call and its verdict.
Entering ==
    pc \in EntryStates \cup {"verdict"} =>
        /\ trade \in Trades
        /\ tracked = NoPosition
        /\ record.size \in {Size, -Size}
        /\ pc = "place" => Order = NoOrder /\ pos = 0
        /\ pc # "place" => Order.size = record.size /\ Order.status # "none"
        /\ pc # "verdict" => record.state = "none" /\ record.filled = 0

\* A verdict without exposure is about an entry that bought nothing; one that counts what
\* was bought counts all of it.
VerdictIsFinal ==
    pc = "verdict" =>
        /\ record.state \notin HasExposure => FilledOf(Order) = 0
        /\ record.filled # 0 => record.filled = FilledOf(Order)

\* The protect call in hand is about the position the exchange holds.
Protecting ==
    pc \in ProtectStates \cup Outcomes =>
        /\ trade \in Trades
        /\ Order.size # 0
        /\ job.direction = Sign(Order.size)
        /\ Abs(pos) <= Abs(job.size)
        /\ job.caller = "enter" => tracked = NoPosition /\ Sign(job.size) = job.direction
        /\ job.caller = "reprotect" => tracked # NoPosition /\ ~tracked.protected
                                       /\ job.size = tracked.remaining
        /\ pc # "arm" => armed /\ missed = 0
        /\ pc = "legs" => job.levels = {StopLevel}
        /\ pc = "protected" => StopLevel \in job.levels
        /\ pc \in {"legs", "protected"} /\ pos # 0 /\ Sign(job.size) = job.direction
              => StopLevel \in triggers
        /\ pc = "flattened" => pos = 0

Callers ==
    /\ job.caller = "reprotect" => tracked # NoPosition
    /\ pc \in EntryStates \cup {"idle", "verdict", "settle", "list", "session",
                                "close", "check", "sweep"}
          => job.caller = "enter"

\* The position the loop tracks is the one the exchange holds, or held.
Tracking ==
    tracked # NoPosition =>
        /\ trade \in Trades
        /\ Order.size # 0
        /\ tracked.direction = Sign(Order.size)
        /\ Sign(tracked.size) = tracked.direction
        /\ Abs(pos) <= tracked.remaining
        /\ tracked.fills + tracked.remaining = Abs(tracked.size)

\* What the steps of a step with a position tracked have read.
Stepping ==
    /\ pc \in {"settle", "list", "session", "close", "check", "sweep"} => tracked # NoPosition
    /\ pc = "list" => Abs(pos) <= held /\ held <= tracked.remaining
    /\ pc = "sweep" => pos = 0
    /\ pc = "crashed" => tracked = NoPosition

\* Between two trades nothing is held.
BetweenTrades == pc = "idle" /\ tracked = NoPosition => pos = 0

\* A countdown watches over every level unless the loop has let go of it, and a level of
\* an earlier trade is there only because the loop did not wait for it.
LevelsAreWatched ==
    /\ IsFiniteSet(triggers)
    /\ ~hasty => \A t \in triggers : t.trade = trade
    /\ triggers # {} => armed \/ pc = "stopped"
    /\ pc = "stopped" /\ tracked # NoPosition => ~armed \/ missed > 0

\* Covered, at every moment.
Shielded ==
    pos # 0 /\ SaysProtected /\ ~ReprotectedShort /\ ~lapsed => Guarded

IInv ==
    /\ TypeOK
    /\ OnlyLatestOpen
    /\ HeldIsBought
    /\ Entering
    /\ VerdictIsFinal
    /\ Protecting
    /\ Callers
    /\ Tracking
    /\ Stepping
    /\ BetweenTrades
    /\ LevelsAreWatched
    /\ Shielded
    /\ booked.fills = booked.size

(***************************************************************************)
(* What a set of reduce-only orders takes.                                 *)
(***************************************************************************)

Weight(t) == Abs(t.size)

\* The sum of the contracts of a finite set of orders is at least those of any of them.
LEMMA SumBounds ==
  ASSUME NEW F \in SUBSET Trigger, IsFiniteSet(F)
  PROVE  LET total == MapThenSumSet(LAMBDA t : Abs(t.size), F)
         IN total \in Nat /\ \A t \in F : Abs(t.size) <= total
  <1> DEFINE total == MapThenSumSet(LAMBDA t : Abs(t.size), F)
             w == [t \in F |-> Weight(t)]
             Adds(f) == f = [s \in SUBSET F |->
                               IF s = {} THEN 0 ELSE Weight(Chosen(s)) + f[s \ {Chosen(s)}]]
             iter == CHOOSE f : Adds(f)
  <1>1. total = iter[F]
    BY DEF MapThenSumSet, MapThenFoldSet, Weight, Chosen
  <1>2. \A t \in F : w[t] = Weight(t) /\ w[t] \in Nat
    BY VenueAssumption DEF Trigger, Weight, Abs
  <1>3. \A f : Sums(f, F, w) <=> Adds(f)
    <2>1. ASSUME NEW s \in SUBSET F, s # {}
          PROVE  w[Chosen(s)] = Weight(Chosen(s))
      BY <2>1 DEF Chosen
    <2> HIDE DEF w
    <2> QED
      BY <2>1 DEF Sums
  <1>4. Sums(iter, F, w)
    <2>1. \E f : Adds(f)
      <3> HIDE DEF w, Adds
      <3> QED
        BY <1>2, <1>3, SumsExist
    <2> HIDE DEF w, Adds
    <2> QED
      BY <1>3, <2>1
  <1> HIDE DEF w, iter, total
  <1>5. /\ iter[{}] = 0
        /\ \A s \in SUBSET F : iter[s] \in Int
        /\ \A s \in SUBSET F : \A t \in s : iter[s] = iter[s \ {t}] + w[t]
    <2>1. PICK it, v : it = iter /\ v = w
      OBVIOUS
    <2>2. Sums(it, F, v) /\ \A t \in F : v[t] \in Int
      BY <1>2, <1>4, <2>1
    <2>3. /\ it[{}] = 0
          /\ \A s \in SUBSET F : it[s] \in Int
          /\ \A s \in SUBSET F : \A t \in s : it[s] = it[s \ {t}] + v[t]
      BY ONLY <2>2, IsFiniteSet(F), SumWithout
    <2> QED
      BY <2>1, <2>3
  <1> DEFINE Good == {s \in SUBSET F : iter[s] >= 0 /\ \A t \in s : w[t] <= iter[s]}
  <1>6. {} \in Good
    BY <1>5
  <1>7. ASSUME NEW s \in SUBSET F, s # {}
        PROVE  \E t \in s : s \ {t} \in Good => s \in Good
    <2>1. PICK t \in s : TRUE
      BY <1>7
    <2>2. ASSUME s \ {t} \in Good PROVE s \in Good
      <3>1. iter[s \ {t}] >= 0 /\ \A u \in s \ {t} : w[u] <= iter[s \ {t}]
        BY <2>2
      <3>2. iter[s] = iter[s \ {t}] + w[t] /\ iter[s \ {t}] \in Int /\ w[t] \in Nat
        BY <1>2, <1>5
      <3>3. ASSUME NEW u \in s PROVE w[u] <= iter[s]
        <4>1. CASE u = t
          BY <3>1, <3>2, <4>1
        <4>2. CASE u # t
          <5>1. w[u] <= iter[s \ {t}] /\ w[u] \in Nat
            BY <1>2, <3>1, <4>2
          <5> QED
            BY <3>2, <5>1
        <4> QED
          BY <4>1, <4>2
      <3>4. iter[s] >= 0
        BY <3>1, <3>2
      <3> QED
        BY <3>3, <3>4
    <2> QED
      BY <2>2
  <1>8. F \in Good
    <2> HIDE DEF Good
    <2> QED
      BY <1>6, <1>7, SubsetInduction
  <1>9. total \in Nat /\ \A t \in F : w[t] <= total
    <2>1. iter[F] \in Int
      BY <1>5
    <2> QED
      BY <1>1, <1>8, <2>1
  <1> QED
    BY <1>2, <1>9 DEF Weight, total

\* Reduce-only orders take what is held towards nothing, and an order for all of it on the
\* other side leaves nothing.
LEMMA ClampTakes ==
  ASSUME NEW fired \in SUBSET Trigger, IsFiniteSet(fired), NEW amount \in Int
  PROVE  LET kept == ClampReduceOnly(amount, fired)
         IN /\ kept \in Int
            /\ Within(kept, amount)
            /\ \A t \in fired : Sign(t.size) = -Sign(amount) /\ Abs(t.size) >= Abs(amount)
                                  => kept = 0
  <1> DEFINE reducing == {t \in fired : Sign(t.size) = -Sign(amount)}
             taken == MapThenSumSet(LAMBDA t : Abs(t.size), reducing)
             kept == ClampReduceOnly(amount, fired)
  <1>1. kept = amount - Sign(amount) * Least(Abs(amount), taken)
    BY DEF ClampReduceOnly
  <1>2. reducing \in SUBSET Trigger /\ IsFiniteSet(reducing)
    BY FS_Subset
  <1>3. taken \in Nat /\ \A t \in reducing : Abs(t.size) <= taken
    <2> HIDE DEF reducing
    <2> QED
      BY <1>2, SumBounds
  <1> HIDE DEF taken, kept
  <1>4. kept \in Int /\ Within(kept, amount)
    BY <1>1, <1>3 DEF Within, Sign, Abs, Least
  <1>5. ASSUME NEW t \in fired, Sign(t.size) = -Sign(amount), Abs(t.size) >= Abs(amount)
        PROVE  kept = 0
    <2>1. Abs(t.size) <= taken /\ Abs(t.size) \in Int
      BY <1>3, <1>5, VenueAssumption DEF Trigger, Abs
    <2>2. Least(Abs(amount), taken) = Abs(amount)
      BY <1>3, <1>5, <2>1 DEF Least, Abs
    <2> QED
      BY <1>1, <2>2 DEF Sign, Abs
  <1> QED
    BY <1>4, <1>5 DEF kept

(***************************************************************************)
(* What the invariant says of the position.                                *)
(***************************************************************************)

\* What is held is on the side of the entry in hand, and not more than it.
LEMMA HeldSide ==
  ASSUME TypeOK, OnlyLatestOpen, HeldIsBought, pos # 0
  PROVE  /\ trade \in Trades /\ Order.size \in {Size, -Size}
         /\ Sign(pos) = Sign(Order.size) /\ Abs(pos) <= Size
  <1>1. trade \in Trades /\ Within(pos, FilledOf(Order)) /\ Whole(Order) /\ pos \in Int
    BY DEF HeldIsBought, OnlyLatestOpen, TypeOK, ManagerTypeOK, VenueTypeOK, Order
  <1>2. Order.size \in Int /\ Order.left \in Int
    BY <1>1, VenueAssumption DEF TypeOK, ManagerTypeOK, VenueTypeOK, EntryOrder, Order
  <1>3. Order.size \in {Size, -Size}
    BY <1>1 DEF Whole, NoOrder, FilledOf, Within
  <1> QED
    BY <1>1, <1>2, <1>3, VenueAssumption DEF Whole, Within, FilledOf, Sign, Abs

(***************************************************************************)
(* The invariant is kept: the loop.                                        *)
(***************************************************************************)

\* The loop is told to stop.
LEMMA StopKeeps ==
  ASSUME IInv, Stop
  PROVE  IInv'
  <1> USE DEF IInv, Stop, venue, protection, loop, observers
  <1>1. TypeOK'
    BY DEF TypeOK, ManagerTypeOK, VenueTypeOK, ProtectionTypeOK, LoopStates
  <1>2. OnlyLatestOpen'
    BY DEF OnlyLatestOpen, Calls, EntryStates, ProtectStates, Whole
  <1>3. (HeldIsBought /\ Shielded /\ booked.fills = booked.size)'
    BY DEF HeldIsBought, Shielded, SaysProtected, ReprotectedShort, Guarded, Order
  <1>4. (Entering /\ VerdictIsFinal /\ Protecting)'
    BY DEF Entering, VerdictIsFinal, Protecting, EntryStates, ProtectStates, Outcomes
  <1>5. (Callers /\ Tracking /\ Stepping /\ BetweenTrades)'
    BY DEF Callers, Tracking, Stepping, BetweenTrades, EntryStates, Order
  <1>6. LevelsAreWatched'
    BY DEF LevelsAreWatched, Calls, EntryStates, ProtectStates
  <1> QED
    BY <1>1, <1>2, <1>3, <1>4, <1>5, <1>6

\* countdown_cancel_all does what it was asked for, or counts as a failure.
LEMMA CountdownType ==
  ASSUME armed \in BOOLEAN, missed \in 0..Outage,
         NEW running \in BOOLEAN, NEW fault, Countdown(running, fault)
  PROVE  /\ armed' \in BOOLEAN /\ missed' \in 0..Outage
         /\ armed' = running \/ (armed' = armed /\ missed' > 0)
         /\ fault \notin Faults => armed' = running /\ missed' = 0
  <1>1. armed' = running \/ armed' = armed
    BY Zenon DEF Countdown
  <1>2. armed' \in BOOLEAN
    BY <1>1, Zenon
  <1>3. missed' = 0 \/ missed' = Least(missed + 1, Outage)
    BY DEF Countdown
  <1>4. missed' \in 0..Outage /\ (missed' = 0 \/ missed' > 0)
    BY <1>3, ProtectionAssumption DEF Least
  <1>5. CASE armed' = running /\ missed' = 0
    BY <1>2, <1>4, <1>5, Zenon
  <1>6. CASE fault \in Faults /\ missed' = Least(missed + 1, Outage) /\ UNCHANGED armed
    <2>1. missed' > 0
      BY <1>6, ProtectionAssumption DEF Least
    <2> QED
      BY <1>2, <1>4, <1>6, <2>1, Zenon
  <1> QED
    BY <1>5, <1>6, Zenon DEF Countdown

\* The countdown is released, or its release failed.
LEMMA ReleaseKeeps ==
  ASSUME IInv, Release
  PROVE  IInv'
  <1> USE DEF IInv, Release, Countdown, protection, loop, observers
  <1>1. /\ armed' \in BOOLEAN /\ missed' \in 0..Outage
        /\ tracked # NoPosition => ~armed' \/ missed' > 0
    BY CountdownType DEF TypeOK, ManagerTypeOK, VenueTypeOK, ProtectionTypeOK
  <1>2. TypeOK'
    BY <1>1 DEF TypeOK, ManagerTypeOK, VenueTypeOK, ProtectionTypeOK, LoopStates
  <1>3. OnlyLatestOpen'
    BY DEF OnlyLatestOpen, Whole
  <1>4. (HeldIsBought /\ Shielded /\ booked.fills = booked.size)'
    BY DEF HeldIsBought, Shielded, SaysProtected, ReprotectedShort, Guarded, Order
  <1>5. (Entering /\ VerdictIsFinal /\ Protecting)'
    BY DEF Entering, VerdictIsFinal, Protecting, EntryStates, ProtectStates, Outcomes
  <1>6. (Callers /\ Tracking /\ Stepping /\ BetweenTrades)'
    BY DEF Callers, Tracking, Stepping, BetweenTrades, EntryStates, Order
  <1>7. LevelsAreWatched'
    BY <1>1 DEF LevelsAreWatched
  <1> QED
    BY <1>2, <1>3, <1>4, <1>5, <1>6, <1>7

\* A caller of protect that starts from nothing.
LEMMA NoJobType == NoJob \in Job /\ NoJob.caller = "enter"
  <1>1. 0 \in -Size..Size /\ 1 \in 1..SlAttempts /\ {} \in SUBSET Trigger
    BY VenueAssumption, ProtectionAssumption
  <1> QED
    BY <1>1 DEF NoJob, Job

\* The process dies.
LEMMA CrashKeeps ==
  ASSUME IInv, Crash
  PROVE  IInv'
  <1> USE DEF IInv, Crash, venue, protection, loop, observers, Up
  <1>1. TypeOK'
    <2>1. lapsed' \in BOOLEAN
      BY Zenon
    <2>2. job' \in Job /\ held' \in 0..Size
      BY NoJobType, VenueAssumption
    <2> QED
      BY <2>1, <2>2 DEF TypeOK, ManagerTypeOK, VenueTypeOK, ProtectionTypeOK, LoopStates
  <1>2. OnlyLatestOpen'
    BY DEF OnlyLatestOpen, Whole
  <1>3. (HeldIsBought /\ Shielded /\ booked.fills = booked.size)'
    BY DEF HeldIsBought, Shielded, SaysProtected, Order
  <1>4. (Entering /\ VerdictIsFinal /\ Protecting)'
    BY DEF Entering, VerdictIsFinal, Protecting, EntryStates, ProtectStates, Outcomes
  <1>5. (Callers /\ Tracking /\ Stepping /\ BetweenTrades)'
    BY NoJobType DEF Callers, Tracking, Stepping, BetweenTrades, EntryStates
  <1>6. LevelsAreWatched'
    BY DEF LevelsAreWatched
  <1> QED
    BY <1>1, <1>2, <1>3, <1>4, <1>5, <1>6

\* A process starts on an account that is flat.
LEMMA StartKeeps ==
  ASSUME Sound, IInv, Start
  PROVE  IInv'
  <1> USE DEF IInv, Start, venue, protection, loop, observers, Up
  <1>1. triggers = {} /\ \A n \in Trades : orders[n].status # "open"
    BY DEF Sound
  <1>2. TypeOK'
    <2>1. lapsed' \in BOOLEAN
      BY Zenon
    <2>2. job' \in Job /\ held' \in 0..Size /\ missed' \in 0..Outage
      BY NoJobType, VenueAssumption, ProtectionAssumption
    <2> QED
      BY <2>1, <2>2 DEF TypeOK, ManagerTypeOK, VenueTypeOK, ProtectionTypeOK, LoopStates
  <1>3. OnlyLatestOpen'
    BY <1>1 DEF OnlyLatestOpen, Whole
  <1>4. (HeldIsBought /\ Shielded /\ booked.fills = booked.size)'
    BY DEF HeldIsBought, Shielded
  <1>5. (Entering /\ VerdictIsFinal /\ Protecting)'
    BY DEF Entering, VerdictIsFinal, Protecting, EntryStates, ProtectStates, Outcomes
  <1>6. (Callers /\ Tracking /\ Stepping /\ BetweenTrades)'
    BY <1>1, NoJobType DEF Callers, Tracking, Stepping, BetweenTrades, EntryStates
  <1>7. LevelsAreWatched'
    BY <1>1 DEF LevelsAreWatched
  <1> QED
    BY <1>2, <1>3, <1>4, <1>5, <1>6, <1>7

\* The countdown is refreshed, or the refresh failed.
LEMMA RefreshKeeps ==
  ASSUME IInv, RefreshCountdown
  PROVE  IInv'
  <1> USE DEF IInv, RefreshCountdown, Countdown, protection, loop, observers
  <1>1. /\ armed' \in BOOLEAN /\ missed' \in 0..Outage
        /\ armed => armed'
    <2>1. /\ armed' \in BOOLEAN /\ missed' \in 0..Outage
      BY CountdownType DEF TypeOK, ManagerTypeOK, VenueTypeOK, ProtectionTypeOK
    <2>2. armed => armed'
      BY Zenon
    <2> QED
      BY <2>1, <2>2
  <1>2. TypeOK'
    BY <1>1 DEF TypeOK, ManagerTypeOK, VenueTypeOK, ProtectionTypeOK, LoopStates
  <1>3. OnlyLatestOpen'
    BY DEF OnlyLatestOpen, Whole
  <1>4. (HeldIsBought /\ Shielded /\ booked.fills = booked.size)'
    BY DEF HeldIsBought, Shielded, SaysProtected, ReprotectedShort, Guarded, Order
  <1>5. (Entering /\ VerdictIsFinal /\ Protecting)'
    BY DEF Entering, VerdictIsFinal, Protecting, EntryStates, ProtectStates, Outcomes
  <1>6. (Callers /\ Tracking /\ Stepping /\ BetweenTrades)'
    BY DEF Callers, Tracking, Stepping, BetweenTrades, EntryStates, Order
  <1>7. LevelsAreWatched'
    BY <1>1 DEF LevelsAreWatched
  <1> QED
    BY <1>2, <1>3, <1>4, <1>5, <1>6, <1>7

\* What is tracked, and how much of it is left.
LEMMA TrackedType ==
  ASSUME TypeOK, tracked # NoPosition
  PROVE  /\ tracked \in Position
         /\ tracked.remaining \in 0..Size /\ tracked.fills \in 0..Size
         /\ tracked.size \in -Size..Size /\ tracked.direction \in {1, -1}
         /\ tracked.levels \in SUBSET Trigger
         /\ pos \in Int /\ held \in 0..Size /\ Size \in Nat \ {0}
  BY VenueAssumption DEF TypeOK, ManagerTypeOK, VenueTypeOK, Position

\* The first read of _settle.
LEMMA SettleKeeps ==
  ASSUME IInv, Settle
  PROVE  IInv'
  <1> USE DEF IInv, Settle, venue, protection, loop, observers
  <1>1. tracked # NoPosition /\ Abs(pos) <= tracked.remaining
    BY DEF Stepping, Tracking
  <1>2. held' \in 0..Size /\ (pc' = "list" => Abs(pos) <= held' /\ held' <= tracked.remaining)
    BY <1>1, TrackedType DEF Abs
  <1>3. TypeOK'
    BY <1>2 DEF TypeOK, ManagerTypeOK, VenueTypeOK, ProtectionTypeOK, LoopStates
  <1>4. OnlyLatestOpen'
    BY DEF OnlyLatestOpen, Whole
  <1>5. (HeldIsBought /\ Shielded /\ booked.fills = booked.size)'
    BY DEF HeldIsBought, Shielded, SaysProtected, ReprotectedShort, Guarded, Order
  <1>6. (Entering /\ VerdictIsFinal /\ Protecting)'
    BY DEF Entering, VerdictIsFinal, Protecting, EntryStates, ProtectStates, Outcomes
  <1>7. (Callers /\ Tracking /\ Stepping /\ BetweenTrades)'
    BY <1>1, <1>2 DEF Callers, Tracking, Stepping, BetweenTrades, EntryStates, Order
  <1>8. LevelsAreWatched'
    BY DEF LevelsAreWatched
  <1> QED
    BY <1>3, <1>4, <1>5, <1>6, <1>7, <1>8

\* The contracts a level takes are a whole number.
LEMMA ChunkType ==
  ASSUME TypeOK, tracked # NoPosition, NEW rank \in 0..3
  PROVE  ChunkAt(rank) \in Int
  BY TrackedType, ProtectionAssumption DEF ChunkAt, LegSize, Abs

\* Booking to the levels never books more than there is, so nothing is lost or made up.
LEMMA BookedAll ==
  ASSUME TypeOK, tracked # NoPosition, NEW gone, NEW closed \in Nat
  PROVE  Booked(gone, closed) = closed
  <1> DEFINE after(rank, owed) ==
                 IF owed > 0 /\ \E level \in gone : Rank(level) = rank
                 THEN owed - Least(owed, ChunkAt(rank)) ELSE owed
  <1>1. ASSUME NEW rank \in 0..3, NEW owed \in Nat
        PROVE  after(rank, owed) \in Nat
    BY <1>1, ChunkType DEF Least
  <1>2. Owed(gone, closed)[5] = after(3, after(2, after(1, after(0, closed))))
    BY DEF Owed
  <1> HIDE DEF after
  <1>3. Owed(gone, closed)[5] \in Nat
    <2>1. after(0, closed) \in Nat
      BY <1>1
    <2>2. after(1, after(0, closed)) \in Nat
      BY <1>1, <2>1
    <2>3. after(2, after(1, after(0, closed))) \in Nat
      BY <1>1, <2>2
    <2>4. after(3, after(2, after(1, after(0, closed)))) \in Nat
      BY <1>1, <2>3
    <2> QED
      BY <1>2, <2>4
  <1> QED
    BY <1>3 DEF Booked

\* A trade ends with its fills adding up.
LEMMA ClosedTrade ==
  ASSUME TypeOK, Tracking, tracked # NoPosition, CloseTrade(tracked.remaining)
  PROVE  /\ booked' \in [size : 0..Size, fills : 0..Size] /\ booked'.fills = booked'.size
         /\ tracked' = NoPosition /\ lapsed' = FALSE /\ hasty' = hasty
         /\ lapsed' \in BOOLEAN /\ hasty' \in BOOLEAN
  <1>1. tracked.fills + tracked.remaining = Abs(tracked.size) /\ Abs(tracked.size) \in 0..Size
    BY TrackedType DEF Tracking, Abs
  <1>2. booked' = [size |-> Abs(tracked.size), fills |-> Abs(tracked.size)]
    BY <1>1 DEF CloseTrade
  <1>3. lapsed' \in BOOLEAN /\ hasty' \in BOOLEAN
    BY Zenon DEF CloseTrade, TypeOK
  <1> QED
    BY <1>1, <1>2, <1>3 DEF CloseTrade

\* The second read of _settle.
LEMMA ReconcileKeeps ==
  ASSUME IInv, Reconcile
  PROVE  IInv'
  <1> USE DEF IInv, venue, protection, loop, observers
  <1> DEFINE gone == tracked.levels \ triggers
             closed == tracked.remaining - held
  <1>0. pc = "list" /\ held' = 0 /\ UNCHANGED <<venue, trade, record, protection>>
    BY DEF Reconcile
  <1>1. /\ tracked # NoPosition /\ Abs(pos) <= held /\ held <= tracked.remaining
        /\ tracked \in Position /\ closed \in Nat
        /\ tracked.fills + tracked.remaining = Abs(tracked.size)
    BY <1>0, TrackedType DEF Stepping, Tracking
  <1>2. Booked(gone, closed) = closed
    BY <1>1, BookedAll
  <1>3. /\ held' \in 0..Size
        /\ triggers # {} => armed
    BY <1>0, VenueAssumption DEF LevelsAreWatched
  <1>4. CASE "read" \in Faults /\ pc' = "session" /\ UNCHANGED <<tracked, observers>>
    <2>1. TypeOK'
      BY <1>0, <1>3, <1>4 DEF TypeOK, ManagerTypeOK, VenueTypeOK, ProtectionTypeOK, LoopStates
    <2>2. OnlyLatestOpen'
      BY <1>0, <1>4 DEF OnlyLatestOpen, Whole
    <2>3. (HeldIsBought /\ Shielded /\ booked.fills = booked.size)'
      BY <1>0, <1>4 DEF HeldIsBought, Shielded, SaysProtected, ReprotectedShort, Guarded, Order
    <2>4. (Entering /\ VerdictIsFinal /\ Protecting)'
      BY <1>0, <1>4
      DEF Entering, VerdictIsFinal, Protecting, EntryStates, ProtectStates, Outcomes
    <2>5. (Callers /\ Tracking /\ Stepping /\ BetweenTrades)'
      BY <1>0, <1>1, <1>4 DEF Callers, Tracking, Stepping, BetweenTrades, EntryStates, Order
    <2>6. LevelsAreWatched'
      BY <1>0, <1>4 DEF LevelsAreWatched
    <2> QED
      BY <1>0, <1>4, <2>1, <2>2, <2>3, <2>4, <2>5, <2>6
  <1>5. CASE held = 0 /\ CloseTrade(Booked(gone, closed)) /\ pc' = "idle"
    <2>1. CloseTrade(tracked.remaining) /\ pos = 0
      BY <1>0, <1>1, <1>2, <1>5, TrackedType DEF Abs
    <2>2. /\ booked' \in [size : 0..Size, fills : 0..Size] /\ booked'.fills = booked'.size
          /\ tracked' = NoPosition /\ hasty' = hasty
          /\ lapsed' \in BOOLEAN /\ hasty' \in BOOLEAN
      BY <1>1, <2>1, ClosedTrade
    <2>3. TypeOK'
      BY <1>0, <1>3, <1>5, <2>2
      DEF TypeOK, ManagerTypeOK, VenueTypeOK, ProtectionTypeOK, LoopStates
    <2>4. OnlyLatestOpen'
      BY <1>0, <1>5 DEF OnlyLatestOpen, Whole
    <2>5. (HeldIsBought /\ Shielded)'
      BY <1>0, <1>5, <2>1 DEF HeldIsBought, Shielded
    <2>6. (Entering /\ VerdictIsFinal /\ Protecting)'
      BY <1>0, <1>5
      DEF Entering, VerdictIsFinal, Protecting, EntryStates, ProtectStates, Outcomes
    <2>7. (Callers /\ Tracking /\ Stepping /\ BetweenTrades)'
      BY <1>0, <1>3, <1>5, <2>1, <2>2
      DEF Callers, Tracking, Stepping, BetweenTrades, EntryStates
    <2>8. LevelsAreWatched'
      BY <1>0, <1>5, <2>2 DEF LevelsAreWatched
    <2> QED
      BY <2>2, <2>3, <2>4, <2>5, <2>6, <2>7, <2>8
  <1>6. CASE /\ tracked' = [tracked EXCEPT !.remaining = held,
                                           !.fills = @ + Booked(gone, closed),
                                           !.levels = @ \ BookedLevels(gone, closed)]
             /\ pc' = "session"
             /\ UNCHANGED observers
    <2> DEFINE levels == tracked.levels \ BookedLevels(gone, closed)
               fills == tracked.fills + closed
    <2>1. /\ levels \in SUBSET Trigger /\ fills \in 0..Size /\ held \in 0..Size
          /\ fills + held = Abs(tracked.size)
      <3>1. levels \in SUBSET Trigger
        BY <1>1, TrackedType
      <3>2. fills + held = Abs(tracked.size) /\ held \in 0..Size /\ fills \in Nat
        BY <1>1, TrackedType
      <3>3. Abs(tracked.size) \in 0..Size
        BY <1>1, TrackedType DEF Abs
      <3> QED
        BY <1>1, <3>1, <3>2, <3>3, TrackedType
    <2>2. tracked' = [tracked EXCEPT !.remaining = held, !.fills = fills, !.levels = levels]
      BY <1>2, <1>0, <1>6
    <2> HIDE DEF levels, fills
    <2>3. /\ tracked' \in Position /\ tracked' # NoPosition
          /\ tracked'.direction = tracked.direction /\ tracked'.size = tracked.size
          /\ tracked'.protected = tracked.protected /\ tracked'.recovered = tracked.recovered
          /\ tracked'.remaining = held /\ tracked'.fills = fills
      BY <1>1, <2>1, <2>2, NoPositionAssumption DEF Position
    <2>4. TypeOK'
      BY <1>0, <1>3, <1>6, <2>3
      DEF TypeOK, ManagerTypeOK, VenueTypeOK, ProtectionTypeOK, LoopStates
    <2>5. OnlyLatestOpen'
      BY <1>0, <1>1, <1>6 DEF OnlyLatestOpen, Whole
    <2>6. (HeldIsBought /\ Shielded /\ booked.fills = booked.size)'
      BY <1>0, <1>1, <1>6, <2>3
      DEF HeldIsBought, Shielded, SaysProtected, ReprotectedShort, Guarded, Order
    <2>7. (Entering /\ VerdictIsFinal /\ Protecting)'
      BY <1>0, <1>6
      DEF Entering, VerdictIsFinal, Protecting, EntryStates, ProtectStates, Outcomes
    <2>8. (Callers /\ Tracking /\ Stepping /\ BetweenTrades)'
      BY <1>0, <1>1, <1>6, <2>1, <2>3
      DEF Callers, Tracking, Stepping, BetweenTrades, EntryStates, Order
    <2>9. LevelsAreWatched'
      BY <1>0, <1>6 DEF LevelsAreWatched
    <2> QED
      BY <2>4, <2>5, <2>6, <2>7, <2>8, <2>9
  <1> QED
    BY <1>4, <1>5, <1>6 DEF Reconcile

\* A call of protect is well typed.
LEMMA ProtectType ==
  ASSUME job \in Job, NEW caller \in {"enter", "reprotect"}, NEW direction \in {1, -1},
         NEW size \in -Size..Size, Protect(caller, direction, size)
  PROVE  /\ job' \in Job /\ pc' = "arm"
         /\ job'.caller = caller /\ job'.direction = direction /\ job'.size = size
  <1> DEFINE call == IF caller = "enter" THEN 1 ELSE job.call + 1
  <1>1. call \in Nat /\ 1 \in 1..SlAttempts /\ {} \in SUBSET Trigger
    BY ProtectionAssumption DEF Job
  <1>2. job' = [caller |-> caller, call |-> call, direction |-> direction, size |-> size,
                try |-> 1, levels |-> {}]
    BY DEF Protect
  <1> HIDE DEF call
  <1> QED
    BY <1>1, <1>2 DEF Protect, Job

\* The session says to flatten, or what is not protected is protected, or the step ends.
LEMMA SessionKeeps ==
  ASSUME IInv, CheckSession
  PROVE  IInv'
  <1> USE DEF IInv, venue, protection, loop, observers
  <1>1. /\ pc = "session" /\ held' = 0 /\ 0 \in 0..Size
        /\ UNCHANGED <<venue, trade, record, missed, tracked, observers>>
    BY VenueAssumption DEF CheckSession
  <1>2. tracked # NoPosition /\ Abs(pos) <= tracked.remaining /\ job.caller = "enter"
    BY <1>1 DEF Stepping, Tracking, Callers
  <1>3. OnlyLatestOpen'
    BY <1>1, <1>2 DEF OnlyLatestOpen, Whole
  <1>4. (HeldIsBought /\ Shielded /\ Tracking /\ booked.fills = booked.size)'
    BY <1>1
    DEF HeldIsBought, Shielded, SaysProtected, ReprotectedShort, Guarded, Tracking, Order
  <1>5. CASE pc' \in {"close", "idle"} /\ UNCHANGED job
    <2>1. TypeOK'
      BY <1>1, <1>5 DEF TypeOK, ManagerTypeOK, VenueTypeOK, ProtectionTypeOK, LoopStates
    <2>2. (Entering /\ VerdictIsFinal /\ Protecting)'
      BY <1>5 DEF Entering, VerdictIsFinal, Protecting, EntryStates, ProtectStates, Outcomes
    <2>3. (Callers /\ Stepping /\ BetweenTrades /\ LevelsAreWatched)'
      BY <1>1, <1>2, <1>5 DEF Callers, Stepping, BetweenTrades, LevelsAreWatched, EntryStates
    <2> QED
      BY <1>3, <1>4, <2>1, <2>2, <2>3
  <1>6. CASE ~tracked.protected /\ Protect("reprotect", tracked.direction, tracked.remaining)
    <2>1. /\ job' \in Job /\ pc' = "arm"
          /\ job'.caller = "reprotect" /\ job'.direction = tracked.direction
          /\ job'.size = tracked.remaining
      <3>1. tracked.direction \in {1, -1} /\ tracked.remaining \in -Size..Size
        BY <1>2, TrackedType
      <3> QED
        BY <1>6, <3>1, ProtectType DEF TypeOK, ProtectionTypeOK
    <2>2. TypeOK'
      BY <1>1, <2>1
      DEF TypeOK, ManagerTypeOK, VenueTypeOK, ProtectionTypeOK, LoopStates, ProtectStates
    <2>3. (Entering /\ VerdictIsFinal)'
      BY <2>1 DEF Entering, VerdictIsFinal, EntryStates
    <2>4. Protecting'
      BY <1>1, <1>2, <1>6, <2>1, TrackedType DEF Protecting, Tracking, Abs, Order
    <2>5. (Callers /\ Stepping /\ BetweenTrades /\ LevelsAreWatched)'
      BY <1>1, <1>2, <2>1 DEF Callers, Stepping, BetweenTrades, LevelsAreWatched, EntryStates
    <2> QED
      BY <1>3, <1>4, <2>2, <2>3, <2>4, <2>5
  <1> QED
    BY <1>5, <1>6 DEF CheckSession

\* A reduce-only close leaves the position where it was or nearer to nothing.
LEMMA ClosedPosition ==
  ASSUME pos \in Int, NEW raised \in BOOLEAN, ClosePosition(raised)
  PROVE  /\ pos' \in Int /\ Within(pos', pos)
         /\ UNCHANGED <<orders, triggers, armed>>
  BY DEF ClosePosition, Within, Sign, Abs

\* A part of an amount has its sign, and is no more.
LEMMA WithinFacts ==
  ASSUME NEW part \in Int, NEW amount \in Int, Within(part, amount)
  PROVE  /\ part # 0 => amount # 0 /\ Sign(part) = Sign(amount)
         /\ Abs(part) <= Abs(amount) /\ Abs(part) \in Nat /\ Abs(amount) \in Nat
  <1>1. Abs(part) <= Abs(amount) /\ Abs(part) \in Nat /\ Abs(amount) \in Nat
    BY DEF Within, Abs
  <1>2. part # 0 => amount # 0 /\ Sign(part) = Sign(amount)
    BY DEF Within, Sign
  <1> QED
    BY <1>1, <1>2

\* What holds of a position holds of what is left of it.
LEMMA SmallerPosition ==
  ASSUME IInv, pos' \in Int, Within(pos', pos), UNCHANGED <<orders, trade>>
  PROVE  /\ HeldIsBought'
         /\ pos' # 0 => pos # 0 /\ Sign(pos') = Sign(pos)
         /\ Abs(pos') <= Abs(pos) /\ Abs(pos') \in Nat /\ Abs(pos) \in Nat
  <1>1. pos \in Int
    BY DEF IInv, TypeOK, ManagerTypeOK, VenueTypeOK
  <1>2. /\ pos' # 0 => pos # 0 /\ Sign(pos') = Sign(pos)
        /\ Abs(pos') <= Abs(pos) /\ Abs(pos') \in Nat /\ Abs(pos) \in Nat
    BY <1>1, WithinFacts
  <1>3. ASSUME pos' # 0 PROVE trade \in Trades /\ Within(pos', FilledOf(Order))
    <2>1. trade \in Trades /\ Within(pos, FilledOf(Order))
      BY <1>2, <1>3 DEF IInv, HeldIsBought
    <2>2. FilledOf(Order) \in Int
      BY <2>1 DEF IInv, TypeOK, ManagerTypeOK, VenueTypeOK, Order, EntryOrder, FilledOf
    <2> QED
      BY <1>1, <2>1, <2>2 DEF Within
  <1> QED
    BY <1>2, <1>3 DEF HeldIsBought, Order

\* What shielded the position shields what is left of it.
LEMMA StillShielded ==
  ASSUME IInv, pos' \in Int, Within(pos', pos),
         UNCHANGED <<orders, trade, triggers, tracked, lapsed>>
  PROVE  Shielded'
  <1> SUFFICES ASSUME pos' # 0, SaysProtected, ~ReprotectedShort, ~lapsed
               PROVE  Guarded'
    BY DEF Shielded, SaysProtected, ReprotectedShort
  <1>1. /\ pos # 0 /\ Sign(pos') = Sign(pos)
        /\ Abs(pos') <= Abs(pos) /\ Abs(pos') \in Nat /\ Abs(pos) \in Nat
    BY SmallerPosition
  <1>2. PICK t \in triggers : /\ t.name = "stop"
                              /\ t.trade = trade
                              /\ Sign(t.size) = -Sign(pos)
                              /\ Abs(t.size) >= Abs(pos)
                              /\ t.rule = StopTriggerRule(Sign(pos))
    BY <1>1 DEF IInv, Shielded, Guarded
  <1>3. Abs(t.size) \in Int
    BY VenueAssumption DEF IInv, TypeOK, ManagerTypeOK, VenueTypeOK, Trigger, Abs
  <1>4. Abs(t.size) >= Abs(pos')
    BY <1>1, <1>2, <1>3
  <1> QED
    BY <1>1, <1>2, <1>4 DEF Guarded

\* The session's close.
LEMMA CloseAllKeeps ==
  ASSUME IInv, CloseAll
  PROVE  IInv'
  <1> USE DEF IInv, protection, loop, observers
  <1>1. /\ pc = "close" /\ pc' = "check" /\ pos \in Int
        /\ UNCHANGED <<trade, record, protection, loop, observers>>
    BY DEF CloseAll, TypeOK, ManagerTypeOK, VenueTypeOK
  <1>2. pos' \in Int /\ Within(pos', pos) /\ UNCHANGED <<orders, triggers, armed>>
    BY <1>1, ClosedPosition DEF CloseAll
  <1>3. HeldIsBought' /\ Abs(pos') <= Abs(pos) /\ Abs(pos') \in Nat /\ Abs(pos) \in Nat
    BY <1>1, <1>2, SmallerPosition
  <1>4. TypeOK'
    BY <1>1, <1>2 DEF TypeOK, ManagerTypeOK, VenueTypeOK, ProtectionTypeOK, LoopStates
  <1>5. OnlyLatestOpen'
    BY <1>1, <1>2 DEF OnlyLatestOpen, Whole
  <1>6. Shielded'
    BY <1>1, <1>2, StillShielded
  <1>7. (Entering /\ VerdictIsFinal /\ Protecting)'
    BY <1>1 DEF Entering, VerdictIsFinal, Protecting, EntryStates, ProtectStates, Outcomes
  <1>8. tracked # NoPosition /\ tracked.remaining \in Nat
    BY <1>1, TrackedType DEF Stepping
  <1>9. (Callers /\ Tracking /\ Stepping /\ BetweenTrades /\ LevelsAreWatched)'
    BY <1>1, <1>2, <1>3, <1>8
    DEF Callers, Tracking, Stepping, BetweenTrades, LevelsAreWatched, EntryStates, Order
  <1> QED
    BY <1>1, <1>3, <1>4, <1>5, <1>6, <1>7, <1>9

\* What the session's close left is read.
LEMMA CheckClosedKeeps ==
  ASSUME IInv, CheckClosed
  PROVE  IInv'
  <1> USE DEF IInv, venue, protection, loop, observers
  <1>1. /\ pc = "check" /\ pc' \in {"sweep", "idle"}
        /\ pc' = "sweep" => pos = 0
        /\ UNCHANGED <<venue, trade, record, protection, loop, observers>>
    BY DEF CheckClosed
  <1>2. TypeOK'
    BY <1>1 DEF TypeOK, ManagerTypeOK, VenueTypeOK, ProtectionTypeOK, LoopStates
  <1>3. tracked # NoPosition
    BY <1>1 DEF Stepping
  <1>4. OnlyLatestOpen'
    BY <1>1, <1>3 DEF OnlyLatestOpen, Whole
  <1>5. (HeldIsBought /\ Shielded /\ booked.fills = booked.size)'
    BY <1>1 DEF HeldIsBought, Shielded, SaysProtected, ReprotectedShort, Guarded, Order
  <1>6. (Entering /\ VerdictIsFinal /\ Protecting)'
    BY <1>1 DEF Entering, VerdictIsFinal, Protecting, EntryStates, ProtectStates, Outcomes
  <1>7. (Tracking /\ Stepping /\ BetweenTrades /\ LevelsAreWatched)'
    BY <1>1, <1>3 DEF Tracking, Stepping, BetweenTrades, LevelsAreWatched, Order
  <1>8. Callers'
    BY <1>1, <1>3 DEF Callers
  <1> QED
    BY <1>2, <1>4, <1>5, <1>6, <1>7, <1>8

\* The levels are swept, and the trade ends.
LEMMA SweepKeeps ==
  ASSUME IInv, SweepLevels
  PROVE  IInv'
  <1> USE DEF IInv, protection, loop, observers
  <1>1. /\ pc = "sweep" /\ pc' = "idle" /\ triggers' \in SUBSET triggers
        /\ CloseTrade(tracked.remaining)
        /\ UNCHANGED <<trade, record, protection, pos, orders, armed, held>>
    BY DEF SweepLevels
  <1>2. tracked # NoPosition /\ pos = 0 /\ job.caller = "enter"
    BY <1>1 DEF Stepping, Callers
  <1>3. /\ booked' \in [size : 0..Size, fills : 0..Size] /\ booked'.fills = booked'.size
        /\ tracked' = NoPosition /\ hasty' = hasty
        /\ lapsed' \in BOOLEAN /\ hasty' \in BOOLEAN
    BY <1>1, <1>2, ClosedTrade
  <1>4. TypeOK'
    BY <1>1, <1>3 DEF TypeOK, ManagerTypeOK, VenueTypeOK, ProtectionTypeOK, LoopStates
  <1>5. OnlyLatestOpen'
    BY <1>1, <1>2 DEF OnlyLatestOpen, Whole
  <1>6. (HeldIsBought /\ Shielded)'
    BY <1>1, <1>2 DEF HeldIsBought, Shielded
  <1>7. (Entering /\ VerdictIsFinal /\ Protecting)'
    BY <1>1 DEF Entering, VerdictIsFinal, Protecting, EntryStates, ProtectStates, Outcomes
  <1>8. triggers # {} => armed
    BY <1>1 DEF LevelsAreWatched
  <1>9. IsFiniteSet(triggers')
    BY <1>1, FS_Subset DEF LevelsAreWatched
  <1>10. (Callers /\ Tracking /\ Stepping /\ BetweenTrades /\ LevelsAreWatched)'
    BY <1>1, <1>2, <1>3, <1>8, <1>9
    DEF Callers, Tracking, Stepping, BetweenTrades, LevelsAreWatched, EntryStates
  <1> QED
    BY <1>3, <1>4, <1>5, <1>6, <1>7, <1>10

\* A call of protect that is over leaves only its number.
LEMMA ReturnedType ==
  ASSUME job \in Job, Returned
  PROVE  job' \in Job /\ job'.caller = "enter"
  <1>1. job.call \in Nat
    BY DEF Job
  <1> QED
    BY <1>1, NoJobType DEF Returned, Job

\* What protect protected, or could not, is tracked.
LEMMA TrackType ==
  ASSUME TypeOK, job.size # 0, NEW levels \in SUBSET Trigger, NEW protected \in BOOLEAN,
         Track(levels, protected)
  PROVE  /\ tracked' \in Position /\ tracked' # NoPosition
         /\ tracked'.direction = Sign(job.size) /\ tracked'.size = job.size
         /\ tracked'.remaining = Abs(job.size) /\ tracked'.fills = 0
         /\ tracked'.protected = protected /\ tracked'.recovered = FALSE
  <1>1. /\ job.size \in -Size..Size /\ Sign(job.size) \in {1, -1} /\ Abs(job.size) \in 0..Size
        /\ 0 \in 0..Size
    BY VenueAssumption DEF TypeOK, ProtectionTypeOK, Job, Sign, Abs
  <1>2. FALSE \in BOOLEAN
    OBVIOUS
  <1>3. tracked' = [direction |-> Sign(job.size), size |-> job.size,
                    remaining |-> Abs(job.size), fills |-> 0, levels |-> levels,
                    protected |-> protected, recovered |-> FALSE]
    BY DEF Track
  <1>4. tracked' \in Position
    BY ONLY <1>1, <1>2, <1>3, levels \in SUBSET Trigger, protected \in BOOLEAN, Zenon
    DEF Position
  <1> QED
    BY <1>3, <1>4, NoPositionAssumption

\* The stop of a call that covers what is held guards it.
LEMMA StopGuards ==
  ASSUME pos \in Int, job.size \in Int, job.direction \in {1, -1}, StopLevel \in triggers,
         Sign(pos) = job.direction, Sign(job.size) = job.direction, Abs(job.size) >= Abs(pos)
  PROVE  Guarded
  <1>1. StopLevel.name = "stop" /\ StopLevel.trade = trade /\ StopLevel.size = -job.size
        /\ StopLevel.rule = StopTriggerRule(job.direction)
    BY DEF StopLevel, Level
  <1>2. Sign(-job.size) = -Sign(job.size) /\ Abs(-job.size) = Abs(job.size)
    BY DEF Sign, Abs
  <1> QED
    BY <1>1, <1>2 DEF Guarded

\* _enter takes protect's result.
LEMMA ProtectionKeeps ==
  ASSUME IInv, HandleProtection
  PROVE  IInv'
  <1> USE DEF IInv, venue, protection, loop, observers
  <1>1. /\ pc \in Outcomes /\ job.caller = "enter" /\ Returned
        /\ UNCHANGED <<venue, trade, record, missed, held, observers>>
        /\ pc' \in {"idle", "close"}
    BY DEF HandleProtection, Outcomes
  <1>2. /\ tracked = NoPosition /\ trade \in Trades /\ Order.size # 0
        /\ job.direction = Sign(Order.size) /\ Sign(job.size) = job.direction
        /\ Abs(pos) <= Abs(job.size) /\ armed
    BY <1>1 DEF Protecting, ProtectStates, Outcomes
  <1>3. /\ job \in Job /\ job.size \in -Size..Size /\ job.direction \in {1, -1}
        /\ job.levels \in SUBSET Trigger /\ pos \in Int
    BY DEF TypeOK, ManagerTypeOK, VenueTypeOK, ProtectionTypeOK, Job
  <1>4. job.size # 0 /\ job' \in Job /\ job'.caller = "enter"
    BY <1>1, <1>2, <1>3, ReturnedType DEF Sign
  <1>5. OnlyLatestOpen'
    BY <1>1 DEF OnlyLatestOpen, Whole, Outcomes
  <1>6. (HeldIsBought /\ booked.fills = booked.size)'
    BY <1>1 DEF HeldIsBought, Order
  <1>7. (Entering /\ VerdictIsFinal /\ Protecting)'
    BY <1>1 DEF Entering, VerdictIsFinal, Protecting, EntryStates, ProtectStates, Outcomes
  <1>8. (Callers /\ LevelsAreWatched)'
    BY <1>1, <1>2, <1>4 DEF Callers, LevelsAreWatched
  <1>9. CASE pc = "flattened" /\ pc' = "idle" /\ UNCHANGED tracked
    <2>1. pos = 0
      BY <1>9 DEF Protecting, Outcomes
    <2>2. TypeOK'
      BY <1>1, <1>4, <1>9
      DEF TypeOK, ManagerTypeOK, VenueTypeOK, ProtectionTypeOK, LoopStates
    <2>3. (Tracking /\ Stepping /\ BetweenTrades /\ Shielded)'
      BY <1>1, <1>2, <1>9, <2>1 DEF Tracking, Stepping, BetweenTrades, Shielded
    <2> QED
      BY <1>5, <1>6, <1>7, <1>8, <2>2, <2>3
  <1>10. ASSUME NEW levels \in SUBSET Trigger, NEW protected \in BOOLEAN,
                Track(levels, protected)
         PROVE  /\ TypeOK' /\ (Tracking /\ Stepping /\ BetweenTrades)'
                /\ tracked' # NoPosition /\ tracked'.protected = protected
    <2>1. /\ tracked' \in Position /\ tracked' # NoPosition
          /\ tracked'.direction = Sign(job.size) /\ tracked'.size = job.size
          /\ tracked'.remaining = Abs(job.size) /\ tracked'.fills = 0
          /\ tracked'.protected = protected
      BY <1>4, <1>10, TrackType
    <2>2. TypeOK'
      BY <1>1, <1>4, <1>10, <2>1
      DEF TypeOK, ManagerTypeOK, VenueTypeOK, ProtectionTypeOK, LoopStates
    <2>3. Abs(job.size) \in Int
      BY <1>3 DEF Abs
    <2>4. (Tracking /\ Stepping /\ BetweenTrades)'
      BY <1>1, <1>2, <2>1, <2>3 DEF Tracking, Stepping, BetweenTrades, Order
    <2> QED
      BY <2>1, <2>2, <2>4
  <1>11. CASE pc = "unprotected" /\ Track({}, FALSE) /\ pc' = "close"
    <2>1. /\ TypeOK' /\ (Tracking /\ Stepping /\ BetweenTrades)'
          /\ tracked'.protected = FALSE
      BY <1>10, <1>11
    <2>2. Shielded'
      BY <2>1 DEF Shielded, SaysProtected
    <2> QED
      BY <1>5, <1>6, <1>7, <1>8, <2>1, <2>2
  <1>12. CASE pc = "protected" /\ Track(job.levels, TRUE) /\ pc' = "idle"
    <2>1. TypeOK' /\ (Tracking /\ Stepping /\ BetweenTrades)'
      BY <1>3, <1>10, <1>12
    <2>2. ASSUME pos # 0 PROVE Guarded
      <3>1. Sign(pos) = job.direction
        BY <1>2, <2>2, HeldSide
      <3>2. StopLevel \in triggers
        BY <1>2, <1>12, <2>2 DEF Protecting, Outcomes
      <3> QED
        BY <1>2, <1>3, <3>1, <3>2, VenueAssumption, StopGuards
    <2>3. Shielded'
      BY <1>1, <2>2 DEF Shielded, Guarded
    <2> QED
      BY <1>5, <1>6, <1>7, <1>8, <2>1, <2>3
  <1> QED
    BY <1>1, <1>9, <1>11, <1>12, Zenon DEF HandleProtection, Outcomes

\* _reprotect takes protect's result.
LEMMA ReprotectionKeeps ==
  ASSUME IInv, HandleReprotection
  PROVE  IInv'
  <1> USE DEF IInv, venue, protection, loop, observers
  <1>1. /\ pc \in Outcomes \cup {"raised"} /\ job.caller = "reprotect" /\ Returned
        /\ UNCHANGED <<venue, trade, record, missed, held, booked, hasty>>
        /\ pc' = IF pc = "flattened" THEN "close" ELSE "idle"
        /\ lapsed' = (lapsed /\ pc # "protected")
    BY Zenon DEF HandleReprotection
  <1>2. tracked # NoPosition
    BY <1>1 DEF Callers
  <1>3. /\ tracked \in Position /\ job \in Job /\ job.levels \in SUBSET Trigger /\ pos \in Int
        /\ job.direction \in {1, -1} /\ job.size \in Int
    BY <1>2, TrackedType DEF TypeOK, ProtectionTypeOK, Job
  <1>4. job' \in Job /\ job'.caller = "enter"
    BY <1>1, <1>3, ReturnedType
  <1>5. lapsed' \in BOOLEAN
    BY <1>1, Zenon
  <1>6. OnlyLatestOpen'
    BY <1>1, <1>2 DEF OnlyLatestOpen, Whole, Outcomes
  <1>7. (HeldIsBought /\ booked.fills = booked.size)'
    BY <1>1 DEF HeldIsBought, Order
  <1>8. (Entering /\ VerdictIsFinal /\ Protecting)'
    BY <1>1 DEF Entering, VerdictIsFinal, Protecting, EntryStates, ProtectStates, Outcomes
  <1>9. (Callers /\ LevelsAreWatched)'
    BY <1>1, <1>4 DEF Callers, LevelsAreWatched, Outcomes
  <1>10. CASE pc # "protected" /\ UNCHANGED tracked
    <2>1. TypeOK'
      BY <1>1, <1>4, <1>5, <1>10
      DEF TypeOK, ManagerTypeOK, VenueTypeOK, ProtectionTypeOK, LoopStates
    <2>2. (Tracking /\ Stepping /\ BetweenTrades)'
      BY <1>1, <1>2, <1>10 DEF Tracking, Stepping, BetweenTrades, Order
    <2>3. lapsed' <=> lapsed
      BY <1>1, <1>10, Zenon
    <2>4. Shielded'
      BY <1>1, <1>10, <2>3 DEF Shielded, SaysProtected, ReprotectedShort, Guarded
    <2> QED
      BY <1>6, <1>7, <1>8, <1>9, <2>1, <2>2, <2>4
  <1>11. CASE /\ pc = "protected"
              /\ tracked' = [tracked EXCEPT !.protected = TRUE, !.levels = job.levels,
                                            !.recovered = TRUE]
    <2>1. /\ tracked' \in Position /\ tracked' # NoPosition
          /\ tracked'.direction = tracked.direction /\ tracked'.size = tracked.size
          /\ tracked'.remaining = tracked.remaining /\ tracked'.fills = tracked.fills
          /\ tracked'.recovered = TRUE
      BY <1>3, <1>11, NoPositionAssumption DEF Position
    <2>2. TypeOK'
      BY <1>1, <1>4, <1>5, <1>11, <2>1
      DEF TypeOK, ManagerTypeOK, VenueTypeOK, ProtectionTypeOK, LoopStates
    <2>3. (Tracking /\ Stepping /\ BetweenTrades)'
      BY <1>1, <1>2, <1>11, <2>1 DEF Tracking, Stepping, BetweenTrades, Order
    <2>4. ASSUME pos # 0, tracked.direction = 1 PROVE Guarded
      <3>1. /\ job.direction = tracked.direction /\ job.size = tracked.remaining
            /\ Abs(pos) <= Abs(job.size) /\ Abs(pos) <= tracked.remaining
        BY <1>1, <1>2, <1>11 DEF Protecting, Tracking, Outcomes
      <3>2. Sign(pos) = job.direction
        BY <1>2, <2>4, <3>1, HeldSide DEF Tracking
      <3>3. Sign(job.size) = job.direction
        BY <1>3, <2>4, <3>1 DEF Sign, Abs
      <3>4. StopLevel \in triggers
        BY <1>11, <2>4, <3>3 DEF Protecting, Outcomes
      <3>5. Abs(job.size) >= Abs(pos)
        BY <1>3, <3>1 DEF Abs
      <3> QED
        BY <1>3, <3>2, <3>3, <3>4, <3>5, StopGuards
    <2>5. tracked.direction \in {1, -1}
      BY <1>3 DEF Position
    <2>6. Shielded'
      BY <1>1, <2>1, <2>4, <2>5 DEF Shielded, ReprotectedShort, Guarded
    <2> QED
      BY <1>6, <1>7, <1>8, <1>9, <2>2, <2>3, <2>6
  <1> QED
    BY <1>10, <1>11 DEF HandleReprotection

(***************************************************************************)
(* The invariant is kept: the entry.                                       *)
(***************************************************************************)

\* The record of no entry.
LEMMA NoRecordType == NoRecord \in Record
  <1>1. 0 \in -Size..Size
    BY VenueAssumption
  <1> QED
    BY <1>1 DEF NoRecord, Record

\* A new entry is submitted.
LEMMA DecideKeeps ==
  ASSUME IInv, DecideToEnter
  PROVE  IInv'
  <1> USE DEF IInv, venue, protection, loop
  <1>1. /\ pc = "idle" /\ tracked = NoPosition
        /\ booked' = NothingBooked /\ hasty' = armed
        /\ UNCHANGED <<venue, protection, tracked, held, lapsed>>
    BY Zenon DEF DecideToEnter
  <1>2. pos = 0 /\ (triggers # {} => armed)
    BY <1>1 DEF BetweenTrades, LevelsAreWatched
  <1>3. PICK direction \in Directions : SubmitEntry(direction)
    BY DEF DecideToEnter
  <1>4. /\ trade \in 0..MaxTrades /\ trade' = trade + 1 /\ trade' \in Trades /\ pc' = "place"
        /\ record' = [state |-> "none", size |-> direction * Size, filled |-> 0]
        /\ record'.size \in {Size, -Size}
    BY <1>3, VenueAssumption, DirectionsAssumption
    DEF SubmitEntry, TypeOK, ManagerTypeOK, Trades, NoRecord
  <1>5. TypeOK'
    <2>1. record' \in Record
      <3>1. record'.size \in -Size..Size /\ 0 \in -Size..Size
        BY <1>4, VenueAssumption
      <3>2. record' = [state |-> "none", size |-> record'.size, filled |-> 0]
        BY <1>4
      <3> QED
        BY ONLY <3>1, <3>2 DEF Record
    <2>2. booked' \in [size : 0..Size, fills : 0..Size]
      BY <1>1, VenueAssumption DEF NothingBooked
    <2>3. hasty' \in BOOLEAN
      BY <1>1, Zenon DEF TypeOK, ManagerTypeOK, VenueTypeOK
    <2> QED
      BY <1>1, <1>4, <2>1, <2>2, <2>3
      DEF TypeOK, ManagerTypeOK, VenueTypeOK, ProtectionTypeOK, EntryStates, Trades
  <1>6. orders[trade'] = NoOrder
    BY <1>4 DEF OnlyLatestOpen, Trades
  <1>7. OnlyLatestOpen'
    BY <1>1, <1>4 DEF OnlyLatestOpen, Whole, Trades
  <1>8. (HeldIsBought /\ Shielded /\ booked.fills = booked.size)'
    BY <1>1, <1>2 DEF HeldIsBought, Shielded, NothingBooked
  <1>9. (Entering /\ VerdictIsFinal /\ Protecting)'
    BY <1>1, <1>2, <1>4, <1>6
    DEF Entering, VerdictIsFinal, Protecting, EntryStates, ProtectStates, Outcomes, Order
  <1>10. (Callers /\ Tracking /\ Stepping /\ BetweenTrades /\ LevelsAreWatched)'
    BY <1>1, <1>2, <1>4
    DEF Callers, Tracking, Stepping, BetweenTrades, LevelsAreWatched
  <1> QED
    BY <1>5, <1>7, <1>8, <1>9, <1>10

\* _enter takes submit_entry's verdict.
LEMMA VerdictKeeps ==
  ASSUME IInv, HandleVerdict
  PROVE  IInv'
  <1> USE DEF IInv, venue, protection, loop, observers
  <1>1. /\ pc = "verdict" /\ record' = NoRecord
        /\ UNCHANGED <<venue, trade, missed, loop, observers>>
    BY DEF HandleVerdict
  <1>2. /\ trade \in Trades /\ tracked = NoPosition
        /\ record.size \in {Size, -Size} /\ Order.size = record.size
        /\ Order.status # "none" /\ job.caller = "enter" /\ job \in Job /\ pos \in Int
    BY <1>1 DEF Entering, EntryStates, Callers, TypeOK, ManagerTypeOK, VenueTypeOK,
                ProtectionTypeOK
  <1>3. /\ Within(pos, FilledOf(Order)) /\ FilledOf(Order) \in Int
        /\ Within(FilledOf(Order), Order.size)
    <2>1. Whole(Order) /\ Order \in EntryOrder
      BY <1>2 DEF OnlyLatestOpen, TypeOK, ManagerTypeOK, VenueTypeOK, Order
    <2>2. FilledOf(Order) \in Int /\ Within(FilledOf(Order), Order.size)
      BY <2>1 DEF Whole, Within, FilledOf, EntryOrder
    <2> QED
      BY <2>2 DEF HeldIsBought, Within
  <1>4. OnlyLatestOpen' /\ \A n \in Trades : orders[n].status # "open"
    BY <1>1 DEF OnlyLatestOpen, Whole
  <1>5. (HeldIsBought /\ Shielded /\ booked.fills = booked.size)'
    BY <1>1, <1>2 DEF HeldIsBought, Shielded, SaysProtected, Order
  <1>6. (Tracking /\ LevelsAreWatched)'
    BY <1>1, <1>2 DEF Tracking, LevelsAreWatched
  <1>7. CASE record.state \notin HasExposure /\ pc' = "idle" /\ UNCHANGED job
    <2>1. FilledOf(Order) = 0
      BY <1>1, <1>7 DEF VerdictIsFinal
    <2>2. pos = 0
      BY <1>2, <1>3, <2>1 DEF Within
    <2>3. TypeOK'
      BY <1>1, <1>7, NoRecordType
      DEF TypeOK, ManagerTypeOK, VenueTypeOK, ProtectionTypeOK, LoopStates
    <2>4. (Entering /\ VerdictIsFinal /\ Protecting)'
      BY <1>7 DEF Entering, VerdictIsFinal, Protecting, EntryStates, ProtectStates, Outcomes
    <2>5. (Callers /\ Stepping /\ BetweenTrades)'
      BY <1>1, <1>2, <1>7, <2>2 DEF Callers, Stepping, BetweenTrades
    <2> QED
      BY <1>4, <1>5, <1>6, <2>3, <2>4, <2>5
  <1>8. ASSUME NEW size, Protect("enter", Sign(record.size), size),
               (size = pos /\ pos # 0) \/ size = record.size
                 \/ (size = record.filled /\ record.filled # 0)
        PROVE  IInv'
    <2>1. size = record.filled /\ record.filled # 0 => size = FilledOf(Order)
      BY <1>1 DEF VerdictIsFinal
    <2>2. /\ size \in -Size..Size /\ Sign(size) = Sign(Order.size)
          /\ Abs(pos) <= Abs(size) /\ Sign(Order.size) \in {1, -1}
      BY <1>2, <1>3, <1>8, <2>1, VenueAssumption DEF Within, Sign, Abs
    <2>3. /\ job' \in Job /\ pc' = "arm" /\ job'.caller = "enter"
          /\ job'.direction = Sign(Order.size) /\ job'.size = size
      BY <1>2, <1>8, <2>2, ProtectType
    <2>4. TypeOK'
      BY <1>1, <2>3, NoRecordType
      DEF TypeOK, ManagerTypeOK, VenueTypeOK, ProtectionTypeOK, ProtectStates
    <2>5. (Entering /\ VerdictIsFinal)'
      BY <2>3 DEF Entering, VerdictIsFinal, EntryStates
    <2>6. Protecting'
      BY <1>1, <1>2, <2>2, <2>3, VenueAssumption DEF Protecting, Order
    <2>7. (Callers /\ Stepping /\ BetweenTrades)'
      BY <2>3 DEF Callers, Stepping, BetweenTrades
    <2> QED
      BY <1>4, <1>5, <1>6, <2>4, <2>5, <2>6, <2>7
  <1>9. CASE record.state \in HasExposure
    <2> DEFINE told == IF record.filled # 0 THEN record.filled ELSE record.size
    <2>1. PICK size \in {IF pos # 0 THEN pos ELSE told}
                           \cup (IF "read" \in Faults THEN {told} ELSE {}) :
                 Protect("enter", Sign(record.size), size)
      BY <1>9 DEF HandleVerdict
    <2>2. (size = pos /\ pos # 0) \/ size = record.size
            \/ (size = record.filled /\ record.filled # 0)
      OBVIOUS
    <2> QED
      BY <1>8, <2>1, <2>2
  <1> QED
    BY <1>7, <1>9 DEF HandleVerdict

\* What is known while submit_entry works on an entry.
LEMMA WorkingType ==
  ASSUME IInv, pc \in EntryStates
  PROVE  /\ trade \in Trades /\ tracked = NoPosition
         /\ record \in Record /\ record.size \in {Size, -Size} /\ pos \in Int
         /\ record.state = "none" /\ record.filled = 0 /\ job.caller = "enter"
         /\ orders \in [Trades -> EntryOrder] /\ Order \in EntryOrder /\ Whole(Order)
         /\ pc = "place" => Order = NoOrder /\ pos = 0
         /\ pc # "place" => Order.size = record.size /\ Order.status # "none"
         /\ FilledOf(Order) \in -Size..Size
  <1>1. /\ trade \in Trades /\ tracked = NoPosition
        /\ record \in Record /\ record.size \in {Size, -Size} /\ pos \in Int
        /\ record.state = "none" /\ record.filled = 0 /\ job.caller = "enter"
        /\ orders \in [Trades -> EntryOrder]
        /\ pc = "place" => Order = NoOrder /\ pos = 0
        /\ pc # "place" => Order.size = record.size /\ Order.status # "none"
    BY DEF IInv, Entering, EntryStates, TypeOK, ManagerTypeOK, VenueTypeOK, Callers
  <1>2. Order \in EntryOrder /\ Whole(Order)
    BY <1>1 DEF IInv, OnlyLatestOpen, Order
  <1>3. FilledOf(Order) \in -Size..Size
    BY <1>2, VenueAssumption DEF FilledOf, EntryOrder, Whole, Within
  <1> QED
    BY <1>1, <1>2, <1>3

\* What every call of submit_entry has in common.
LEMMA WorkKeeps ==
  ASSUME IInv, pc \in EntryStates,
         UNCHANGED <<protection, loop, observers, trade, pos, triggers, armed>>,
         orders' \in [Trades -> EntryOrder],
         \A n \in Trades \ {trade} : orders'[n] = orders[n],
         Whole(orders'[trade]),
         FilledOf(orders'[trade]) = FilledOf(orders[trade]),
         record' \in Record, record'.size = record.size,
         pc' \in {"poll", "cancel", "recheck", "reread", "raised", "verdict"},
         orders'[trade].status = "open" => pc' \in {"poll", "cancel", "raised"},
         pc' # "raised" => orders'[trade].size = record.size /\ orders'[trade].status # "none",
         pc' # "verdict" => record'.state = "none" /\ record'.filled = 0,
         pc' = "verdict" =>
            /\ record'.state \notin HasExposure => FilledOf(orders[trade]) = 0
            /\ record'.filled # 0 => record'.filled = FilledOf(orders[trade])
  PROVE  IInv'
  <1> USE DEF protection, loop, observers
  <1>1. /\ trade \in Trades /\ tracked = NoPosition
        /\ record.size \in {Size, -Size} /\ job.caller = "enter"
        /\ pc = "place" => pos = 0
    BY WorkingType
  <1>2. TypeOK'
    BY DEF IInv, TypeOK, ManagerTypeOK, VenueTypeOK, ProtectionTypeOK, EntryStates, LoopStates
  <1>3. OnlyLatestOpen'
    BY <1>1 DEF IInv, OnlyLatestOpen, EntryStates, Trades
  <1>4. HeldIsBought' /\ Shielded' /\ (booked.fills = booked.size)'
    BY <1>1 DEF IInv, HeldIsBought, Shielded, SaysProtected, Order
  <1>5. Entering' /\ VerdictIsFinal' /\ Protecting'
    BY <1>1
    DEF Entering, VerdictIsFinal, Protecting, EntryStates, ProtectStates, Outcomes, Order
  <1>6. (Callers /\ Tracking /\ Stepping /\ BetweenTrades /\ LevelsAreWatched)'
    BY <1>1 DEF IInv, Callers, Tracking, Stepping, BetweenTrades, LevelsAreWatched, EntryStates
  <1> QED
    BY <1>2, <1>3, <1>4, <1>5, <1>6 DEF IInv

\* The same for a call that leaves every order alone.
LEMMA ReadKeeps ==
  ASSUME IInv, pc \in EntryStates \ {"place"},
         UNCHANGED <<protection, loop, observers, trade, venue>>,
         record' \in Record, record'.size = record.size,
         pc' \in {"cancel", "verdict"},
         pc' = "verdict" => Order.status # "open",
         pc' # "verdict" => record'.state = "none" /\ record'.filled = 0,
         pc' = "verdict" =>
            /\ record'.state \notin HasExposure => FilledOf(Order) = 0
            /\ record'.filled # 0 => record'.filled = FilledOf(Order)
  PROVE  IInv'
  <1>1. /\ orders' = orders /\ orders \in [Trades -> EntryOrder] /\ Whole(Order)
        /\ Order.size = record.size /\ Order.status # "none"
        /\ UNCHANGED <<protection, loop, observers, trade, pos, triggers, armed>>
        /\ pc \in EntryStates
    BY WorkingType DEF venue
  <1> QED
    BY <1>1, WorkKeeps DEF Order

\* The order is placed.
LEMMA PlaceEntryKeeps ==
  ASSUME Sound, IInv, PlaceEntry, UNCHANGED <<protection, loop, observers>>
  PROVE  IInv'
  <1>1. /\ pc = "place" /\ pc \in EntryStates /\ UNCHANGED <<trade, pos, triggers, armed>>
        /\ record' = record
        /\ \/ Accept(trade, record.size) /\ pc' \in {"poll", "raised"}
           \/ UNCHANGED orders /\ pc' = "raised"
    BY DEF PlaceEntry, Sound, EntryStates
  <1>2. /\ trade \in Trades /\ record \in Record /\ record.size \in {Size, -Size}
        /\ record.state = "none" /\ record.filled = 0 /\ record.size \in -Size..Size
        /\ orders \in [Trades -> EntryOrder] /\ orders[trade] = NoOrder
        /\ FilledOf(orders[trade]) = 0 /\ Whole(orders[trade])
    BY <1>1, WorkingType, VenueAssumption DEF Order, FilledOf, NoOrder
  <1>3. CASE UNCHANGED orders /\ pc' = "raised"
    BY <1>1, <1>2, <1>3, WorkKeeps DEF NoOrder
  <1>4. CASE Accept(trade, record.size) /\ pc' \in {"poll", "raised"}
    <2>1. PICK status \in {"open", "cancelled"} :
             orders' = [orders EXCEPT ![trade] =
                          [status |-> status, size |-> record.size, left |-> record.size]]
      BY <1>4 DEF Accept
    <2> DEFINE order == [status |-> status, size |-> record.size, left |-> record.size]
    <2>2. order \in EntryOrder /\ Whole(order) /\ FilledOf(order) = 0
      BY <1>2, VenueAssumption DEF EntryOrder, Whole, Within, FilledOf
    <2>3. order.size = record.size /\ order.status # "none"
      OBVIOUS
    <2> HIDE DEF order
    <2>4. /\ orders' \in [Trades -> EntryOrder] /\ orders'[trade] = order
          /\ \A n \in Trades \ {trade} : orders'[n] = orders[n]
      BY <1>2, <2>1, <2>2 DEF order
    <2> QED
      BY <1>1, <1>2, <1>4, <2>2, <2>3, <2>4, WorkKeeps
  <1> QED
    BY <1>1, <1>3, <1>4

\* What a read of the order returns is true of it.
LEMMA ReadIsTrue ==
  ASSUME IInv, pc \in EntryStates \ {"place"}, NEW read \in ReadOrder
  PROVE  /\ read \in Record /\ read.size = record.size /\ read.state # "none"
         /\ read.filled # 0 => read.filled = FilledOf(Order)
         /\ read.state \in Terminal => Order.status # "open"
         /\ read.state \in Terminal /\ read.state \notin HasExposure => FilledOf(Order) = 0
         /\ Order.status # "open" /\ read.state \notin HasExposure => FilledOf(Order) = 0
  <1>1. /\ record \in Record /\ record.filled = 0 /\ Order \in EntryOrder /\ Whole(Order)
        /\ FilledOf(Order) \in -Size..Size
    BY WorkingType
  <1>2. CASE read = Unknown
    BY <1>1, <1>2 DEF Unknown, Record, OrderStates, HasExposure, Terminal
  <1>3. CASE read = [record EXCEPT !.state = StateFromRaw(Order), !.filled = FilledOf(Order)]
    <2>1. /\ StateFromRaw(Order) \in {"filled", "open", "cancelled", "partially_filled"}
          /\ StateFromRaw(Order) = "open" => Order.status = "open"
          /\ StateFromRaw(Order) = "cancelled" => Order.status # "open" /\ FilledOf(Order) = 0
          /\ StateFromRaw(Order) = "filled" => Order.status = "filled"
      BY <1>1 DEF StateFromRaw
    <2>2. /\ read.state = StateFromRaw(Order) /\ read.filled = FilledOf(Order)
          /\ read.size = record.size /\ read \in Record
      BY <1>1, <1>3, <2>1 DEF Record, OrderStates, HasExposure, Terminal
    <2> QED
      BY <2>1, <2>2 DEF HasExposure, Terminal
  <1> QED
    BY <1>2, <1>3 DEF ReadOrder, Order

\* The order is polled.
LEMMA PollEntryKeeps ==
  ASSUME IInv, PollEntry, UNCHANGED <<protection, loop, observers>>
  PROVE  IInv'
  <1>1. pc = "poll" /\ pc \in EntryStates \ {"place"} /\ UNCHANGED <<trade, venue>>
    BY DEF PollEntry, EntryStates
  <1>2. PICK read \in ReadOrder : IF read.state \in Terminal
                                  THEN Return(read)
                                  ELSE pc' = "cancel" /\ UNCHANGED record
    BY DEF PollEntry
  <1>3. CASE read.state \in Terminal
    BY <1>1, <1>2, <1>3, ReadIsTrue, ReadKeeps DEF Return
  <1>4. CASE read.state \notin Terminal
    BY <1>1, <1>2, <1>4, WorkingType, ReadKeeps
  <1> QED
    BY <1>3, <1>4

\* A cancelled order keeps what it bought and buys no more.
LEMMA CancelledOrder ==
  ASSUME NEW order \in EntryOrder, Whole(order)
  PROVE  /\ Cancelled(order) \in EntryOrder /\ Whole(Cancelled(order))
         /\ Cancelled(order).size = order.size
         /\ Cancelled(order).status = "none" <=> order.status = "none"
         /\ FilledOf(Cancelled(order)) = FilledOf(order)
         /\ Cancelled(order).status # "open"
         /\ order.status # "open" => Cancelled(order) = order
  BY DEF Cancelled, EntryOrder, Whole, FilledOf

\* The order is cancelled, and the cancel may raise.
LEMMA CancelEntryKeeps ==
  ASSUME Sound, IInv, CancelEntry, UNCHANGED <<protection, loop, observers>>
  PROVE  IInv'
  <1>1. /\ pc = "cancel" /\ pc \in EntryStates /\ pc' \in {"reread", "recheck"}
        /\ UNCHANGED <<trade, record, pos, triggers, armed>>
        /\ Withdraw(trade) \/ (UNCHANGED orders /\ orders[trade].status # "open")
    BY DEF CancelEntry, Sound, EntryStates
  <1>2. /\ trade \in Trades /\ record \in Record /\ record.state = "none" /\ record.filled = 0
        /\ orders \in [Trades -> EntryOrder] /\ orders[trade] \in EntryOrder
        /\ Whole(orders[trade])
        /\ orders[trade].size = record.size /\ orders[trade].status # "none"
    BY <1>1, WorkingType DEF Order
  <1>3. orders' = [orders EXCEPT ![trade] = Cancelled(orders[trade])]
    BY <1>1, <1>2, CancelledOrder DEF Withdraw
  <1>4. /\ orders' \in [Trades -> EntryOrder] /\ orders'[trade] = Cancelled(orders[trade])
        /\ \A n \in Trades \ {trade} : orders'[n] = orders[n]
    BY <1>2, <1>3, CancelledOrder
  <1> QED
    BY <1>1, <1>2, <1>4, CancelledOrder, WorkKeeps

\* The order is read after a cancel: only now is it known not to be live.
LEMMA AfterCancelKeeps ==
  ASSUME IInv, RecheckEntry \/ RereadEntry, UNCHANGED <<protection, loop, observers>>
  PROVE  IInv'
  <1>1. /\ pc \in {"recheck", "reread"} /\ pc \in EntryStates \ {"place"} /\ pc' = "verdict"
        /\ UNCHANGED <<trade, venue>>
    BY DEF RecheckEntry, RereadEntry, EntryStates, Return
  <1>2. Order.status # "open"
    BY <1>1, WorkingType DEF IInv, OnlyLatestOpen, Order
  <1>3. PICK read \in ReadOrder :
           record' \in {read, [read EXCEPT !.state = "unknown"]}
             \/ (record' = [read EXCEPT !.state = "expired"] /\ read.state \notin HasExposure)
    BY DEF RecheckEntry, RereadEntry, Return, HasExposure
  <1>4. /\ read \in Record /\ read.size = record.size
        /\ read.filled # 0 => read.filled = FilledOf(Order)
        /\ read.state \notin HasExposure => FilledOf(Order) = 0
    BY <1>1, <1>2, ReadIsTrue
  <1>5. /\ record' \in Record /\ record'.size = record.size /\ record'.filled = read.filled
        /\ record'.state \notin HasExposure => FilledOf(Order) = 0
    BY <1>3, <1>4 DEF Record, OrderStates, HasExposure, Terminal
  <1> QED
    BY <1>1, <1>2, <1>4, <1>5, ReadKeeps

(***************************************************************************)
(* The invariant is kept: protect.                                         *)
(***************************************************************************)

\* What is known while protect works.
LEMMA ProtectingType ==
  ASSUME IInv, pc \in ProtectStates
  PROVE  /\ trade \in Trades /\ job \in Job /\ pos \in Int /\ triggers \in SUBSET Trigger
         /\ IsFiniteSet(triggers) /\ (~hasty => \A t \in triggers : t.trade = trade)
         /\ job.try \in 1..SlAttempts /\ job.call \in Nat /\ job.size \in -Size..Size
         /\ job.direction \in {1, -1} /\ job.levels \in SUBSET Trigger
         /\ pc # "arm" => armed = TRUE /\ missed = 0
         /\ StopLevel \in Trigger
  <1>1. /\ trade \in Trades /\ job \in Job /\ pos \in Int /\ triggers \in SUBSET Trigger
        /\ IsFiniteSet(triggers) /\ (~hasty => \A t \in triggers : t.trade = trade)
        /\ pc # "arm" => armed /\ missed = 0
        /\ armed \in BOOLEAN
    BY DEF IInv, Protecting, LevelsAreWatched, TypeOK, ManagerTypeOK, VenueTypeOK,
           ProtectionTypeOK
  <1>2. /\ job.try \in 1..SlAttempts /\ job.call \in Nat /\ job.size \in -Size..Size
        /\ job.direction \in {1, -1} /\ job.levels \in SUBSET Trigger
    BY <1>1 DEF Job
  <1>3. StopLevel \in Trigger
    <2>1. /\ -job.size \in -Size..Size /\ -job.direction \in Prices /\ job.try \in Nat
          /\ StopTriggerRule(job.direction) \in {"above", "below"}
          /\ "stop" \in {"stop", "tp1", "tp2", "tp3"}
      BY <1>2, VenueAssumption, ProtectionAssumption DEF Prices, StopTriggerRule
    <2>2. StopLevel = [trade |-> trade, call |-> job.call, name |-> "stop", try |-> job.try,
                       size |-> -job.size, at |-> -job.direction,
                       rule |-> StopTriggerRule(job.direction)]
      BY DEF StopLevel, Level
    <2> QED
      BY ONLY <1>1, <1>2, <2>1, <2>2 DEF Trigger
  <1>4. pc # "arm" => armed = TRUE
    BY <1>1, Zenon
  <1> QED
    BY <1>1, <1>2, <1>3, <1>4

\* What every call of protect has in common.
LEMMA ProtectKeeps ==
  ASSUME IInv, pc \in ProtectStates, UNCHANGED <<loop, observers, trade, record, orders>>,
         pos' \in Int, Within(pos', pos), armed' = TRUE, missed' = 0,
         triggers' \in SUBSET Trigger, IsFiniteSet(triggers'),
         ~hasty => \A t \in triggers' : t.trade = trade,
         job' \in Job,
         job'.caller = job.caller, job'.direction = job.direction, job'.size = job.size,
         pc' \in (ProtectStates \ {"arm"}) \cup Outcomes \cup {"raised"},
         pc' = "legs" => job'.levels = {StopLevel'},
         pc' = "protected" => StopLevel' \in job'.levels,
         pc' \in {"legs", "protected"} /\ pos' # 0 /\ Sign(job.size) = job.direction
            => StopLevel' \in triggers',
         pc' = "flattened" => pos' = 0
  PROVE  IInv'
  <1> USE DEF loop, observers
  <1>1. armed' \in BOOLEAN /\ missed' \in 0..Outage
    <2>1. armed' \in BOOLEAN
      BY Zenon
    <2> QED
      BY <2>1, ProtectionAssumption
  <1>2. TypeOK'
    BY <1>1 DEF IInv, TypeOK, ManagerTypeOK, VenueTypeOK, ProtectionTypeOK, LoopStates
  <1>3. /\ HeldIsBought' /\ Abs(pos') <= Abs(pos) /\ Abs(pos') \in Nat /\ Abs(pos) \in Nat
    BY SmallerPosition
  <1>4. /\ trade \in Trades /\ Order.size # 0 /\ job.direction = Sign(Order.size)
        /\ Abs(pos) <= Abs(job.size)
        /\ job.caller = "enter" => tracked = NoPosition /\ Sign(job.size) = job.direction
        /\ job.caller = "reprotect" => /\ tracked # NoPosition /\ ~tracked.protected
                                       /\ job.size = tracked.remaining
    BY DEF IInv, Protecting
  <1>5. job \in Job /\ Abs(job.size) \in Int /\ job.caller \in {"enter", "reprotect"}
    BY DEF IInv, TypeOK, ProtectionTypeOK, Job, Abs
  <1>6. OnlyLatestOpen'
    BY DEF IInv, OnlyLatestOpen, ProtectStates, Outcomes
  <1>7. Shielded' /\ (booked.fills = booked.size)'
    BY <1>4, <1>5 DEF IInv, Shielded, SaysProtected
  <1>8. Entering' /\ VerdictIsFinal'
    BY DEF Entering, VerdictIsFinal, EntryStates, ProtectStates, Outcomes
  <1>9. Protecting'
    BY <1>3, <1>4, <1>5 DEF Protecting, Order
  <1>10. Tracking'
    <2> SUFFICES ASSUME tracked # NoPosition
                 PROVE  Tracking'
      BY DEF Tracking
    <2>1. tracked.remaining \in Nat
      BY TrackedType DEF IInv
    <2> QED
      BY <1>3, <2>1 DEF IInv, Tracking, Order
  <1>11. (Callers /\ Stepping /\ BetweenTrades /\ LevelsAreWatched)'
    BY <1>4
    DEF Callers, Stepping, BetweenTrades, LevelsAreWatched, EntryStates, ProtectStates, Outcomes
  <1> QED
    BY <1>2, <1>3, <1>6, <1>7, <1>8, <1>9, <1>10, <1>11 DEF IInv

\* Nothing is left of a position that stays.
LEMMA WithinItself == ASSUME NEW amount \in Int PROVE Within(amount, amount)
  BY DEF Within

\* The countdown is armed.
LEMMA ArmKeeps ==
  ASSUME Sound, IInv, Arm, UNCHANGED <<loop, observers>>
  PROVE  IInv'
  <1>1. /\ pc = "arm" /\ pc' = "stop" /\ armed' = TRUE /\ missed' = 0
        /\ UNCHANGED <<trade, record, pos, orders, triggers, job>>
    BY Zenon DEF Arm, Countdown, Sound
  <1>2. pc \in ProtectStates /\ pc' \in ProtectStates \ {"arm"}
    BY <1>1 DEF ProtectStates
  <1> QED
    BY <1>1, <1>2, ProtectingType, WithinItself, ProtectKeeps

\* The next attempt differs in its number only.
LEMMA NextTryType ==
  ASSUME job \in Job, NextTry
  PROVE  /\ job' \in Job /\ pc' \in {"stop", "emergency"}
         /\ job'.caller = job.caller /\ job'.direction = job.direction /\ job'.size = job.size
  BY ProtectionAssumption DEF NextTry, Job

\* The stop is placed.
LEMMA PlaceStopKeeps ==
  ASSUME IInv, PlaceStop, UNCHANGED <<loop, observers>>
  PROVE  IInv'
  <1>1. /\ pc = "stop" /\ triggers' \in {triggers, triggers \cup {StopLevel}}
        /\ (pc' = "verify" /\ UNCHANGED job) \/ NextTry
        /\ UNCHANGED <<trade, record, pos, orders, armed, missed>>
    BY DEF PlaceStop
  <1>2. pc \in ProtectStates /\ pc # "arm"
    BY <1>1 DEF ProtectStates
  <1>3. /\ job' \in Job /\ pc' \in {"verify", "stop", "emergency"}
        /\ job'.caller = job.caller /\ job'.direction = job.direction /\ job'.size = job.size
    BY <1>1, <1>2, ProtectingType, NextTryType
  <1>4. pc' \in ProtectStates \ {"arm"}
    BY <1>3 DEF ProtectStates
  <1>5. /\ triggers' \in SUBSET Trigger /\ IsFiniteSet(triggers')
        /\ ~hasty => \A t \in triggers' : t.trade = trade
    <2>1. StopLevel.trade = trade
      BY DEF StopLevel, Level
    <2> QED
      BY <1>1, <1>2, <2>1, ProtectingType, FS_AddElement
  <1>6. pc' \notin {"legs", "protected", "flattened"}
    BY <1>3
  <1> QED
    BY <1>1, <1>2, <1>3, <1>4, <1>5, <1>6, ProtectingType, WithinItself, ProtectKeeps

\* The stop is read back.
LEMMA VerifyStopKeeps ==
  ASSUME IInv, VerifyStop, UNCHANGED <<loop, observers>>
  PROVE  IInv'
  <1>1. /\ pc = "verify" /\ UNCHANGED <<trade, record, venue, missed>>
        /\ \/ /\ StopLevel \in triggers /\ pc' = "legs"
              /\ job' = [job EXCEPT !.levels = {StopLevel}]
           \/ NextTry
    BY DEF VerifyStop
  <1>2. pc \in ProtectStates /\ pc # "arm"
    BY <1>1 DEF ProtectStates
  <1>3. /\ UNCHANGED <<pos, orders, triggers, armed>>
        /\ pos \in Int /\ Within(pos, pos) /\ job \in Job /\ StopLevel \in Trigger
        /\ triggers \in SUBSET Trigger /\ IsFiniteSet(triggers)
        /\ ~hasty => \A t \in triggers : t.trade = trade
        /\ armed = TRUE /\ missed = 0
    BY <1>1, <1>2, ProtectingType, WithinItself DEF venue
  <1>4. CASE NextTry
    <2>1. /\ job' \in Job /\ pc' \in {"stop", "emergency"}
          /\ job'.caller = job.caller /\ job'.direction = job.direction /\ job'.size = job.size
      BY <1>3, <1>4, NextTryType
    <2>2. pc' \in ProtectStates \ {"arm"} /\ pc' \notin {"legs", "protected", "flattened"}
      BY <2>1 DEF ProtectStates
    <2> QED
      BY <1>1, <1>2, <1>3, <2>1, <2>2, ProtectKeeps
  <1>5. CASE /\ StopLevel \in triggers /\ pc' = "legs"
             /\ job' = [job EXCEPT !.levels = {StopLevel}]
    <2>1. /\ job' \in Job /\ job'.levels = {StopLevel}
          /\ job'.caller = job.caller /\ job'.direction = job.direction /\ job'.size = job.size
          /\ job'.call = job.call /\ job'.try = job.try
      BY <1>3, <1>5 DEF Job
    <2>2. StopLevel' = StopLevel
      BY <1>1, <2>1 DEF StopLevel, Level
    <2>3. pc' \in ProtectStates \ {"arm"} /\ pc' \notin {"protected", "flattened"}
      BY <1>5 DEF ProtectStates
    <2> QED
      BY <1>1, <1>2, <1>3, <1>5, <2>1, <2>2, <2>3, ProtectKeeps
  <1> QED
    BY <1>1, <1>4, <1>5

\* A rung takes no more than what is held.
LEMMA LegBounds ==
  ASSUME NEW amount \in Nat, NEW name \in {"tp1", "tp2", "tp3"}
  PROVE  LegSize(name, amount) \in Int /\ LegSize(name, amount) <= amount
  <1>1. ASSUME NEW pct \in 1..99
        PROVE  (amount * pct) \div 100 \in Nat /\ (amount * pct) \div 100 <= amount
    <2>1. amount * pct \in Nat /\ amount * pct <= amount * 100
      <3>1. pct \in Nat /\ 100 - pct \in Nat
        OBVIOUS
      <3>2. amount * pct \in Nat /\ amount * (100 - pct) \in Nat
        BY <3>1
      <3>3. amount * 100 = amount * pct + amount * (100 - pct)
        BY <3>1
      <3> QED
        BY <3>2, <3>3
    <2> DEFINE product == amount * pct
    <2> HIDE DEF product
    <2>2. product \in Nat /\ product <= amount * 100
      BY <2>1 DEF product
    <2>3. product \div 100 \in Nat /\ product \div 100 <= amount
      BY <2>2
    <2> QED
      BY <2>3 DEF product
  <1>2. Tp1Pct \in 1..99 /\ Tp2Pct \in 1..99
    BY ProtectionAssumption
  <1> DEFINE first == (amount * Tp1Pct) \div 100
             second == (amount * Tp2Pct) \div 100
  <1>3. first \in Nat /\ first <= amount /\ second \in Nat /\ second <= amount
    BY <1>1, <1>2
  <1>4. LegSize(name, amount) = CASE name = "tp1" -> first [] name = "tp2" -> second
                                  [] name = "tp3" -> amount - first - second
    BY DEF LegSize
  <1> HIDE DEF first, second
  <1> QED
    BY <1>3, <1>4

\* The ladder of a call is a few orders of the trade in hand.
LEMMA LadderType ==
  ASSUME IInv, pc \in ProtectStates
  PROVE  /\ Ladder \in SUBSET Trigger /\ IsFiniteSet(Ladder)
         /\ \A t \in Ladder : t.trade = trade
  <1> DEFINE names == {n \in {"tp1", "tp2", "tp3"} : LegSize(n, Abs(job.size)) > 0}
             rung(name) == Level(name, -job.direction * LegSize(name, Abs(job.size)),
                                 job.direction * Rung(name), TargetRule(job.direction))
  <1>1. Abs(job.size) \in 0..Size /\ job.direction \in {1, -1} /\ trade \in Trades
        /\ job.call \in Nat /\ job.try \in Nat
    BY ProtectingType, VenueAssumption, ProtectionAssumption DEF Abs
  <1>2. ASSUME NEW name \in names
        PROVE  rung(name) \in Trigger /\ rung(name).trade = trade
    <2>1. LegSize(name, Abs(job.size)) \in 0..Size
      BY <1>1, LegBounds, VenueAssumption
    <2>2. /\ -job.direction * LegSize(name, Abs(job.size)) \in -Size..Size
          /\ job.direction * Rung(name) \in Prices
          /\ TargetRule(job.direction) \in {"above", "below"}
          /\ name \in {"stop", "tp1", "tp2", "tp3"}
      BY <1>1, <2>1, VenueAssumption DEF Prices, Rung, TargetRule
    <2>3. rung(name) = [trade |-> trade, call |-> job.call, name |-> name, try |-> job.try,
                        size |-> -job.direction * LegSize(name, Abs(job.size)),
                        at |-> job.direction * Rung(name),
                        rule |-> TargetRule(job.direction)]
      BY DEF Level
    <2> HIDE DEF rung
    <2> QED
      BY ONLY <1>1, <2>2, <2>3 DEF Trigger
  <1>3. Ladder = {rung(name) : name \in names}
    BY DEF Ladder
  <1>4. names \subseteq {"tp1", "tp2", "tp3"}
    OBVIOUS
  <1> HIDE DEF rung, names
  <1>5. IsFiniteSet({rung(name) : name \in names})
    <2>1. IsFiniteSet(({rung("tp1")} \cup {rung("tp2")}) \cup {rung("tp3")})
      <3>1. IsFiniteSet({rung("tp1")} \cup {rung("tp2")})
        BY FS_Singleton, FS_AddElement
      <3> QED
        BY <3>1, FS_AddElement
    <2>2. {rung(name) : name \in names}
             \subseteq ({rung("tp1")} \cup {rung("tp2")}) \cup {rung("tp3")}
      BY <1>4
    <2> QED
      BY <2>1, <2>2, FS_Subset
  <1> QED
    BY <1>2, <1>3, <1>5

\* The ladder is placed.
LEMMA PlaceLegsKeeps ==
  ASSUME IInv, PlaceLegs, UNCHANGED <<loop, observers>>
  PROVE  IInv'
  <1>1. /\ pc = "legs" /\ pc' = "protected"
        /\ UNCHANGED <<trade, record, pos, orders, armed, missed>>
    BY DEF PlaceLegs
  <1>2. PICK resting \in SUBSET Ladder, known \in SUBSET Ladder :
           /\ triggers' = triggers \cup resting
           /\ job' = [job EXCEPT !.levels = @ \cup known]
    BY DEF PlaceLegs
  <1>3. pc \in ProtectStates /\ pc # "arm"
    BY <1>1 DEF ProtectStates
  <1>4. /\ Ladder \in SUBSET Trigger /\ IsFiniteSet(Ladder)
        /\ \A t \in Ladder : t.trade = trade
    BY <1>3, LadderType
  <1>5. /\ pos \in Int /\ Within(pos, pos) /\ job \in Job /\ job.levels \in SUBSET Trigger
        /\ triggers \in SUBSET Trigger /\ IsFiniteSet(triggers)
        /\ ~hasty => \A t \in triggers : t.trade = trade
        /\ armed = TRUE /\ missed = 0
    BY <1>3, ProtectingType, WithinItself
  <1>6. /\ triggers' \in SUBSET Trigger
        /\ ~hasty => \A t \in triggers' : t.trade = trade
        /\ triggers \subseteq triggers'
    BY <1>2, <1>4, <1>5
  <1>7. IsFiniteSet(triggers')
    BY <1>2, <1>4, <1>5, FS_Subset, FS_Union
  <1>8. /\ job' \in Job /\ job.levels \subseteq job'.levels
        /\ job'.caller = job.caller /\ job'.direction = job.direction /\ job'.size = job.size
        /\ job'.call = job.call /\ job'.try = job.try
    BY <1>2, <1>4, <1>5 DEF Job
  <1>9. StopLevel' = StopLevel
    BY <1>1, <1>8 DEF StopLevel, Level
  <1>10. /\ StopLevel \in job.levels
         /\ pos # 0 /\ Sign(job.size) = job.direction => StopLevel \in triggers
    BY <1>1, <1>3 DEF IInv, Protecting
  <1>11. pc' \in Outcomes
    BY <1>1 DEF Outcomes
  <1> QED
    BY <1>1, <1>3, <1>5, <1>6, <1>7, <1>8, <1>9, <1>10, <1>11, ProtectKeeps

\* The way out: a market close.
LEMMA EmergencyKeeps ==
  ASSUME IInv, EmergencyClose, UNCHANGED <<loop, observers>>
  PROVE  IInv'
  <1>1. /\ pc = "emergency" /\ pc' \in {"confirm", "raised"}
        /\ UNCHANGED <<trade, record, protection>>
        /\ \E raised \in BOOLEAN : ClosePosition(raised)
    BY DEF EmergencyClose
  <1>2. pc \in ProtectStates /\ pc # "arm"
    BY <1>1 DEF ProtectStates
  <1>3. /\ job \in Job /\ pos \in Int /\ triggers \in SUBSET Trigger
        /\ IsFiniteSet(triggers) /\ (~hasty => \A t \in triggers : t.trade = trade)
        /\ armed = TRUE /\ missed = 0
    BY <1>2, ProtectingType
  <1>4. pos' \in Int /\ Within(pos', pos) /\ UNCHANGED <<orders, triggers, armed>>
    BY <1>1, <1>3, ClosedPosition
  <1>5. /\ pc' \in (ProtectStates \ {"arm"}) \cup Outcomes \cup {"raised"}
        /\ pc' \notin {"legs", "protected", "flattened"}
    BY <1>1 DEF ProtectStates
  <1> QED
    BY <1>1, <1>2, <1>3, <1>4, <1>5, ProtectKeeps DEF protection

\* What the close left is read.
LEMMA ConfirmKeeps ==
  ASSUME IInv, ConfirmClose, UNCHANGED <<loop, observers>>
  PROVE  IInv'
  <1>1. /\ pc = "confirm" /\ pc' \in {"flattened", "unprotected", "raised"}
        /\ pc' = "flattened" => pos = 0
        /\ UNCHANGED <<trade, record, venue, protection>>
    BY DEF ConfirmClose
  <1>2. pc \in ProtectStates /\ pc # "arm"
    BY <1>1 DEF ProtectStates
  <1>3. /\ job \in Job /\ pos \in Int /\ Within(pos, pos) /\ triggers \in SUBSET Trigger
        /\ IsFiniteSet(triggers) /\ (~hasty => \A t \in triggers : t.trade = trade)
        /\ armed = TRUE /\ missed = 0
    BY <1>2, ProtectingType, WithinItself
  <1>4. /\ pc' \in (ProtectStates \ {"arm"}) \cup Outcomes \cup {"raised"}
        /\ pc' \notin {"legs", "protected"}
    BY <1>1 DEF Outcomes
  <1> QED
    BY <1>1, <1>2, <1>3, <1>4, ProtectKeeps DEF protection, venue

(***************************************************************************)
(* The invariant is kept: the exchange.                                    *)
(***************************************************************************)

\* An order that fills in part is still whole, and what was taken of it was bought.
LEMMA FilledOrder ==
  ASSUME NEW order \in EntryOrder, Whole(order), order.status = "open",
         NEW k \in 1..Abs(order.left), NEW amount \in Int,
         amount # 0 => Within(amount, FilledOf(order))
  PROVE  LET taken == k * Sign(order.left)
             left == order.left - taken
             after == [order EXCEPT !.left = left,
                                    !.status = IF left = 0 THEN "filled" ELSE @]
         IN /\ after \in EntryOrder /\ Whole(after) /\ after.size = order.size
            /\ after.status # "none"
            /\ amount + taken \in Int /\ Within(amount + taken, FilledOf(after))
  <1> DEFINE taken == k * Sign(order.left)
             left == order.left - taken
             after == [order EXCEPT !.left = left,
                                    !.status = IF left = 0 THEN "filled" ELSE @]
  <1>1. /\ order.size \in {Size, -Size} /\ order.left \in Int
        /\ Within(order.left, order.size) /\ k \in Int /\ 1 <= k /\ k <= Abs(order.left)
    BY VenueAssumption DEF Whole, EntryOrder, Abs
  <1>2. /\ order.left > 0 => taken = k
        /\ order.left < 0 => taken = -k
        /\ order.left # 0
    BY <1>1 DEF Sign, Abs
  <1>3. /\ taken \in Int /\ left \in Int
        /\ order.left > 0 => 0 <= left /\ left < order.left
        /\ order.left < 0 => order.left < left /\ left <= 0
    BY <1>1, <1>2 DEF Abs
  <1>4. /\ after.left = left /\ after.size = order.size
        /\ after.status = IF left = 0 THEN "filled" ELSE "open"
    BY DEF EntryOrder
  <1> HIDE DEF taken
  <1>5. left \in -Size..Size /\ Within(left, order.size)
    BY <1>1, <1>2, <1>3, VenueAssumption DEF Within
  <1>6. after \in EntryOrder
    BY <1>5 DEF EntryOrder
  <1> HIDE DEF after
  <1>7. Whole(after)
    BY <1>1, <1>4, <1>5 DEF Whole
  <1>8. FilledOf(order) = order.size - order.left /\ FilledOf(after) = order.size - left
    BY <1>4 DEF FilledOf
  <1>9. amount + taken \in Int /\ Within(amount + taken, FilledOf(after))
    <2>1. CASE amount = 0
      BY <1>1, <1>2, <1>3, <1>8, <2>1, VenueAssumption DEF Within
    <2>2. CASE amount # 0
      <3>1. Within(amount, order.size - order.left)
        BY <1>8, <2>2
      <3> QED
        BY <1>1, <1>2, <1>3, <1>8, <3>1, VenueAssumption DEF Within
    <2> QED
      BY <2>1, <2>2
  <1> QED
    BY <1>4, <1>6, <1>7, <1>9 DEF after, taken

\* Some of the entry is bought.
LEMMA FillKeeps ==
  ASSUME IInv, NEW n \in Trades, Fill(n), UNCHANGED <<manager, protection, loop, observers>>
  PROVE  IInv'
  <1> USE DEF manager, protection, loop, observers
  <1>1. /\ n = trade /\ tracked = NoPosition
        /\ pc \in {"poll", "cancel", "raised", "release", "stopped", "crashed"}
        /\ orders[n].status = "open" /\ Whole(orders[n])
    BY DEF Fill, IInv, OnlyLatestOpen
  <1>2. pos \in Int /\ orders \in [Trades -> EntryOrder] /\ orders[n] \in EntryOrder
    BY DEF IInv, TypeOK, ManagerTypeOK, VenueTypeOK
  <1>3. UNCHANGED <<triggers, armed>>
    BY DEF Fill
  <1>4. PICK k \in 1..Abs(orders[n].left) :
           LET taken == k * Sign(orders[n].left)
               left == orders[n].left - taken
           IN /\ orders' = [orders EXCEPT ![n].left = left,
                                          ![n].status = IF left = 0 THEN "filled" ELSE @]
              /\ pos' = pos + taken
    BY DEF Fill
  <1> DEFINE taken == k * Sign(orders[n].left)
             left == orders[n].left - taken
             after == [orders[n] EXCEPT !.left = left,
                                        !.status = IF left = 0 THEN "filled" ELSE @]
  <1>5. pos # 0 => Within(pos, FilledOf(orders[n]))
    BY <1>1 DEF IInv, HeldIsBought, Order
  <1>6. /\ after \in EntryOrder /\ Whole(after) /\ after.size = orders[n].size
        /\ after.status # "none"
        /\ pos + taken \in Int /\ Within(pos + taken, FilledOf(after))
    BY <1>1, <1>2, <1>5, FilledOrder
  <1>7. orders' = [orders EXCEPT ![n] = after] /\ pos' = pos + taken
    BY <1>2, <1>4
  <1> HIDE DEF after, taken
  <1>8. /\ orders' \in [Trades -> EntryOrder] /\ orders'[n] = after
        /\ \A m \in Trades \ {n} : orders'[m] = orders[m]
    BY <1>2, <1>6, <1>7
  <1>9. TypeOK'
    BY <1>3, <1>6, <1>7, <1>8
    DEF IInv, TypeOK, ManagerTypeOK, VenueTypeOK, ProtectionTypeOK
  <1>10. OnlyLatestOpen'
    BY <1>1, <1>6, <1>8 DEF IInv, OnlyLatestOpen, Trades
  <1>11. HeldIsBought' /\ Shielded' /\ (booked.fills = booked.size)'
    BY <1>1, <1>6, <1>7, <1>8 DEF IInv, HeldIsBought, Shielded, SaysProtected, Order
  <1>12. Entering'
    BY <1>1, <1>3, <1>6, <1>8 DEF IInv, Entering, EntryStates, Order
  <1>13. (VerdictIsFinal /\ Protecting)'
    BY <1>1 DEF VerdictIsFinal, Protecting, ProtectStates, Outcomes
  <1>14. (Callers /\ Tracking /\ Stepping /\ BetweenTrades /\ LevelsAreWatched)'
    BY <1>1, <1>3 DEF IInv, Callers, Tracking, Stepping, BetweenTrades, LevelsAreWatched
  <1> QED
    BY <1>9, <1>10, <1>11, <1>12, <1>13, <1>14 DEF IInv

\* The mark fires some of the levels: what covered the position and fired has closed it.
LEMMA MarketKeeps ==
  ASSUME IInv, NEW fired \in Firing, Market(fired),
         UNCHANGED <<manager, protection, loop, observers>>
  PROVE  IInv'
  <1> USE DEF manager, protection, loop, observers
  <1>1. /\ pos \in Int /\ triggers \in SUBSET Trigger /\ IsFiniteSet(triggers)
        /\ ~hasty => \A t \in triggers : t.trade = trade
    BY DEF IInv, TypeOK, ManagerTypeOK, VenueTypeOK, LevelsAreWatched
  <1>2. /\ triggers' = triggers \ fired /\ pos' = ClampReduceOnly(pos, fired)
        /\ UNCHANGED <<orders, armed>>
    BY DEF Market
  <1>3. /\ fired \in SUBSET triggers /\ fired # {}
        /\ IsFiniteSet(fired) /\ IsFiniteSet(triggers')
    <2>1. fired \in SUBSET triggers /\ fired # {}
      BY DEF Firing
    <2> QED
      BY <1>1, <1>2, <2>1, FS_Subset
  <1>4. /\ pos' \in Int /\ Within(pos', pos)
        /\ \A t \in fired : Sign(t.size) = -Sign(pos) /\ Abs(t.size) >= Abs(pos) => pos' = 0
    BY <1>1, <1>2, <1>3, ClampTakes
  <1>5. /\ HeldIsBought'
        /\ pos' # 0 => pos # 0 /\ Sign(pos') = Sign(pos)
        /\ Abs(pos') <= Abs(pos) /\ Abs(pos') \in Nat /\ Abs(pos) \in Nat
    BY <1>2, <1>4, SmallerPosition
  <1>6. triggers # {} /\ triggers' \in SUBSET triggers
    BY <1>2, <1>3
  <1>7. TypeOK'
    BY <1>1, <1>2, <1>4, <1>6
    DEF IInv, TypeOK, ManagerTypeOK, VenueTypeOK, ProtectionTypeOK
  <1>8. OnlyLatestOpen'
    BY <1>2 DEF IInv, OnlyLatestOpen, Whole
  <1>9. (Entering /\ VerdictIsFinal)'
    <2>1. (pos = 0 => pos' = 0) /\ Order' = Order
      BY <1>2, <1>5 DEF Order
    <2> QED
      BY <2>1 DEF IInv, Entering, VerdictIsFinal
  <1>10. Protecting'
    <2> SUFFICES ASSUME pc \in ProtectStates \cup Outcomes
                 PROVE  Protecting'
      BY DEF Protecting
    <2>1. /\ trade \in Trades /\ Order.size # 0 /\ job.direction = Sign(Order.size)
          /\ Abs(pos) <= Abs(job.size)
          /\ pc \in {"legs", "protected"} /\ pos # 0 /\ Sign(job.size) = job.direction
                => StopLevel \in triggers
          /\ pc = "flattened" => pos = 0
      BY DEF IInv, Protecting
    <2>2. job.size \in Int /\ Abs(job.size) \in Int
      BY DEF IInv, TypeOK, ProtectionTypeOK, Job, Abs
    <2>3. Abs(pos') <= Abs(job.size) /\ (pc = "flattened" => pos' = 0)
      BY <1>5, <2>1, <2>2
    <2>4. ASSUME pc \in {"legs", "protected"}, pos' # 0, Sign(job.size) = job.direction
          PROVE  StopLevel \in triggers'
      <3>1. pos # 0 /\ StopLevel \in triggers
        BY <1>5, <2>1, <2>4
      <3>2. Sign(StopLevel.size) = -Sign(pos) /\ Abs(StopLevel.size) >= Abs(pos)
        <4>1. StopLevel.size = -job.size
          BY DEF StopLevel, Level
        <4>2. Sign(pos) = Sign(job.size)
          BY <2>1, <2>4, <3>1, HeldSide DEF IInv
        <4>3. Sign(-job.size) = -Sign(job.size) /\ Abs(-job.size) = Abs(job.size)
          BY <2>2 DEF Sign, Abs
        <4> QED
          BY <1>5, <2>1, <2>2, <4>1, <4>2, <4>3
      <3>3. StopLevel \notin fired
        BY <1>4, <2>4, <3>2
      <3> QED
        BY <1>2, <3>1, <3>3
    <2>5. StopLevel' = StopLevel
      BY DEF StopLevel, Level
    <2>6. Order' = Order
      BY <1>2 DEF Order
    <2> QED
      BY <1>2, <2>3, <2>4, <2>5, <2>6 DEF IInv, Protecting
  <1>11. Tracking'
    <2> SUFFICES ASSUME tracked # NoPosition
                 PROVE  Tracking'
      BY DEF Tracking
    <2>1. tracked.remaining \in Nat
      BY TrackedType DEF IInv
    <2> QED
      BY <1>2, <1>5, <2>1 DEF IInv, Tracking, Order
  <1>12. (Callers /\ BetweenTrades)'
    <2>1. pos = 0 => pos' = 0
      BY <1>5
    <2> QED
      BY <1>2, <1>6, <2>1 DEF IInv, Callers, BetweenTrades
  <1>13. Stepping'
    <2>1. pc = "list" => Abs(pos') <= held
      BY <1>5 DEF IInv, Stepping, TypeOK
    <2>2. pos = 0 => pos' = 0
      BY <1>5
    <2> QED
      BY <2>1, <2>2 DEF IInv, Stepping
  <1>14. LevelsAreWatched'
    BY <1>1, <1>2, <1>3, <1>6 DEF IInv, LevelsAreWatched
  <1>15. Shielded'
    <2> SUFFICES ASSUME pos' # 0, SaysProtected, ~ReprotectedShort, ~lapsed
                 PROVE  Guarded'
      BY DEF Shielded, SaysProtected, ReprotectedShort
    <2>1. pos # 0 /\ Guarded
      BY <1>5 DEF IInv, Shielded
    <2>2. PICK t \in triggers : /\ t.name = "stop"
                                /\ t.trade = trade
                                /\ Sign(t.size) = -Sign(pos)
                                /\ Abs(t.size) >= Abs(pos)
                                /\ t.rule = StopTriggerRule(Sign(pos))
      BY <2>1 DEF Guarded
    <2>3. t \in triggers'
      BY <1>2, <1>4, <2>2
    <2>4. Abs(t.size) \in Int
      BY <1>1, VenueAssumption DEF Trigger, Abs
    <2>5. Abs(t.size) >= Abs(pos')
      BY <1>5, <2>2, <2>4
    <2> QED
      BY <1>5, <2>2, <2>3, <2>5 DEF Guarded
  <1>16. (booked.fills = booked.size)'
    BY DEF IInv
  <1> QED
    BY <1>5, <1>7, <1>8, <1>9, <1>10, <1>11, <1>12, <1>13, <1>14, <1>15, <1>16 DEF IInv

\* The countdown runs out, which it does only when nobody was there to refresh it or
\* enough refreshes failed.
LEMMA ExpiryKeeps ==
  ASSUME IInv, Unattended, CountdownExpires,
         lapsed' = (lapsed \/ (tracked # NoPosition /\ missed > 0)), hasty' = FALSE,
         UNCHANGED <<manager, protection, loop, booked>>
  PROVE  IInv'
  <1> USE DEF manager, protection, loop
  <1>1. /\ armed /\ armed' = FALSE /\ triggers' = {} /\ pos' = pos
        /\ orders' = [n \in Trades |-> Cancelled(orders[n])]
    BY DEF CountdownExpires
  <1>2. \A n \in Trades : /\ orders[n] \in EntryOrder /\ Whole(orders[n])
                          /\ orders'[n] = Cancelled(orders[n])
    BY <1>1 DEF IInv, OnlyLatestOpen, TypeOK, ManagerTypeOK, VenueTypeOK
  <1>3. \A n \in Trades :
           /\ orders'[n] \in EntryOrder /\ Whole(orders'[n])
           /\ orders'[n].size = orders[n].size
           /\ orders'[n].status = "none" <=> orders[n].status = "none"
           /\ FilledOf(orders'[n]) = FilledOf(orders[n])
           /\ orders'[n].status # "open"
           /\ orders[n] = NoOrder => orders'[n] = NoOrder
    BY <1>2, CancelledOrder DEF NoOrder
  <1>4. armed' \in BOOLEAN /\ lapsed' \in BOOLEAN /\ hasty' \in BOOLEAN
    BY <1>1, Zenon
  <1>5. orders' \in [Trades -> EntryOrder] /\ IsFiniteSet(triggers')
    BY <1>1, <1>3, FS_EmptySet
  <1>6. TypeOK'
    BY <1>1, <1>4, <1>5 DEF IInv, TypeOK, ManagerTypeOK, VenueTypeOK, ProtectionTypeOK
  <1>7. OnlyLatestOpen'
    BY <1>3 DEF IInv, OnlyLatestOpen
  <1>8. HeldIsBought' /\ (booked.fills = booked.size)'
    BY <1>1, <1>3 DEF IInv, HeldIsBought, Order
  <1>9. Entering'
    BY <1>1, <1>3 DEF IInv, Entering, Order
  <1>10. VerdictIsFinal'
    BY <1>3 DEF IInv, VerdictIsFinal, Entering, Order
  <1>11. Protecting'
    <2> SUFFICES ASSUME pc \in ProtectStates \cup Outcomes
                 PROVE  Protecting'
      BY DEF Protecting
    <2>1. pc = "arm"
      <3> SUFFICES ASSUME pc # "arm" PROVE FALSE
        OBVIOUS
      <3>1. missed = Outage
        BY DEF Unattended, Up, ProtectStates, Outcomes
      <3> QED
        BY <3>1, ProtectionAssumption DEF IInv, Protecting
    <2>2. trade \in Trades /\ Order'.size = Order.size
      BY <1>3 DEF IInv, Protecting, Order
    <2> QED
      BY <1>1, <2>1, <2>2 DEF IInv, Protecting
  <1>12. (Callers /\ Stepping /\ BetweenTrades /\ LevelsAreWatched)'
    BY <1>1, <1>5 DEF IInv, Callers, Stepping, BetweenTrades, LevelsAreWatched
  <1>13. Tracking'
    BY <1>1, <1>3 DEF IInv, Tracking, Order
  <1>14. Shielded'
    <2> SUFFICES ASSUME SaysProtected
                 PROVE  lapsed'
      BY DEF Shielded, SaysProtected
    <2>1. tracked # NoPosition
      BY DEF SaysProtected
    <2>2. missed > 0
      BY <1>1, <2>1, ProtectionAssumption
      DEF Unattended, Up, IInv, Stepping, LevelsAreWatched
    <2> QED
      BY <2>1, <2>2, Zenon
  <1> QED
    BY <1>6, <1>7, <1>8, <1>9, <1>10, <1>11, <1>12, <1>13, <1>14 DEF IInv

(***************************************************************************)
(* The theorems.                                                           *)
(***************************************************************************)

\* Nothing was asked for yet.
LEMMA InitIInv ==
  ASSUME Init
  PROVE  IInv
  <1> USE DEF Init, VenueInit, ManagerInit, ProtectionInit
  <1>1. TypeOK
    <2>1. NoOrder \in EntryOrder
      <3>1. 0 \in -Size..Size
        BY VenueAssumption
      <3> QED
        BY <3>1 DEF NoOrder, EntryOrder
    <2>2. orders \in [Trades -> EntryOrder]
      BY <2>1
    <2>3. armed \in BOOLEAN /\ lapsed \in BOOLEAN /\ hasty \in BOOLEAN
      BY Zenon
    <2>4. NothingBooked \in [size : 0..Size, fills : 0..Size] /\ held \in 0..Size
      BY VenueAssumption DEF NothingBooked
    <2>5. trade \in 0..MaxTrades /\ missed \in 0..Outage
      BY VenueAssumption, ProtectionAssumption
    <2> QED
      BY <2>2, <2>3, <2>4, <2>5, NoJobType, NoRecordType
      DEF TypeOK, ManagerTypeOK, VenueTypeOK, ProtectionTypeOK, LoopStates
  <1>2. OnlyLatestOpen
    BY VenueAssumption DEF OnlyLatestOpen, Whole, Within, NoOrder, Trades
  <1>3. HeldIsBought /\ Shielded /\ booked.fills = booked.size
    BY DEF HeldIsBought, Shielded, NothingBooked
  <1>4. Entering /\ VerdictIsFinal /\ Protecting
    BY DEF Entering, VerdictIsFinal, Protecting, EntryStates, ProtectStates, Outcomes
  <1>5. Callers /\ Tracking /\ Stepping /\ BetweenTrades
    BY NoJobType DEF Callers, Tracking, Stepping, BetweenTrades
  <1>6. LevelsAreWatched
    BY FS_EmptySet DEF LevelsAreWatched
  <1> QED
    BY <1>1, <1>2, <1>3, <1>4, <1>5, <1>6 DEF IInv

\* Every step keeps the invariant.
LEMMA NextIInv ==
  ASSUME Sound, IInv, [Next]_vars
  PROVE  IInv'
  <1>1. CASE EntryStep /\ UNCHANGED <<protection, loop, observers>>
    BY <1>1, PlaceEntryKeeps, PollEntryKeeps, CancelEntryKeeps, AfterCancelKeeps DEF EntryStep
  <1>2. CASE ProtectStep /\ UNCHANGED <<loop, observers>>
    BY <1>2, ArmKeeps, PlaceStopKeeps, VerifyStopKeeps, PlaceLegsKeeps, EmergencyKeeps,
       ConfirmKeeps
    DEF ProtectStep
  <1>3. CASE DecideToEnter
    BY <1>3, DecideKeeps
  <1>4. CASE HandleVerdict
    BY <1>4, VerdictKeeps
  <1>5. CASE HandleProtection
    BY <1>5, ProtectionKeeps
  <1>6. CASE HandleReprotection
    BY <1>6, ReprotectionKeeps
  <1>7. CASE RefreshCountdown
    BY <1>7, RefreshKeeps
  <1>8. CASE Settle
    BY <1>8, SettleKeeps
  <1>9. CASE Reconcile
    BY <1>9, ReconcileKeeps
  <1>10. CASE CheckSession
    BY <1>10, SessionKeeps
  <1>11. CASE CloseAll
    BY <1>11, CloseAllKeeps
  <1>12. CASE CheckClosed
    BY <1>12, CheckClosedKeeps
  <1>13. CASE SweepLevels
    BY <1>13, SweepKeeps
  <1>14. CASE Stop
    BY <1>14, StopKeeps
  <1>15. CASE Release
    BY <1>15, ReleaseKeeps
  <1>16. CASE Crash
    BY <1>16, CrashKeeps
  <1>17. CASE Start
    BY <1>17, StartKeeps
  <1>18. CASE Exchange /\ UNCHANGED <<manager, protection, loop, booked>>
    <2>1. CASE (\E n \in Trades : Fill(n)) /\ UNCHANGED <<lapsed, hasty>>
      BY <1>18, <2>1, FillKeeps DEF observers
    <2>2. CASE (\E fired \in Firing : Market(fired)) /\ UNCHANGED <<lapsed, hasty>>
      BY <1>18, <2>2, MarketKeeps DEF observers
    <2>3. CASE /\ Unattended /\ CountdownExpires
               /\ lapsed' = (lapsed \/ (tracked # NoPosition /\ missed > 0))
               /\ hasty' = FALSE
      BY <1>18, <2>3, ExpiryKeeps
    <2> QED
      BY <1>18, <2>1, <2>2, <2>3, Zenon DEF Exchange
  <1>19. CASE UNCHANGED vars
    <2> USE <1>19 DEF IInv, vars, venue, manager, protection, loop, observers
    <2>1. TypeOK'
      BY DEF TypeOK, ManagerTypeOK, VenueTypeOK, ProtectionTypeOK
    <2>2. OnlyLatestOpen'
      BY DEF OnlyLatestOpen
    <2>3. (HeldIsBought /\ Shielded /\ booked.fills = booked.size)'
      BY DEF HeldIsBought, Shielded, SaysProtected, ReprotectedShort, Guarded, Order
    <2>4. (Entering /\ VerdictIsFinal)'
      BY DEF Entering, VerdictIsFinal, Order
    <2>5. Protecting'
      BY DEF Protecting, StopLevel, Level, Order
    <2>6. (Callers /\ Tracking /\ Stepping /\ BetweenTrades)'
      BY DEF Callers, Tracking, Stepping, BetweenTrades, Order
    <2>7. LevelsAreWatched'
      BY DEF LevelsAreWatched
    <2> QED
      BY <2>1, <2>2, <2>3, <2>4, <2>5, <2>6, <2>7
  <1> QED
    BY <1>1, <1>2, <1>3, <1>4, <1>5, <1>6, <1>7, <1>8, <1>9, <1>10, <1>11, <1>12, <1>13,
       <1>14, <1>15, <1>16, <1>17, <1>18, <1>19, Zenon
    DEF Next

LEMMA Invariance ==
  ASSUME Sound
  PROVE  Spec => []IInv
  <1>1. Init => IInv
    BY InitIInv
  <1>2. IInv /\ [Next]_vars => IInv'
    BY NextIInv
  <1> QED
    BY <1>1, <1>2, PTL DEF Spec

\* The types of everything the stack keeps, above all of what the fills and the reads of a
\* position come to: the loop never tracks more than a whole entry, and never a negative
\* rest of one.
THEOREM TypesHold ==
  ASSUME Sound
  PROVE  Spec => []TypeOK
  <1>1. IInv => TypeOK
    BY DEF IInv
  <1> QED
    BY <1>1, Invariance, PTL

\* Whatever entries a stopped, interrupted or dead process left behind, what is held is
\* never more than one of them.
THEOREM DoublesNever ==
  ASSUME Sound
  PROVE  Spec => []NeverDoubles
  <1>1. IInv => NeverDoubles
    <2> SUFFICES ASSUME IInv PROVE Abs(pos) <= Size
      BY DEF NeverDoubles
    <2>1. CASE pos = 0
      BY <2>1, VenueAssumption DEF Abs
    <2>2. CASE pos # 0
      BY <2>2, HeldSide DEF IInv
    <2> QED
      BY <2>1, <2>2
  <1> QED
    BY <1>1, Invariance, PTL

\* Between two steps the loop tracks what the exchange holds, on its side.
THEOREM ForgetsNever ==
  ASSUME Sound
  PROVE  Spec => []NeverForgets
  <1>1. IInv => NeverForgets
    <2> SUFFICES ASSUME IInv, pc = "idle", pos # 0
                 PROVE  tracked # NoPosition /\ tracked.direction = Sign(pos)
      BY DEF NeverForgets
    <2>1. tracked # NoPosition
      BY DEF IInv, BetweenTrades
    <2> QED
      BY <2>1, HeldSide DEF IInv, Tracking
  <1> QED
    BY <1>1, Invariance, PTL

\* However the levels of a trade fired between two reads, its fills add up to its size.
THEOREM FillsAddUp ==
  ASSUME Sound
  PROVE  Spec => []BookedExactly
  <1>1. IInv => BookedExactly
    BY DEF IInv, Tracking, BookedExactly
  <1> QED
    BY <1>1, Invariance, PTL

\* No level of an earlier trade rests against the position now held, unless its entry was
\* decided on while the countdown over that level ran and has not run out since.
THEOREM LevelsAreFresh ==
  ASSUME Sound
  PROVE  Spec => []NoStaleLevel
  <1>1. IInv => NoStaleLevel
    BY DEF IInv, LevelsAreWatched, NoStaleLevel
  <1> QED
    BY <1>1, Invariance, PTL

\* A position the loop calls protected has a live stop for all of it.
THEOREM StaysCovered ==
  ASSUME Sound
  PROVE  Spec => []Covered
  <1>1. IInv => Covered
    BY DEF IInv, Shielded, Covered
  <1> QED
    BY <1>1, Invariance, PTL
================================================================================
