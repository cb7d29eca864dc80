---------------------------- MODULE Readiness_proofs ---------------------------
(***************************************************************************)
(* Theorems about the paper run and the live start, for every calendar,    *)
(* recording, timeout and set of faults.                                   *)
(***************************************************************************)
EXTENDS Readiness, PaperTrader_proofs

(***************************************************************************)
(* The run is always within one timeout of an end.                         *)
(***************************************************************************)

Clock ==
    /\ bar \in Nat
    /\ polls \in 0..Polls
    /\ pc = "step" => bar <= LastBar

LEMMA BoundsType == LastBar \in Nat /\ Polls \in Nat
  BY PaperAssumption

\* The last thing a step does keeps the clock and brings the end nearer.
LEMMA StepEndsClock ==
  ASSUME NEW d, Clock, StepEnds(d), pc \in {"step", "resting"}
  PROVE  /\ Clock'
         /\ Running' => Ahead' < Ahead
  <1>1. /\ bar' = bar + 1
        /\ pc' = IF bar < LastBar THEN "step" ELSE "over"
        /\ polls' = 0
    BY DEF StepEnds
  <1>2. Clock'
    BY <1>1, BoundsType, Z3 DEF Clock
  <1>3. ASSUME Running' PROVE Ahead' < Ahead
    <2>1. bar < LastBar /\ pc' = "step"
      BY <1>1, <1>3 DEF Running
    <2>2. /\ Smaller(bar, LastBar + 1) = bar
          /\ Smaller(bar', LastBar + 1) = bar + 1
      BY <2>1, <1>1, BoundsType DEF Clock, Smaller
    <2> DEFINE rest == (LastBar + 1 - (bar + 1)) * (Polls + 3)
               now == (LastBar + 1 - bar) * (Polls + 3)
    <2>3. Ahead' = rest + Polls + 2
      BY <2>1, <2>2, BoundsType DEF Ahead, Clock
    <2>4. Ahead \in Int /\ Ahead >= now
      BY <2>2, BoundsType DEF Ahead, Clock
    <2>5. now = rest + Polls + 3 /\ rest \in Int
      BY BoundsType DEF Clock
    <2> HIDE DEF rest, now
    <2> QED
      BY <2>3, <2>4, <2>5, BoundsType
  <1> QED
    BY <1>2, <1>3

\* Waiting moves the clock one bar and uses up one poll.
LEMMA WaitClock ==
  ASSUME Clock, pc = "resting", pc' = "resting", polls > 0,
         bar' = bar + 1, polls' = polls - 1
  PROVE  Clock' /\ Ahead' < Ahead
  <1>1. Clock'
    BY BoundsType DEF Clock
  <1> DEFINE more == LastBar + 1 - Smaller(bar, LastBar + 1)
             less == LastBar + 1 - Smaller(bar + 1, LastBar + 1)
  <1>2. more \in Nat /\ less \in Nat /\ less <= more
    BY BoundsType DEF Clock, Smaller
  <1>3. Ahead = more * (Polls + 3) + polls /\ Ahead' = less * (Polls + 3) + (polls - 1)
    BY DEF Ahead
  <1> HIDE DEF more, less
  <1>4. less * (Polls + 3) <= more * (Polls + 3)
    <2>1. (more - less) * (Polls + 3) \in Nat
      BY <1>2, BoundsType
    <2>2. more * (Polls + 3) = less * (Polls + 3) + (more - less) * (Polls + 3)
      BY <1>2, BoundsType
    <2>3. less * (Polls + 3) \in Int
      BY <1>2, BoundsType
    <2> QED
      BY <2>1, <2>2, <2>3
  <1>5. less * (Polls + 3) \in Int /\ more * (Polls + 3) \in Int
    BY <1>2, BoundsType
  <1> QED
    BY <1>1, <1>3, <1>4, <1>5, BoundsType DEF Clock

\* An entry starts to wait.
LEMMA EnterClock ==
  ASSUME Clock, Enter
  PROVE  Clock' /\ Ahead' < Ahead
  <1>1. pc = "step" /\ pc' = "resting" /\ polls' = Polls /\ bar' = bar
    BY DEF Enter
  <1>2. Clock'
    BY <1>1, BoundsType DEF Clock
  <1> DEFINE rest == (LastBar + 1 - Smaller(bar, LastBar + 1)) * (Polls + 3)
  <1>3. rest \in Int
    BY BoundsType DEF Clock, Smaller
  <1>4. Ahead = rest + (Polls + 2) /\ Ahead' = rest + Polls
    BY <1>1, Zenon DEF Ahead
  <1> HIDE DEF rest
  <1> QED
    BY <1>2, <1>3, <1>4, BoundsType

\* Every action of a run keeps the clock and brings the end nearer.
LEMMA RunClock ==
  ASSUME Clock, Run
  PROVE  Clock' /\ (Running /\ Running' => Ahead' < Ahead)
  <1>1. CASE Enter
    BY <1>1, EnterClock
  <1>2. CASE WaitForMarket \/ WaitForNothing
    <2>1. /\ pc = "resting" /\ pc' = "resting" /\ polls > 0
          /\ bar' = bar + 1 /\ polls' = polls - 1
      BY <1>2 DEF WaitForMarket, WaitForNothing, Resting
    <2> QED
      BY <2>1, WaitClock
  <1>3. CASE HoldPosition \/ FlattenForSession \/ Reprotect \/ StandAside
             \/ EntryExpired \/ EntryFilled
    <2>1. /\ pc \in {"step", "resting"}
          /\ \E d : StepEnds(d)
      BY <1>3 DEF HoldPosition, FlattenForSession, Reprotect, StandAside, EntryExpired,
                  EntryFilled, Resting
    <2> QED
      BY <2>1, StepEndsClock
  <1> QED
    BY <1>1, <1>2, <1>3 DEF Run

\* The clock holds along every behaviour, and the end comes nearer with every step.
LEMMA ClockStep ==
  ASSUME Clock, [Next]_vars
  PROVE  Clock' /\ [Running /\ Running' => Ahead' < Ahead]_vars
  <1>1. CASE PaperRun
    BY <1>1, RunClock DEF PaperRun
  <1>2. CASE RecordTrades
    <2>1. pc = "over" /\ pc' = "recorded" /\ bar' = bar /\ polls' = polls
      BY <1>2 DEF RecordTrades
    <2> QED
      BY <2>1 DEF Clock, Running
  <1>3. CASE RecordEvidence \/ Crash
    <2>1. pc' = "off" /\ bar' = 0 /\ polls' = 0
      BY <1>3 DEF RecordEvidence, Crash, Gone
    <2> QED
      BY <2>1, BoundsType DEF Clock, Running
  <1>4. CASE StartLive
    <2>1. pc = "off" /\ pc' = "live" /\ bar' = bar /\ polls' = polls
      BY <1>4 DEF StartLive
    <2> QED
      BY <2>1 DEF Clock, Running
  <1>5. CASE UNCHANGED vars
    <2>1. pc' = pc /\ bar' = bar /\ polls' = polls
      BY <1>5 DEF vars, paper
    <2> QED
      BY <2>1, <1>5 DEF Clock
  <1> QED
    BY <1>1, <1>2, <1>3, <1>4, <1>5 DEF Next

\* A paper run ends: each of its steps brings the end nearer, whatever the market does,
\* however the calls fail, and also where an entry waits on a recording that has run out.
THEOREM RunsProgress == Spec => RunProgresses
  <1>1. Init => Clock
    BY BoundsType DEF Init, PaperInit, Clock
  <1>2. Clock /\ [Next]_vars => Clock'
    BY ClockStep
  <1>3. Clock /\ [Next]_vars => [Running /\ Running' => Ahead' < Ahead]_vars
    BY ClockStep
  <1> QED
    BY <1>1, <1>2, <1>3, PTL DEF Spec, RunProgresses

(***************************************************************************)
(* The calendar.                                                           *)
(***************************************************************************)

LEMMA WindowType ==
  ASSUME NEW w \in Windows
  PROVE  w.weekday \in 0..6 /\ w.start \in 0..(DayMinutes - 1) /\ w.end \in 1..DayMinutes
  BY SessionAssumption DEF SessionWindow

LEMMA MarginsType ==
  FlatBefore \in Nat /\ NoEntryBefore \in Nat /\ NoEntryAfter \in Nat
    /\ FlatBefore <= NoEntryBefore
  BY SessionAssumption

\* A minute within a window is a minute of its day.
LEMMA WithinWindow ==
  ASSUME NEW n \in Int, NEW a \in 0..(n - 1), NEW b \in 1..n, NEW r \in Int, a <= r, r < b
  PROVE  r \in a..(b - 1) /\ r \in 0..(n - 1)
  OBVIOUS

\* The guard's day and minute of the week agree with independent calendar arithmetic: a
\* minute away from now but in the window that holds now is a minute the venue is open.
LEMMA OpenInWindow ==
  ASSUME NEW now \in Int, NEW t \in Int, NEW w \in Current(now),
         w.start <= Minute(now) + (t - now), Minute(now) + (t - now) < w.end
  PROVE  OpenAt(t)
  <1>1. w \in Windows /\ w.weekday = Weekday(now)
    BY DEF Current
  <1> DEFINE q == now \div 1440
             m == now % 1440
             j == (q + 3) \div 7
             wd == (q + 3) % 7
  <1>2. q \in Int /\ m \in 0..1439 /\ now = 1440 * q + m
    OBVIOUS
  <1> HIDE DEF q, m
  <1>3. j \in Int /\ wd \in 0..6 /\ q + 3 = 7 * j + wd
    BY <1>2
  <1>4. w.weekday = wd /\ Minute(now) = m
    BY <1>1 DEF Weekday, Minute, DayMinutes, q, m
  <1> HIDE DEF j, wd
  <1> DEFINE r == m + (t - now)
  <1>5. t - (wd + 4) * 1440 = 10080 * (j - 1) + r
    BY <1>2, <1>3
  <1>6. r \in w.start..(w.end - 1) /\ r \in 0..1439
    <2>1. w.start \in 0..(DayMinutes - 1) /\ w.end \in 1..DayMinutes
      BY <1>1, WindowType, Zenon
    <2>2. DayMinutes \in Int
      BY DEF DayMinutes
    <2>3. r \in Int
      BY <1>2
    <2>4. w.start <= r /\ r < w.end
      BY <1>4
    <2> HIDE DEF r
    <2>5. r \in w.start..(w.end - 1) /\ r \in 0..(DayMinutes - 1)
      BY ONLY <2>1, <2>2, <2>3, <2>4, WithinWindow
    <2> QED
      BY ONLY <2>5 DEF DayMinutes
  <1>7. (t - (wd + 4) * 1440) % 10080 = r
    BY <1>2, <1>3, <1>5, <1>6
  <1>8. (t - (w.weekday + 4) * DayMinutes) % (7 * DayMinutes) = r
    BY <1>4, <1>7 DEF DayMinutes
  <1> QED
    BY <1>1, <1>6, <1>8 DEF OpenAt

\* Where the guard lets an entry through, the venue has been and stays open for the margins.
LEMMA EntryMargins ==
  ASSUME NEW now \in Int, SessionVerdict("windows", now).entry
  PROVE  OpenThrough(now - NoEntryAfter, now + NoEntryBefore)
  <1>1. Current(now) # {} /\ InWindow(now).entry
    BY DEF SessionVerdict, Verdict
  <1> DEFINE w == CHOOSE w \in Current(now) : TRUE
  <1>2. w \in Current(now)
    BY <1>1
  <1> HIDE DEF w
  <1>3. /\ ~(w.end - Minute(now) <= NoEntryBefore)
        /\ ~(Minute(now) - w.start < NoEntryAfter)
    BY <1>1 DEF InWindow, Verdict, w
  <1>4. SUFFICES ASSUME NEW t \in (now - NoEntryAfter)..(now + NoEntryBefore)
                 PROVE  OpenAt(t)
    BY DEF OpenThrough
  <1>5. w.start \in Int /\ w.end \in Int /\ Minute(now) \in Int /\ t \in Int
    <2>1. w \in Windows
      BY <1>2 DEF Current
    <2>2. w.start \in 0..(DayMinutes - 1) /\ w.end \in 1..DayMinutes
      BY <2>1, WindowType, Zenon
    <2> QED
      BY <2>2, MarginsType, SMTT(60) DEF Minute, DayMinutes
  <1>6. w.start <= Minute(now) + (t - now) /\ Minute(now) + (t - now) < w.end
    BY <1>3, <1>5, MarginsType
  <1> QED
    BY <1>2, <1>5, <1>6, OpenInWindow

\* Where it neither flattens nor calls the venue closed, the venue stays open for the margin.
LEMMA HoldMargin ==
  ASSUME NEW now \in Int,
         ~SessionVerdict("windows", now).flat,
         SessionVerdict("windows", now).stage # "closed"
  PROVE  OpenThrough(now, now + FlatBefore)
  <1>1. Current(now) # {} /\ ~InWindow(now).flat
    BY DEF SessionVerdict, Verdict
  <1> DEFINE w == CHOOSE w \in Current(now) : TRUE
  <1>2. w \in Current(now)
    BY <1>1
  <1> HIDE DEF w
  <1>3. w.start \in Int /\ w.end \in Int /\ Minute(now) \in Int
    <2>1. w \in Windows
      BY <1>2 DEF Current
    <2>2. w.start \in 0..(DayMinutes - 1) /\ w.end \in 1..DayMinutes
      BY <2>1, WindowType, Zenon
    <2> QED
      BY <2>2, MarginsType, SMTT(60) DEF Minute, DayMinutes
  <1>4. ~(w.end - Minute(now) <= FlatBefore)
    BY <1>1, <1>3, MarginsType DEF InWindow, Verdict, w
  <1>5. SUFFICES ASSUME NEW t \in now..(now + FlatBefore) PROVE OpenAt(t)
    BY DEF OpenThrough
  <1>6. w.start <= Minute(now)
    BY <1>2 DEF Current
  <1>7. w.start <= Minute(now) + (t - now) /\ Minute(now) + (t - now) < w.end
    BY <1>3, <1>4, <1>6, MarginsType
  <1> QED
    BY <1>2, <1>7, OpenInWindow

(***************************************************************************)
(* The desk keeps its fields, whatever a step does with them.              *)
(***************************************************************************)

Shaped(d) == DOMAIN d = DOMAIN NewDesk

LEMMA Fields == {"sim", "position", "unconfirmed", "flattened"} \subseteq DOMAIN NewDesk
  BY DEF NewDesk

LEMMA BookFillShape ==
  ASSUME NEW d, NEW price, NEW contracts, Shaped(d)
  PROVE  Shaped(BookFill(d, price, contracts))
  BY DEF BookFill, Shaped

LEMMA CloseTradeShape ==
  ASSUME NEW d, Shaped(d)
  PROVE  Shaped(CloseTrade(d)) /\ CloseTrade(d).position = NoPosition
  BY Fields DEF CloseTrade, Shaped

LEMMA CloseCallShape ==
  ASSUME NEW d, NEW works, Shaped(d)
  PROVE  Shaped(CloseCall(d, works))
  BY DEF CloseCall, Shaped

LEMMA ProtectedShape ==
  ASSUME NEW d, NEW size, Shaped(d)
  PROVE  Shaped(Protected(d, size))
  BY DEF Protected, Shaped

LEMMA SettleShape ==
  ASSUME NEW d, Shaped(d)
  PROVE  Shaped(Settle(d))
  <1>1. PICK booked :
           /\ booked = Rebooked(d, AllBooked(d, Magnitude(d.sim.pos), Spent(d.sim, d.position)),
                                Magnitude(d.sim.pos))
           /\ Settle(d) \in {d, CloseTrade(booked), booked}
    BY SettlesTo
  <1>2. Shaped(booked)
    BY <1>1 DEF Shaped, Rebooked
  <1> QED
    BY <1>1, <1>2, CloseTradeShape

\* A flatten leaves no position behind, or says that it could not confirm the close.
LEMMA FlattenEffect ==
  ASSUME NEW d, NEW works, NEW stage, Shaped(d)
  PROVE  /\ Shaped(Flatten(d, works, stage))
         /\ \/ Flatten(d, works, stage).position = NoPosition
            \/ Flatten(d, works, stage).unconfirmed
  <1> DEFINE closed == CloseCall(d, works)
             swept == [closed EXCEPT !.sim.levels = @ \ d.position.levels]
             booked == IF d.position.remaining = 0 THEN swept
                       ELSE BookFill(swept, d.sim.last, d.position.remaining)
  <1>1. Flatten(d, works, stage)
          = IF closed.sim.pos # 0 THEN [closed EXCEPT !.unconfirmed = TRUE]
            ELSE [CloseTrade(booked) EXCEPT
                    !.flattened = IF stage = "protection" THEN @ + 1 ELSE @]
    BY Zenon DEF Flatten
  <1>2. Shaped(closed)
    BY CloseCallShape
  <1> HIDE DEF closed
  <1>3. Shaped(swept)
    BY <1>2 DEF Shaped
  <1> HIDE DEF swept
  <1>4. Shaped(booked)
    BY <1>3, BookFillShape
  <1> HIDE DEF booked
  <1>5. Shaped(CloseTrade(booked)) /\ CloseTrade(booked).position = NoPosition
    BY <1>4, CloseTradeShape
  <1> QED
    BY <1>1, <1>2, <1>5, Fields DEF Shaped

LEMMA SeenShape ==
  ASSUME NEW b, Shaped(desk)
  PROVE  Shaped(Seen(b))
  <1> DEFINE d == [desk EXCEPT !.sim = Walk(@, Path(b, desk)), !.unconfirmed = FALSE]
  <1>1. Shaped(d)
    BY DEF Shaped
  <1>2. Seen(b) = Settle(d)
    BY DEF Seen
  <1> HIDE DEF d
  <1> QED
    BY <1>1, <1>2, SettleShape

(***************************************************************************)
(* The session.                                                            *)
(***************************************************************************)

OnTime ==
    /\ Clock
    /\ session \in Venues
    /\ Shaped(desk)

LEMMA NowType ==
  ASSUME OnTime
  PROVE  Now \in Int
  <1>1. session.start \in Nat
    BY VenuesAssumption DEF OnTime
  <1>2. BarMinutes \in Nat
    BY PaperAssumption
  <1>3. Smaller(bar, LastBar) \in Nat
    BY BoundsType DEF OnTime, Clock, Smaller
  <1> QED
    BY <1>1, <1>2, <1>3 DEF Now

\* The end of a step keeps the fields and never leaves an entry resting.
LEMMA StepEndsDesk ==
  ASSUME NEW d, StepEnds(d)
  PROVE  desk' = d /\ session' = session /\ pc' # "resting"
  BY DEF StepEnds

\* What every step from "step" keeps of the desk.
LEMMA RunKeepsShape ==
  ASSUME OnTime, Run
  PROVE  Shaped(desk') /\ session' = session
  <1>1. CASE HoldPosition
    <2>1. PICK b \in Bars : StepEnds(Seen(b))
      BY <1>1 DEF HoldPosition
    <2> QED
      BY <2>1, StepEndsDesk, SeenShape DEF OnTime
  <1>2. CASE FlattenForSession
    <2>1. PICK b \in Bars, works \in Works : StepEnds(Flatten(Seen(b), works, "session"))
      BY <1>2 DEF FlattenForSession
    <2> QED
      BY <2>1, StepEndsDesk, SeenShape, FlattenEffect DEF OnTime
  <1>3. CASE Reprotect
    <2>1. PICK b \in Bars, works \in Works :
             \/ StepEnds(Protected(Seen(b), Seen(b).position.remaining))
             \/ StepEnds(CloseCall(Seen(b), works))
             \/ StepEnds(Flatten(CloseCall(Seen(b), works), TRUE, "protection"))
      BY <1>3 DEF Reprotect
    <2>2. Shaped(Seen(b)) /\ Shaped(CloseCall(Seen(b), works))
      BY SeenShape, CloseCallShape DEF OnTime
    <2>3. /\ Shaped(Protected(Seen(b), Seen(b).position.remaining))
          /\ Shaped(Flatten(CloseCall(Seen(b), works), TRUE, "protection"))
      BY <2>2, ProtectedShape, FlattenEffect
    <2>4. CASE StepEnds(Protected(Seen(b), Seen(b).position.remaining))
      BY <2>3, <2>4, StepEndsDesk, Zenon
    <2>5. CASE StepEnds(CloseCall(Seen(b), works))
      BY <2>2, <2>5, StepEndsDesk, Zenon
    <2>6. CASE StepEnds(Flatten(CloseCall(Seen(b), works), TRUE, "protection"))
      BY <2>3, <2>6, StepEndsDesk, Zenon
    <2> QED
      BY <2>1, <2>4, <2>5, <2>6
  <1>4. CASE StandAside
    <2>1. PICK b \in Bars : StepEnds(Seen(b))
      BY <1>4 DEF StandAside
    <2> QED
      BY <2>1, StepEndsDesk, SeenShape DEF OnTime
  <1>5. CASE Enter
    <2>1. PICK b \in Bars, direction \in {1, -1} :
             desk' = [Seen(b) EXCEPT !.sim = PlaceOrder(@, direction * Size,
                                                        b.mark - direction)]
      BY <1>5 DEF Enter
    <2>2. session' = session
      BY <1>5 DEF Enter
    <2> QED
      BY <2>1, <2>2, SeenShape DEF OnTime, Shaped
  <1>6. CASE WaitForMarket
    <2>1. PICK b \in Bars : desk' = [desk EXCEPT !.sim = Walk(@, Path(b, desk))]
      BY <1>6 DEF WaitForMarket
    <2> QED
      BY <1>6, <2>1 DEF WaitForMarket, OnTime, Shaped
  <1>7. CASE WaitForNothing
    BY <1>7 DEF WaitForNothing, OnTime
  <1>8. CASE EntryExpired
    <2>1. StepEnds([desk EXCEPT !.sim = CancelOrder(@)])
      BY <1>8 DEF EntryExpired
    <2> QED
      BY <2>1, StepEndsDesk DEF OnTime, Shaped
  <1>9. CASE EntryFilled
    <2> DEFINE order == desk.sim.order
               opened == Opened(desk, IF order.size > 0 THEN 1 ELSE -1, order.limit)
    <2>1. Shaped(opened)
      BY DEF Opened, OnTime, Shaped
    <2> HIDE DEF opened
    <2>2. PICK works \in Works :
             \/ StepEnds(Protected(opened, order.size))
             \/ StepEnds([CloseCall(opened, works) EXCEPT
                   !.equity = @ - Taker * Size, !.position = NoPosition,
                   !.flattened = @ + 1, !.charged = @ + (Maker + Taker) * Size,
                   !.sim.cash = 0, !.sim.strayed = FALSE])
             \/ \E again \in Works :
                   StepEnds(Flatten([CloseCall(opened, works) EXCEPT !.unprotected = TRUE],
                                    again, "protection"))
      BY <1>9, Zenon DEF EntryFilled, opened
    <2>3. Shaped(CloseCall(opened, works))
      BY <2>1, CloseCallShape
    <2>4. /\ Shaped([CloseCall(opened, works) EXCEPT !.unprotected = TRUE])
          /\ Shaped([CloseCall(opened, works) EXCEPT
                   !.equity = @ - Taker * Size, !.position = NoPosition,
                   !.flattened = @ + 1, !.charged = @ + (Maker + Taker) * Size,
                   !.sim.cash = 0, !.sim.strayed = FALSE])
      BY <2>3 DEF Shaped
    <2>5. CASE StepEnds(Protected(opened, order.size))
      BY <2>1, <2>5, StepEndsDesk, ProtectedShape
    <2>6. CASE StepEnds([CloseCall(opened, works) EXCEPT
                   !.equity = @ - Taker * Size, !.position = NoPosition,
                   !.flattened = @ + 1, !.charged = @ + (Maker + Taker) * Size,
                   !.sim.cash = 0, !.sim.strayed = FALSE])
      BY <2>4, <2>6, StepEndsDesk
    <2>7. CASE \E again \in Works :
                   StepEnds(Flatten([CloseCall(opened, works) EXCEPT !.unprotected = TRUE],
                                    again, "protection"))
      BY <2>4, <2>7, StepEndsDesk, FlattenEffect
    <2> QED
      BY <2>2, <2>5, <2>6, <2>7
  <1> QED
    BY <1>1, <1>2, <1>3, <1>4, <1>5, <1>6, <1>7, <1>8, <1>9 DEF Run

LEMMA OnTimeStep ==
  ASSUME OnTime, [Next]_vars
  PROVE  OnTime'
  <1>1. Clock'
    BY ClockStep DEF OnTime
  <1>2. CASE PaperRun
    BY <1>1, <1>2, RunKeepsShape DEF PaperRun, OnTime
  <1>3. CASE RecordTrades \/ StartLive \/ UNCHANGED vars
    <2>1. desk' = desk /\ session' = session
      BY <1>3 DEF RecordTrades, StartLive, vars, paper
    <2> QED
      BY <1>1, <2>1 DEF OnTime
  <1>4. CASE RecordEvidence \/ Crash
    <2>1. desk' = NewDesk /\ session' = session
      BY <1>4 DEF RecordEvidence, Crash, Gone
    <2> QED
      BY <1>1, <2>1 DEF OnTime, Shaped
  <1> QED
    BY <1>2, <1>3, <1>4 DEF Next

\* What the session asks of a step.
Respected ==
    (pc = "step" /\ session.calendar = "windows") =>
        /\ pc' = "resting" => OpenThrough(Now - NoEntryAfter, Now + NoEntryBefore)
        /\ (desk.position # NoPosition /\ desk'.position # NoPosition /\ ~desk'.unconfirmed)
              => OpenThrough(Now, Now + FlatBefore)

\* Where the guard does not ask to flatten.
LEMMA HeldRespected ==
  ASSUME OnTime, session.calendar = "windows", ~MustFlatten
  PROVE  OpenThrough(Now, Now + FlatBefore)
  BY NowType, HoldMargin DEF MustFlatten, Ruling

LEMMA FlattenedRespected ==
  ASSUME OnTime, FlattenForSession
  PROVE  desk'.position = NoPosition \/ desk'.unconfirmed
  <1>1. PICK b \in Bars, works \in Works : StepEnds(Flatten(Seen(b), works, "session"))
    BY DEF FlattenForSession
  <1> QED
    BY <1>1, StepEndsDesk, SeenShape, FlattenEffect DEF OnTime

LEMMA EnteredRespected ==
  ASSUME OnTime, session.calendar = "windows", Enter
  PROVE  /\ OpenThrough(Now - NoEntryAfter, Now + NoEntryBefore)
         /\ OpenThrough(Now, Now + FlatBefore)
  <1>1. SessionVerdict("windows", Now).entry
    BY DEF Enter, Ruling
  <1>2. Now \in Int
    BY NowType
  <1>3. OpenThrough(Now - NoEntryAfter, Now + NoEntryBefore)
    BY <1>1, <1>2, EntryMargins
  <1>4. Now..(Now + FlatBefore) \subseteq (Now - NoEntryAfter)..(Now + NoEntryBefore)
    BY <1>2, MarginsType
  <1> QED
    BY <1>3, <1>4 DEF OpenThrough

LEMMA RunRespects ==
  ASSUME OnTime, Run
  PROVE  Respected
  <1> SUFFICES ASSUME pc = "step", session.calendar = "windows"
               PROVE  Respected
    BY DEF Respected
  <1>1. CASE HoldPosition \/ Reprotect
    <2>1. ~MustFlatten /\ pc' # "resting"
      BY <1>1, StepEndsDesk DEF HoldPosition, Reprotect
    <2> QED
      BY <2>1, HeldRespected DEF Respected
  <1>2. CASE FlattenForSession
    <2>1. pc' # "resting"
      BY <1>2, StepEndsDesk DEF FlattenForSession
    <2> QED
      BY <2>1, <1>2, FlattenedRespected DEF Respected
  <1>3. CASE StandAside
    <2>1. pc' # "resting" /\ desk'.position = NoPosition
      BY <1>3, StepEndsDesk DEF StandAside
    <2> QED
      BY <2>1 DEF Respected
  <1>4. CASE Enter
    BY <1>4, EnteredRespected DEF Respected
  <1>5. CASE WaitForMarket \/ WaitForNothing \/ EntryExpired \/ EntryFilled
    BY <1>5 DEF WaitForMarket, WaitForNothing, EntryExpired, EntryFilled, Resting
  <1> QED
    BY <1>1, <1>2, <1>3, <1>4, <1>5 DEF Run

LEMMA NextRespects ==
  ASSUME OnTime, [Next]_vars
  PROVE  [Respected]_vars
  <1>1. CASE PaperRun
    BY <1>1, RunRespects DEF PaperRun
  <1>2. CASE RecordTrades \/ RecordEvidence \/ StartLive
    BY <1>2 DEF RecordTrades, RecordEvidence, StartLive, Respected
  <1>3. CASE Crash
    <2>1. pc' = "off" /\ desk' = NewDesk
      BY <1>3 DEF Crash, Gone
    <2>2. desk'.position = NoPosition
      BY <2>1 DEF NewDesk
    <2> QED
      BY <2>1, <2>2 DEF Respected
  <1> QED
    BY <1>1, <1>2, <1>3 DEF Next

\* Whatever the calendar of the venue, wherever in the week the recording starts and however
\* the closes fail, no entry is submitted without the venue open for the margins around it,
\* and a step leaves a position open only with the venue open for the margin after it,
\* unless it could not confirm the close.
THEOREM SessionsRespected == Spec => SessionRespected
  <1>1. Init => OnTime
    BY BoundsType DEF Init, PaperInit, Clock, OnTime, Shaped
  <1>2. OnTime /\ [Next]_vars => OnTime'
    BY OnTimeStep
  <1>3. OnTime /\ [Next]_vars => [Respected]_vars
    BY NextRespects
  <1> QED
    BY <1>1, <1>2, <1>3, PTL DEF Spec, SessionRespected, Respected

(***************************************************************************)
(* The books of the paper run.                                             *)
(***************************************************************************)

\* A run and what ends it keep the desk in order; nothing rests once it is over.
LEMMA RunInvStep ==
  ASSUME RunInv, [Next]_vars
  PROVE  RunInv'
  <1>1. CASE PaperRun
    BY <1>1, RunKeeps DEF PaperRun
  <1>2. CASE RecordTrades \/ StartLive
    <2>1. pc # "resting" /\ pc' # "resting" /\ desk' = desk /\ bare' = bare
      BY <1>2 DEF RecordTrades, StartLive
    <2> QED
      BY <2>1 DEF RunInv
  <1>3. CASE RecordEvidence \/ Crash
    <2>1. pc' # "resting" /\ desk' = NewDesk /\ bare' = FALSE
      BY <1>3 DEF RecordEvidence, Crash, Gone
    <2> QED
      BY <2>1, NewDeskOK DEF RunInv
  <1>4. CASE UNCHANGED vars
    <2>1. pc' = pc /\ desk' = desk /\ bare' = bare
      BY <1>4 DEF vars, paper
    <2> QED
      BY <2>1 DEF RunInv
  <1> QED
    BY <1>1, <1>2, <1>3, <1>4 DEF Next

LEMMA RunInvStart == Init => RunInv
  BY NewDeskOK DEF Init, PaperInit, RunInv

LEMMA RunInvHolds == Spec => []RunInv
  BY RunInvStart, RunInvStep, PTL DEF Spec

\* Between two steps the loop knows of all the simulator holds: nothing it does not track,
\* never more than it tracks and never on the other side, whatever the market triggers, in
\* whichever order the levels fire, and whichever stop or close is silently dropped.
THEOREM LoopTracksSimulator == Spec => []TracksSimulator
  <1>1. RunInv => TracksSimulator
    <2> SUFFICES ASSUME RunInv, pc \in {"step", "over", "recorded"}, Tracked(desk)
                 PROVE  /\ Magnitude(desk.sim.pos) <= desk.position.remaining
                        /\ desk.position.direction * desk.sim.pos >= 0
      BY DEF RunInv, TracksSimulator, DeskOK, Kept, Held, Tracked
    <2>1. desk \in Desks /\ Toward(desk.sim.pos, Direction(desk) * desk.position.remaining)
      BY DEF RunInv, DeskOK, Kept, Held, Typed
    <2>2. PICK direction \in {1, -1}, remaining \in Nat, pos \in Int :
             /\ direction = desk.position.direction /\ remaining = desk.position.remaining
             /\ pos = desk.sim.pos
      BY <2>1, LedgerOf, PositionType, DeskType
    <2>3. Toward(pos, direction * remaining)
      BY <2>1, <2>2 DEF Direction
    <2>4. Magnitude(pos) <= remaining /\ direction * pos >= 0
      <3>1. Magnitude(pos) <= remaining
        BY <2>3, MagnitudeOf
      <3>2. CASE direction = 1
        BY <2>3, <3>1, <3>2 DEF Toward
      <3>3. CASE direction = -1
        BY <2>3, <3>1, <3>3 DEF Toward
      <3> QED
        BY <3>1, <3>2, <3>3
    <2> QED
      BY <2>2, <2>4
  <1> QED
    BY <1>1, RunInvHolds, PTL

\* What the report's ledger check asks at the end holds at every moment: the account has moved
\* by the net results of the trades, what the open trade has booked, and the fees of flattened
\* entries, through partial exits, guessed settlements and emergency closes.
THEOREM LedgerReconciles == Spec => []BooksReconcile
  <1>1. RunInv => BooksReconcile
    BY DEF RunInv, BooksReconcile, DeskOK, Kept, Waiting, Balanced, Tracked
  <1> QED
    BY <1>1, RunInvHolds, PTL

\* _settle guesses which levels fired and in what order, and books them at their trigger; what
\* it books of a trade is what the simulator exchanged, for every ladder, size and price, unless
\* a level left by an earlier trade interfered.
THEOREM SettlementIsFaithful == Spec => []FaithfulBooks
  <1>1. RunInv => FaithfulBooks
    BY DEF RunInv, FaithfulBooks, DeskOK, Kept, Waiting, Faithful
  <1> QED
    BY <1>1, RunInvHolds, PTL

(***************************************************************************)
(* The types.                                                              *)
(***************************************************************************)

\* The clock never runs past the recording by more than a timeout.
Timed ==
    /\ Clock
    /\ pc \in {"step", "resting", "over", "recorded", "off", "live"}
    /\ pc = "resting" => bar + polls <= LastBar + Polls
    /\ bar <= LastBar + 1 + Polls
    /\ truth \in Truth

LEMMA StepEndsTimed ==
  ASSUME NEW d, Timed, StepEnds(d), pc \in {"step", "resting"}
  PROVE  /\ pc' \in {"step", "over"}
         /\ bar' <= LastBar + 1 + Polls
  <1>1. pc' \in {"step", "over"} /\ bar' = bar + 1
    BY DEF StepEnds
  <1>2. bar <= LastBar + Polls
    BY BoundsType DEF Timed, Clock
  <1> QED
    BY <1>1, <1>2, BoundsType DEF Timed, Clock

LEMMA RunTimed ==
  ASSUME Timed, Run
  PROVE  /\ pc' \in {"step", "resting", "over"}
         /\ pc' = "resting" => bar' + polls' <= LastBar + Polls
         /\ bar' <= LastBar + 1 + Polls
  <1>1. CASE Enter
    <2>1. pc = "step" /\ pc' = "resting" /\ polls' = Polls /\ bar' = bar
      BY <1>1 DEF Enter
    <2> QED
      BY <2>1, BoundsType DEF Timed, Clock
  <1>2. CASE WaitForMarket \/ WaitForNothing
    <2>1. /\ pc = "resting" /\ pc' = "resting" /\ polls > 0
          /\ bar' = bar + 1 /\ polls' = polls - 1
      BY <1>2 DEF WaitForMarket, WaitForNothing, Resting
    <2> QED
      BY <2>1, BoundsType DEF Timed, Clock
  <1>3. CASE HoldPosition \/ FlattenForSession \/ Reprotect \/ StandAside
             \/ EntryExpired \/ EntryFilled
    <2>1. /\ pc \in {"step", "resting"}
          /\ \E d : StepEnds(d)
      BY <1>3 DEF HoldPosition, FlattenForSession, Reprotect, StandAside, EntryExpired,
                  EntryFilled, Resting
    <2> QED
      BY <2>1, StepEndsTimed
  <1> QED
    BY <1>1, <1>2, <1>3 DEF Run

LEMMA TimedStep ==
  ASSUME Timed, RunInv, [Next]_vars
  PROVE  Timed'
  <1>1. Clock'
    BY ClockStep DEF Timed
  <1>2. CASE PaperRun
    <2>1. truth' = truth
      BY <1>2 DEF PaperRun, store
    <2> QED
      BY <1>1, <1>2, <2>1, RunTimed DEF PaperRun, Timed
  <1>3. CASE RecordTrades \/ StartLive
    <2>1. pc' \in {"recorded", "live"} /\ bar' = bar /\ truth' = truth
      BY <1>3 DEF RecordTrades, StartLive
    <2> QED
      BY <1>1, <2>1 DEF Timed
  <1>4. CASE RecordEvidence \/ Crash
    <2>1. pc' = "off" /\ bar' = 0
      BY <1>4 DEF RecordEvidence, Crash, Gone
    <2>2. CASE Crash
      BY <1>1, <2>1, <2>2, BoundsType DEF Timed, Crash
    <2>3. CASE RecordEvidence
      <3>1. truth' = [bare |-> bare, holding |-> desk.sim.pos # 0, faithful |-> desk.faithful]
            /\ pc = "recorded"
        BY <2>3 DEF RecordEvidence
      <3>2. bare \in BOOLEAN /\ desk.faithful
        BY <3>1 DEF RunInv, DeskOK, Kept, Faithful
      <3>3. desk.faithful \in BOOLEAN
        BY <3>1 DEF RunInv, DeskOK, Kept, Typed, Desks
      <3>4. truth' \in Truth
        BY <3>1, <3>2, <3>3 DEF Truth
      <3> QED
        BY <1>1, <2>1, <3>4, BoundsType DEF Timed
    <2> QED
      BY <1>4, <2>2, <2>3
  <1>5. CASE UNCHANGED vars
    <2>1. pc' = pc /\ bar' = bar /\ polls' = polls /\ truth' = truth
      BY <1>5 DEF vars, paper, store
    <2> QED
      BY <1>1, <2>1, <1>5 DEF Timed
  <1> QED
    BY <1>2, <1>3, <1>4, <1>5 DEF Next

\* The desk's part of the type.
DeskTypeOK ==
    /\ desk.sim.pos \in -Size..Size
    /\ desk.sim.order.trade \in 0..MaxTrades
    /\ desk.sim.levels \subseteq Levels
    /\ desk.position \in Positions \cup {NoPosition}
    /\ desk.position # NoPosition =>
          desk.position.direction * (desk.position.entry - desk.position.stop) > 0
    /\ Len(desk.trades) + desk.flattened <= 2 * desk.filled

LEMMA DeskTypes ==
  ASSUME RunInv
  PROVE  DeskTypeOK
  <1>1. Typed(desk) /\ Counted(desk)
    BY DEF RunInv, DeskOK, Kept, Waiting
  <1>2. /\ desk.sim.levels \subseteq Levels /\ desk.position \in Positions \cup {NoPosition}
        /\ desk.sim.order.trade \in 0..MaxTrades
    BY <1>1 DEF Typed, Desks, Simulators, Entries
  <1>3. Len(desk.trades) + desk.flattened <= 2 * desk.filled
    <2>1. Len(desk.trades) \in Nat /\ desk.flattened \in Nat /\ desk.filled \in Nat
      BY <1>1, DeskType DEF Typed
    <2> QED
      BY <1>1, <2>1 DEF Counted
  <1>4. ASSUME Tracked(desk)
        PROVE  desk.position.direction * (desk.position.entry - desk.position.stop) > 0
    <2>1. PICK direction \in {1, -1}, entry \in Int, gap \in Nat :
             /\ direction = desk.position.direction /\ entry = desk.position.entry
             /\ gap = StopTicks - 1 /\ gap > 0
      BY <1>1, <1>4, LedgerOf, PositionType, SizeType DEF Typed
    <2>2. desk.position.stop = entry - direction * gap
      BY <1>1, <1>4, <2>1 DEF Typed, Direction
    <2>3. direction * (entry - (entry - direction * gap)) > 0
      BY <2>1
    <2> QED
      BY <2>1, <2>2, <2>3
  <1>5. desk.sim.pos \in -Size..Size
    <2>1. desk.sim.pos \in Int /\ Size \in Nat
      BY <1>1, DeskType, SizeType DEF Typed
    <2>2. CASE pc # "resting" /\ Tracked(desk)
      <3>1. Toward(desk.sim.pos, Direction(desk) * desk.position.remaining)
        BY <2>2 DEF RunInv, DeskOK, Kept, Held
      <3>2. Direction(desk) \in {1, -1} /\ desk.position.remaining \in 1..Size
        BY <1>1, <2>2, LedgerOf, PositionType DEF Typed, Direction
      <3>3. CASE Direction(desk) = 1
        BY <2>1, <3>1, <3>2, <3>3 DEF Toward
      <3>4. CASE Direction(desk) = -1
        BY <2>1, <3>1, <3>2, <3>4 DEF Toward
      <3> QED
        BY <3>2, <3>3, <3>4
    <2>3. CASE pc # "resting" /\ ~Tracked(desk)
      BY <2>1, <2>3 DEF RunInv, DeskOK, Kept, Held
    <2>4. CASE pc = "resting"
      <3>1. Awaits(desk.sim)
        BY <2>4 DEF RunInv, Waiting
      <3> QED
        BY <2>1, <3>1 DEF Awaits, Toward
    <2> QED
      BY <2>2, <2>3, <2>4
  <1> QED
    BY <1>2, <1>3, <1>4, <1>5 DEF DeskTypeOK, Tracked

\* What a run and the store keep has its type: among it, the simulator never holds more than a
\* planned entry, every stop lies on the losing side of its entry, and the clock ends within a
\* timeout of the recording.
THEOREM TypesHold == Spec => []TypeOK
  <1>1. Init => Timed
    BY BoundsType DEF Init, PaperInit, Clock, Timed, Truth
  <1>2. Timed /\ RunInv /\ [Next]_vars => Timed'
    BY TimedStep
  <1>3. Timed /\ RunInv => TypeOK
    <2> SUFFICES ASSUME Timed, RunInv PROVE TypeOK
      OBVIOUS
    <2>1. bar \in 0..(LastBar + 1 + Polls)
      BY BoundsType DEF Timed, Clock
    <2>2. bare \in BOOLEAN
      BY DEF RunInv
    <2> QED
      BY <2>1, <2>2, DeskTypes DEF Timed, Clock, TypeOK, DeskTypeOK
  <1> QED
    BY <1>1, <1>2, <1>3, RunInvHolds, PTL DEF Spec

(***************************************************************************)
(* What live trading relies on.                                            *)
(***************************************************************************)

\* The store holds a testimony that somebody gave.
Testified == testimony \notin {NoTestimony, Corrupt}

\* What went wrong in the run it is about, an observed testimony admits.
Candid ==
    Testified /\ testimony.observed =>
        /\ truth.bare => testimony.unprotected
        /\ truth.holding => testimony.openAtEnd

LEMMA CandidStep ==
  ASSUME RunInv, Candid, [Next]_vars
  PROVE  Candid'
  <1>1. CASE PaperRun \/ RecordTrades \/ Crash \/ StartLive \/ UNCHANGED vars
    <2>1. testimony' = testimony /\ truth' = truth
      BY <1>1 DEF PaperRun, RecordTrades, Crash, StartLive, vars, store
    <2> QED
      BY <2>1 DEF Candid, Testified
  <1>2. CASE RecordEvidence
    <2>1. PICK deep \in BOOLEAN : testimony' = Evidence(desk, deep)
      BY <1>2 DEF RecordEvidence
    <2>2. truth'.bare = bare /\ truth'.holding = (desk.sim.pos # 0) /\ pc = "recorded"
      BY <1>2 DEF RecordEvidence
    <2>3. /\ testimony'.unprotected = desk.unprotected
          /\ testimony'.openAtEnd = (desk.position # NoPosition)
      BY <2>1 DEF Evidence
    <2>4. (bare => desk.unprotected) /\ (desk.sim.pos # 0 => desk.position # NoPosition)
      BY <2>2 DEF RunInv, DeskOK, Kept, Held, Tracked
    <2> QED
      BY <2>2, <2>3, <2>4 DEF Candid
  <1> QED
    BY <1>1, <1>2 DEF Next

LEMMA CandidHolds == Spec => []Candid
  <1>1. Init => Candid
    BY DEF Init, Candid
  <1>2. RunInv /\ Candid /\ [Next]_vars => Candid'
    BY CandidStep
  <1> QED
    BY <1>1, <1>2, RunInvHolds, PTL DEF Spec

\* What a passing report says of an evidence: somebody watched, no position was without a
\* stop, and none was left open.
LEMMA ConductPassed ==
  ASSUME NEW evidence, Values(ConductChecks(evidence)) \subseteq {"pass"}
  PROVE  evidence.observed /\ ~evidence.unprotected /\ ~evidence.openAtEnd
  <1>1. ConductChecks(evidence).stop_on_every_position = "pass"
        /\ ConductChecks(evidence).flat_at_end = "pass"
    <2>1. {"stop_on_every_position", "flat_at_end"} \subseteq DOMAIN ConductChecks(evidence)
      BY DEF ConductChecks
    <2> QED
      BY <2>1 DEF Values
  <1>2. /\ Withheld(evidence, Judge(evidence.unprotected)) = "pass"
        /\ Withheld(evidence, Judge(evidence.openAtEnd)) = "pass"
    BY <1>1 DEF ConductChecks
  <1> QED
    BY <1>2 DEF Withheld, Judge

\* A testimony that passes every conduct check is true: the run it is about, which may have
\* been cut short and replaced by an older one in the store, never ended a step exposed without
\* a stop and left nothing open.
THEOREM TestimonyIsTrue == Spec => []CleanTestimonyIsTrue
  <1>1. Candid => CleanTestimonyIsTrue
    BY ConductPassed DEF Candid, Testified, CleanTestimonyIsTrue
  <1> QED
    BY <1>1, CandidHolds, PTL

\* What a report built from the trade table lacks is a witness.
LEMMA UnwatchedFails ==
  ASSUME NEW trades, NEW liveRows
  PROVE  ~Validated(FromStore(trades, liveRows))
  <1> DEFINE evidence == FromStore(trades, liveRows)
  <1>1. ~evidence.observed
    BY DEF FromStore
  <1> HIDE DEF evidence
  <1>2. ~(Values(ConductChecks(evidence)) \subseteq {"pass"})
    BY <1>1, ConductPassed
  <1> QED
    BY <1>2 DEF Validated, evidence

\* What a validated report says besides.
LEMMA SampleSuffices ==
  ASSUME NEW evidence, Validated(evidence)
  PROVE  /\ Values(ConductChecks(evidence)) \subseteq {"pass"}
         /\ Len(evidence.trades) >= MinTrades
  <1>1. Values(ConductChecks(evidence)) \subseteq {"pass"}
        /\ Values(EvidenceChecks(evidence)) \subseteq {"pass"}
    BY DEF Validated
  <1>2. EvidenceChecks(evidence).sample_size = "pass"
    <2>1. "sample_size" \in DOMAIN EvidenceChecks(evidence)
      BY DEF EvidenceChecks
    <2> QED
      BY <1>1, <2>1 DEF Values
  <1>3. EvidenceChecks(evidence).sample_size
          = IF Len(evidence.trades) >= MinTrades THEN "pass" ELSE "insufficient"
    BY DEF EvidenceChecks
  <1> QED
    BY <1>1, <1>2, <1>3

LEMMA PassedAlone ==
  ASSUME NEW status, Go({status})
  PROVE  status = "pass"
  BY DEF Go

\* Once live trading runs, nothing writes the store or the testimony any more.
Launched == live # NotStarted => pc = "live" /\ LiveStartIsEarned

\* What the preflight found when it let live trading start.
LEMMA StartEarned ==
  ASSUME Candid, StartLive
  PROVE  LiveStartIsEarned'
  <1>1. PICK backtest \in Backtests : Go(EvidenceChecked(Observed, backtest))
    BY DEF StartLive
  <1>2. Validated(Observed)
    BY <1>1 DEF EvidenceChecked, Go, PaperValidated
  <1>3. testimony \notin {NoTestimony, Corrupt} /\ Observed = testimony
    BY <1>2, UnwatchedFails DEF Observed
  <1>4. ~truth.bare /\ ~truth.holding /\ Len(testimony.trades) >= MinTrades
    BY <1>2, <1>3, SampleSuffices, ConductPassed DEF Candid, Testified
  <1>5. PICK config \in Config, account \in Account, latched \in BOOLEAN,
             reads \in SUBSET {"account", "orders", "latches"} :
           /\ Go(GateChecked(config))
           /\ Go(AccountChecked(account, reads)) /\ Go(RiskChecked(latched, reads))
           /\ live' = [config |-> config, account |-> account,
                       latched |-> latched, reads |-> reads]
    BY DEF StartLive
  <1>6. config.dryRun = "false" /\ config.mode = "live" /\ config.confirm
    <2>1. Judge(~LiveEnabled(config)) = "pass"
      BY <1>5 DEF Go, GateChecked
    <2> QED
      BY <2>1 DEF Judge, LiveEnabled
  <1>7. /\ account.positions = 0 /\ account.funded
        /\ "orders" \in reads => account.orders = 0
    <2>1. Judge(~account.funded \/ account.positions # 0
                \/ Snapshot(account, reads).orders # 0) = "pass"
      BY <1>5, PassedAlone DEF AccountChecked
    <2>2. account.funded /\ account.positions = 0 /\ Snapshot(account, reads).orders = 0
      BY <2>1 DEF Judge
    <2>3. "orders" \in reads => Snapshot(account, reads).orders = account.orders
      BY DEF Snapshot, Account
    <2> QED
      BY <2>2, <2>3
  <1>8. "latches" \in reads => ~latched
    <2>1. Judge(LatchesSeen(latched, reads)) = "pass"
      BY <1>5, PassedAlone DEF RiskChecked
    <2> QED
      BY <2>1 DEF Judge, LatchesSeen
  <1>9. testimony' = testimony /\ truth' = truth
    BY DEF StartLive
  <1> QED
    BY <1>3, <1>4, <1>5, <1>6, <1>7, <1>8, <1>9 DEF LiveStartIsEarned

LEMMA LaunchedStep ==
  ASSUME Candid, Launched, [Next]_vars
  PROVE  Launched'
  <1>1. CASE PaperRun \/ RecordTrades \/ RecordEvidence \/ Crash
    <2>1. live' = live /\ pc # "live"
      BY <1>1 DEF PaperRun, RecordTrades, RecordEvidence, Crash, store, Run, HoldPosition,
                  FlattenForSession, Reprotect, StandAside, Enter, WaitForMarket,
                  WaitForNothing, EntryExpired, EntryFilled, Resting
    <2> QED
      BY <2>1 DEF Launched
  <1>2. CASE StartLive
    <2>1. pc' = "live"
      BY <1>2 DEF StartLive
    <2> QED
      BY <1>2, <2>1, StartEarned DEF Launched
  <1>3. CASE UNCHANGED vars
    <2>1. pc' = pc /\ live' = live /\ testimony' = testimony /\ truth' = truth
      BY <1>3 DEF vars, paper, store
    <2> QED
      BY <2>1 DEF Launched, LiveStartIsEarned
  <1> QED
    BY <1>1, <1>2, <1>3 DEF Next

\* Live trading starts only on the testimony of a watched run that reached its end, ended no
\* step exposed without a stop, left nothing open and traded enough; with all three switches
\* thrown; and on an account read as funded and empty with no latch set, as far as its orders
\* and the latches could be read.  No history of crashes, corrupt rows or failed reads gets
\* past the preflight otherwise.
THEOREM LiveIsEarned == Spec => []LiveStartIsEarned
  <1>1. Init => Launched
    BY DEF Init, Launched
  <1>2. Candid /\ Launched /\ [Next]_vars => Launched'
    BY LaunchedStep
  <1>3. Launched => LiveStartIsEarned
    BY DEF Launched, LiveStartIsEarned
  <1> QED
    BY <1>1, <1>2, <1>3, CandidHolds, PTL DEF Spec
================================================================================
