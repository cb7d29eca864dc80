------------------------- MODULE MarketDataFeed_proofs -------------------------
(***************************************************************************)
(* Theorems about MarketDataFeed for every value of its constants.  What   *)
(* is said of prices, positions and pings supposes that the socket is not  *)
(* closed properly by the server and that REST calls and pongs are quick;  *)
(* types and the order of position events need no such assumption.         *)
(***************************************************************************)
EXTENDS MarketDataFeed, FoldFacts

(***************************************************************************)
(* The inductive invariants.                                               *)
(***************************************************************************)

\* The phases in which run() is inside `async with`.
Online == {"subscribe", "market", "positions", "others", "reading"}

\* A socket exists exactly inside `async with`, a heartbeat only while reading.
SocketByPhase ==
    /\ phase \in Online <=> link # "none"
    /\ beat # Off => phase = "reading"

\* PositionForward, whether or not the cache is being served.
ReadPositionForward ==
    /\ synced => phase \in Online
    /\ synced /\ SizeAt(snapshot) # 0 =>
          /\ cursor >= snapshot
          /\ position = IF SizeAt(cursor) # 0 THEN cursor ELSE 0

\* What holds whatever goes wrong.
AlwaysInv ==
    /\ TypeOK
    /\ SocketByPhase
    /\ ReadPositionForward

\* Only a socket that is being read is trusted, and it was resynced.
TrustedIsOnline ==
    /\ connected => phase \in Online
    /\ ~pending => phase = "reading"
    /\ phase \in {"others", "reading"} /\ Credentials => synced
    /\ \A s \in Streams : age[s] # Missing => phase \in Online /\ s \in heard

\* Only a stop closes a socket properly, because a live one answers in time.
PongsAreQuick ==
    /\ link = "closed" => stopping
    /\ phase \in Online \ {"reading"} => pongAge = 0 /\ ~owed
    /\ link = "up" /\ beat # Off => IF owed THEN beat = 0 ELSE pongAge <= beat

\* The faults under which that is so.
Quiet == {"closed", "slow"} \cap Faults = {}

\* What holds besides when sockets do not close properly and answers are quick.
QuietInv ==
    /\ TrustedIsOnline
    /\ PongsAreQuick

(***************************************************************************)
(* The operators.                                                          *)
(***************************************************************************)

\* Counting and ageing keep a record of reconnects a record of reconnects.
LEMMA CountsStay ==
  ASSUME NEW counts \in Counts
  PROVE  Counted(counts) \in Counts /\ Older(counts) \in Counts
<1>1. Window \in Nat \ {0}
  BY FeedAssumption
<1>2. Counted(counts) \in Counts
  BY <1>1 DEF Counts, Counted
<1>3. Older(counts) \in Counts
  BY <1>1 DEF Counts, Older
<1>4. QED
  BY <1>2, <1>3

LEMMA NoCountsYet == NoCount \in Counts
  BY DEF NoCount, Counts

\* The account starts flat.
LEMMA FlatAtFirst == SizeAt(0) = 0
  BY DEF SizeAt

(***************************************************************************)
(* The parts of actions.                                                   *)
(***************************************************************************)

\* An invalidated cache is well typed, whatever it held.
LEMMA InvalidateTyped ==
  ASSUME TypeOK, Invalidate
  PROVE  /\ {connected', pending'} \subseteq BOOLEAN
         /\ uptime' \in 0..Warmup
         /\ pongAge' \in 0 .. PongTimeout + 1
         /\ age' \in Ages
         /\ \A s \in Streams : age'[s] \in Missing .. MaxAge[s] + 1
         /\ {position', cursor'} \subseteq 0..MaxChanges
<1>1. age' \in Ages /\ \A s \in Streams : age'[s] \in Missing .. MaxAge[s] + 1
  BY FeedAssumption DEF Invalidate, Ages, Missing
<1>2. connected' = FALSE /\ pending' = TRUE
  BY DEF Invalidate
<1>3. uptime' \in 0..Warmup /\ pongAge' \in 0 .. PongTimeout + 1
  BY DEF Invalidate, TypeOK
<1>4. {position', cursor'} \subseteq 0..MaxChanges
  BY FeedAssumption DEF Invalidate
<1>5. {connected', pending'} \subseteq BOOLEAN
  BY <1>2, Zenon
<1>6. QED
  BY <1>1, <1>3, <1>4, <1>5

\* Leaving a connection keeps the types of what belongs to it.
LEMMA UnplugTyped ==
  ASSUME TypeOK, Unplug
  PROVE  /\ {stopping', owed', loaded', synced', lateStop'} \subseteq BOOLEAN
         /\ {account', since', snapshot'} \subseteq 0..MaxChanges
         /\ beat' \in Off..PingInterval
         /\ link' = "none"
         /\ heard' \subseteq Streams
<1>1. beat' \in Off..PingInterval
  BY FeedAssumption DEF Unplug, Off
<1>2. QED
  BY <1>1 DEF outside, Unplug, TypeOK, FlagsOK

\* A failed connection leaves nothing but the time of its reconnect.
LEMMA FailKeeps ==
  ASSUME AlwaysInv, Fail
  PROVE  AlwaysInv'
<1>1. TypeOK /\ Unplug /\ Invalidate
  BY DEF AlwaysInv, Fail
<1>2. phase' \in {"backoff", "ended"} /\ wait' \in 0..MaxDelay
  BY FeedAssumption DEF Fail
<1>3. recent' \in Counts /\ made' \in Counts /\ attempt' \in 1..ResyncAttempts
  BY <1>1, FeedAssumption, CountsStay DEF Fail, RecordReconnect, TypeOK
<1>4. TypeOK'
  BY <1>1, <1>2, <1>3, InvalidateTyped, UnplugTyped DEF TypeOK, FlagsOK, Phases
<1>5. SocketByPhase'
  BY <1>1, <1>2 DEF Unplug, SocketByPhase, Online
<1>6. ReadPositionForward'
  BY <1>1 DEF Unplug, ReadPositionForward
<1>7. QED
  BY <1>4, <1>5, <1>6 DEF AlwaysInv

LEMMA InitAlways == Init => AlwaysInv
<1> SUFFICES ASSUME Init PROVE AlwaysInv
  OBVIOUS
<1>1. recent \in Counts /\ made \in Counts
  BY CountsStay, NoCountsYet DEF Init
<1>2. TypeOK
  <2>1. FlagsOK
    BY Zenon DEF Init, FlagsOK
  <2>2. QED
    BY <1>1, <2>1, FeedAssumption DEF Init, TypeOK, Phases, Ages, Missing, Off
<1>3. SocketByPhase /\ ReadPositionForward
  BY DEF Init, SocketByPhase, ReadPositionForward, Online, Off
<1>4. QED
  BY <1>2, <1>3 DEF AlwaysInv

(***************************************************************************)
(* Every step keeps AlwaysInv.                                             *)
(***************************************************************************)

LEMMA ConnectedAlways ==
  ASSUME AlwaysInv, Connected
  PROVE  AlwaysInv'
<1>1. TypeOK'
  <2>1. FlagsOK'
    BY Zenon DEF outside, Connected, AlwaysInv, TypeOK, FlagsOK
  <2>2. QED
    BY <2>1, FeedAssumption DEF outside, Connected, caches, AlwaysInv, TypeOK, Phases
<1>2. SocketByPhase'
  BY DEF Connected, AlwaysInv, SocketByPhase, Online
<1>3. ReadPositionForward'
  BY DEF Connected, ReadPositionForward
<1>4. QED
  BY <1>1, <1>2, <1>3 DEF AlwaysInv

LEMMA SubscribeAlways ==
  ASSUME AlwaysInv, Subscribe
  PROVE  AlwaysInv'
<1>1. CASE Fail
  BY <1>1, FailKeeps
<1>2. CASE ~Fail
  <2>1. TypeOK'
    BY <1>2 DEF outside, Subscribe, feed, caches, observers, AlwaysInv, TypeOK, FlagsOK,
       Phases
  <2>2. SocketByPhase'
    BY <1>2 DEF Subscribe, feed, caches, observers, AlwaysInv, SocketByPhase, Online
  <2>3. ReadPositionForward'
    BY <1>2 DEF Subscribe, feed, caches, observers, AlwaysInv, ReadPositionForward, Online
  <2>4. QED
    BY <2>1, <2>2, <2>3 DEF AlwaysInv
<1>3. QED
  BY <1>1, <1>2

LEMMA ResyncMarketAlways ==
  ASSUME AlwaysInv, ResyncMarket
  PROVE  AlwaysInv'
<1>1. TypeOK'
  <2>1. FlagsOK'
    BY Zenon DEF ResyncMarket, Trusted, sock, observers, AlwaysInv, TypeOK, FlagsOK
  <2>2. QED
    BY <2>1, FeedAssumption DEF ResyncMarket, Trusted, caches, sock, observers, AlwaysInv,
       TypeOK, Phases, Off
<1>2. SocketByPhase'
  BY DEF ResyncMarket, Trusted, sock, AlwaysInv, SocketByPhase, Online
<1>3. ReadPositionForward'
  BY DEF ResyncMarket, Trusted, caches, observers, AlwaysInv, ReadPositionForward, Online
<1>4. QED
  BY <1>1, <1>2, <1>3 DEF AlwaysInv

\* What REST reports is what it reported last, whatever events were served before.
LEMMA ResyncPositionsAlways ==
  ASSUME AlwaysInv, ResyncPositions
  PROVE  AlwaysInv'
<1>1. TypeOK'
  <2>1. FlagsOK'
    BY Zenon DEF outside, ResyncPositions, sock, AlwaysInv, TypeOK, FlagsOK
  <2>2. QED
    BY <2>1, FeedAssumption DEF outside, ResyncPositions, PositionsRead, sock, AlwaysInv,
       TypeOK, Phases
<1>2. SocketByPhase'
  BY DEF ResyncPositions, sock, AlwaysInv, SocketByPhase, Online
<1>3. ReadPositionForward'
  BY DEF ResyncPositions, PositionsRead, AlwaysInv, ReadPositionForward, TypeOK, Online
<1>4. QED
  BY <1>1, <1>2, <1>3 DEF AlwaysInv

LEMMA ResyncOthersAlways ==
  ASSUME AlwaysInv, ResyncOthers
  PROVE  AlwaysInv'
<1>1. TypeOK'
  <2>1. FlagsOK'
    BY Zenon DEF outside, ResyncOthers, Trusted, sock, observers, AlwaysInv, TypeOK, FlagsOK
  <2>2. QED
    BY <2>1, FeedAssumption DEF outside, ResyncOthers, Trusted, caches, sock, observers,
       AlwaysInv, TypeOK, Phases, Off
<1>2. SocketByPhase'
  BY DEF ResyncOthers, Trusted, sock, AlwaysInv, SocketByPhase, Online
<1>3. ReadPositionForward'
  BY DEF ResyncOthers, Trusted, caches, observers, AlwaysInv, ReadPositionForward, Online
<1>4. QED
  BY <1>1, <1>2, <1>3 DEF AlwaysInv

LEMMA ResyncCallFailsAlways ==
  ASSUME AlwaysInv, ResyncCallFails
  PROVE  AlwaysInv'
<1>1. CASE Fail
  BY <1>1, FailKeeps
<1>2. CASE ~Fail
  <2>1. TypeOK'
    BY <1>2, FeedAssumption DEF outside, ResyncCallFails, feed, caches, sock, observers,
       AlwaysInv, TypeOK, FlagsOK, Phases
  <2>2. SocketByPhase'
    BY <1>2 DEF ResyncCallFails, ResyncPhases, sock, AlwaysInv, SocketByPhase, Online
  <2>3. ReadPositionForward'
    BY <1>2 DEF ResyncCallFails, feed, caches, observers, AlwaysInv, ReadPositionForward,
       Online
  <2>4. QED
    BY <2>1, <2>2, <2>3 DEF AlwaysInv
<1>3. QED
  BY <1>1, <1>2

LEMMA PriceAlways ==
  ASSUME AlwaysInv, NEW s \in Streams, Price(s)
  PROVE  AlwaysInv'
<1>1. age' \in Ages /\ \A t \in Streams : age'[t] \in Missing .. MaxAge[t] + 1
  <2>1. \A t \in Streams : MaxAge[t] \in Nat
    BY FeedAssumption
  <2>2. age \in Ages /\ \A t \in Streams : age[t] \in Missing .. MaxAge[t] + 1
    BY DEF AlwaysInv, TypeOK
  <2>3. age' = [age EXCEPT ![s] = 0]
    BY DEF Price
  <2>4. QED
    BY <2>1, <2>2, <2>3 DEF Ages, Missing
<1>2. TypeOK'
  BY <1>1 DEF FlagsOK, outside, Price, run, sock, AlwaysInv, TypeOK
<1>3. SocketByPhase'
  BY DEF Price, run, sock, AlwaysInv, SocketByPhase
<1>4. ReadPositionForward'
  BY DEF Price, run, sock, AlwaysInv, ReadPositionForward
<1>5. QED
  BY <1>2, <1>3, <1>4 DEF AlwaysInv

\* An event is applied only when it is newer than what the cache holds.
LEMMA PositionEventAlways ==
  ASSUME AlwaysInv, NEW change \in 1..MaxChanges, PositionEvent(change)
  PROVE  AlwaysInv'
<1>1. TypeOK'
  BY FeedAssumption DEF FlagsOK, outside, PositionEvent, run, sock, observers, AlwaysInv,
     TypeOK
<1>2. SocketByPhase'
  BY DEF PositionEvent, run, sock, observers, AlwaysInv, SocketByPhase
<1>3. ReadPositionForward'
  <2>1. snapshot' \in Nat /\ cursor \in Nat /\ change \in Nat \ {0}
    BY FeedAssumption DEF PositionEvent, observers, AlwaysInv, TypeOK
  <2>2. SizeAt(snapshot') # 0 => snapshot' > 0
    BY <2>1, FlatAtFirst
  <2>3. synced' /\ SizeAt(snapshot') # 0 => cursor' >= snapshot'
    BY <2>1, <2>2 DEF PositionEvent, observers, AlwaysInv, ReadPositionForward
  <2>4. QED
    BY <2>3 DEF PositionEvent, run, sock, observers, AlwaysInv, ReadPositionForward, Online,
       SizeAt
<1>4. QED
  BY <1>1, <1>2, <1>3 DEF AlwaysInv

LEMMA PongAlways ==
  ASSUME AlwaysInv, Pong
  PROVE  AlwaysInv'
<1>1. TypeOK'
  <2>1. FlagsOK'
    BY Zenon DEF outside, Pong, observers, AlwaysInv, TypeOK, FlagsOK
  <2>2. QED
    BY <2>1, FeedAssumption DEF outside, Pong, caches, run, observers, AlwaysInv, TypeOK
<1>2. SocketByPhase'
  BY DEF Pong, run, AlwaysInv, SocketByPhase
<1>3. ReadPositionForward'
  BY DEF Pong, caches, run, observers, AlwaysInv, ReadPositionForward
<1>4. QED
  BY <1>1, <1>2, <1>3 DEF AlwaysInv

LEMMA EndAlways ==
  ASSUME AlwaysInv, Unplug, End, wait' \in 0..MaxDelay, UNCHANGED <<attempt, recent, made>>
  PROVE  AlwaysInv'
<1>1. TypeOK'
  BY InvalidateTyped, UnplugTyped DEF End, AlwaysInv, TypeOK, FlagsOK, Phases
<1>2. SocketByPhase'
  BY DEF End, Unplug, SocketByPhase, Online
<1>3. ReadPositionForward'
  BY DEF Unplug, ReadPositionForward
<1>4. QED
  BY <1>1, <1>2, <1>3 DEF AlwaysInv

LEMMA RejectedAlways ==
  ASSUME AlwaysInv, Rejected
  PROVE  AlwaysInv'
  BY EndAlways DEF Rejected, AlwaysInv, TypeOK

LEMMA CancelledAlways ==
  ASSUME AlwaysInv, Cancelled
  PROVE  AlwaysInv'
  BY EndAlways, FeedAssumption DEF Cancelled

\* The next round of the loop, or its end.
LEMMA LoopTopTyped ==
  ASSUME TypeOK, LoopTop
  PROVE  /\ phase' \in {"connecting", "ended"}
         /\ wait' \in 0..MaxDelay
         /\ attempt' \in 1..ResyncAttempts
         /\ recent' \in Counts /\ made' \in Counts
  BY FeedAssumption, CountsStay DEF LoopTop, TypeOK

LEMMA ReadEndsAlways ==
  ASSUME AlwaysInv, ReadEnds
  PROVE  AlwaysInv'
<1>1. CASE Fail
  BY <1>1, FailKeeps
<1>2. CASE ~Fail
  <2>1. TypeOK /\ Unplug /\ LoopTop
    BY <1>2 DEF ReadEnds, AlwaysInv
  <2>2. TypeOK'
    <3>1. CASE Invalidate
      BY <2>1, <3>1, LoopTopTyped, UnplugTyped, InvalidateTyped DEF TypeOK, FlagsOK, Phases
    <3>2. CASE UNCHANGED feed
      BY <2>1, <3>2, LoopTopTyped, UnplugTyped DEF feed, caches, TypeOK, FlagsOK, Phases
    <3>3. QED
      BY <1>2, <3>1, <3>2 DEF ReadEnds
  <2>3. SocketByPhase'
    BY <2>1, LoopTopTyped DEF Unplug, SocketByPhase, Online
  <2>4. ReadPositionForward'
    BY <2>1 DEF Unplug, ReadPositionForward
  <2>5. QED
    BY <2>2, <2>3, <2>4 DEF AlwaysInv
<1>3. QED
  BY <1>1, <1>2

LEMMA WakeUpAlways ==
  ASSUME AlwaysInv, WakeUp
  PROVE  AlwaysInv'
<1>1. TypeOK /\ LoopTop /\ Invalidate
  BY DEF WakeUp, AlwaysInv
<1>2. TypeOK'
  BY <1>1, LoopTopTyped, InvalidateTyped DEF outside, WakeUp, sock, TypeOK, FlagsOK, Phases
<1>3. SocketByPhase'
  BY <1>1, LoopTopTyped DEF WakeUp, sock, AlwaysInv, SocketByPhase, Online
<1>4. ReadPositionForward'
  BY <1>1 DEF WakeUp, AlwaysInv, ReadPositionForward, Online
<1>5. QED
  BY <1>2, <1>3, <1>4 DEF AlwaysInv

LEMMA HeartbeatAlways ==
  ASSUME AlwaysInv, Heartbeat
  PROVE  AlwaysInv'
<1>1. phase = "reading" /\ link # "none"
  BY FeedAssumption DEF Heartbeat, AlwaysInv, SocketByPhase, Online, Off
<1>2. beat' \in {Off, 0} /\ link' \in {"up", "silent", "reset", "closed"}
  BY <1>1 DEF Heartbeat, AfterClose, AlwaysInv, TypeOK
<1>3. TypeOK'
  <2>1. owed' \in BOOLEAN
    BY Zenon DEF Heartbeat, AlwaysInv, TypeOK, FlagsOK
  <2>2. FlagsOK'
    BY <2>1 DEF outside, Heartbeat, feed, observers, AlwaysInv, TypeOK, FlagsOK
  <2>3. QED
    BY <1>2, <2>2, FeedAssumption DEF outside, Heartbeat, feed, caches, run, observers,
       AlwaysInv, TypeOK, Off
<1>4. SocketByPhase'
  BY <1>1, <1>2 DEF Heartbeat, run, SocketByPhase, Online
<1>5. ReadPositionForward'
  BY DEF Heartbeat, feed, caches, run, observers, AlwaysInv, ReadPositionForward
<1>6. QED
  BY <1>3, <1>4, <1>5 DEF AlwaysInv

LEMMA StopAlways ==
  ASSUME AlwaysInv, Stop
  PROVE  AlwaysInv'
<1>1. /\ link' \in {"none", "up", "silent", "reset", "closed"}
      /\ link' = "none" <=> link = "none"
  BY DEF Stop, AfterClose, AlwaysInv, TypeOK
<1>2. TypeOK'
  <2>1. stopping' \in BOOLEAN /\ lateStop' \in BOOLEAN
    BY Zenon DEF Stop
  <2>2. FlagsOK'
    BY <2>1 DEF outside, Stop, feed, AlwaysInv, TypeOK, FlagsOK
  <2>3. QED
    BY <1>1, <2>2 DEF outside, Stop, feed, caches, run, AlwaysInv, TypeOK
<1>3. SocketByPhase'
  BY <1>1 DEF Stop, run, AlwaysInv, SocketByPhase
<1>4. ReadPositionForward'
  BY DEF Stop, feed, caches, run, AlwaysInv, ReadPositionForward
<1>5. QED
  BY <1>2, <1>3, <1>4 DEF AlwaysInv

LEMMA LinkFailsAlways ==
  ASSUME AlwaysInv, LinkFails
  PROVE  AlwaysInv'
<1>1. link # "none" /\ link' \in {"reset", "closed", "silent"}
  BY DEF LinkFails
<1>2. TypeOK'
  BY <1>1 DEF outside, LinkFails, feed, caches, run, observers, AlwaysInv, TypeOK, FlagsOK
<1>3. SocketByPhase'
  BY <1>1 DEF LinkFails, run, AlwaysInv, SocketByPhase
<1>4. ReadPositionForward'
  BY DEF LinkFails, feed, caches, run, observers, AlwaysInv, ReadPositionForward
<1>5. QED
  BY <1>2, <1>3, <1>4 DEF AlwaysInv

LEMMA AccountChangesAlways ==
  ASSUME AlwaysInv, AccountChanges
  PROVE  AlwaysInv'
<1>1. account' \in 0..MaxChanges
  BY FeedAssumption DEF AccountChanges, AlwaysInv, TypeOK
<1>2. TypeOK'
  BY <1>1 DEF AccountChanges, feed, caches, run, sock, observers, AlwaysInv, TypeOK, FlagsOK
<1>3. SocketByPhase'
  BY DEF AccountChanges, run, sock, AlwaysInv, SocketByPhase
<1>4. ReadPositionForward'
  BY DEF AccountChanges, feed, caches, run, observers, AlwaysInv, ReadPositionForward
<1>5. QED
  BY <1>2, <1>3, <1>4 DEF AlwaysInv

LEMMA TickAlways ==
  ASSUME AlwaysInv, Tick
  PROVE  AlwaysInv'
<1>1. /\ uptime' \in 0..Warmup
      /\ pongAge' \in 0 .. PongTimeout + 1
      /\ wait' \in 0..MaxDelay
  BY FeedAssumption DEF Tick, Least, AlwaysInv, TypeOK
<1>2. recent' \in Counts /\ made' \in Counts
  BY CountsStay DEF Tick, AlwaysInv, TypeOK
<1>3. age' \in Ages /\ \A s \in Streams : age'[s] \in Missing .. MaxAge[s] + 1
  <2>1. \A s \in Streams : MaxAge[s] \in Nat
    BY FeedAssumption
  <2>2. age \in Ages /\ \A s \in Streams : age[s] \in Missing .. MaxAge[s] + 1
    BY DEF AlwaysInv, TypeOK
  <2>3. age' = [s \in Streams |-> IF age[s] = Missing THEN Missing
                                  ELSE Least(age[s] + 1, MaxAge[s] + 1)]
    BY DEF Tick
  <2>4. QED
    BY <2>1, <2>2, <2>3 DEF Ages, Missing, Least
<1>4. beat' \in Off..PingInterval /\ (beat' # Off => beat # Off)
  BY FeedAssumption DEF Tick, Waiting, ResyncPhases, AlwaysInv, TypeOK, SocketByPhase, Off
<1>5. TypeOK'
  BY <1>1, <1>2, <1>3, <1>4 DEF outside, Tick, sock, AlwaysInv, TypeOK, FlagsOK
<1>6. SocketByPhase'
  BY <1>4 DEF Tick, sock, AlwaysInv, SocketByPhase
<1>7. ReadPositionForward'
  BY DEF Tick, AlwaysInv, ReadPositionForward
<1>8. QED
  BY <1>5, <1>6, <1>7 DEF AlwaysInv

LEMMA StutterAlways ==
  ASSUME AlwaysInv, UNCHANGED vars
  PROVE  AlwaysInv'
  BY DEF vars, outside, feed, caches, run, sock, observers, AlwaysInv, TypeOK, FlagsOK,
     SocketByPhase, ReadPositionForward, Online

LEMMA NextAlways ==
  ASSUME AlwaysInv, [Next]_vars
  PROVE  AlwaysInv'
<1>1. CASE Run
  BY <1>1, ConnectedAlways, FailKeeps, SubscribeAlways, ResyncMarketAlways,
     ResyncPositionsAlways, ResyncOthersAlways, ResyncCallFailsAlways, ReadEndsAlways,
     WakeUpAlways DEF Run, ConnectFails
<1>2. CASE Frame
  BY <1>2, PriceAlways, PositionEventAlways, PongAlways, RejectedAlways DEF Frame
<1>3. CASE Heartbeat \/ Cancelled \/ Stop \/ LinkFails \/ AccountChanges \/ Tick
  BY <1>3, HeartbeatAlways, CancelledAlways, StopAlways, LinkFailsAlways,
     AccountChangesAlways, TickAlways
<1>4. CASE UNCHANGED vars
  BY <1>4, StutterAlways
<1>5. QED
  BY <1>1, <1>2, <1>3, <1>4 DEF Next

(***************************************************************************)
(* Every step keeps QuietInv.                                              *)
(***************************************************************************)

LEMMA InitQuiet == Init => QuietInv
  BY DEF Init, QuietInv, TrustedIsOnline, PongsAreQuick, Online, Missing

\* Away from a socket with an invalidated cache there is nothing to be wrong about.
LEMMA OfflineQuiet ==
  ASSUME phase' \notin Online, Invalidate, link' = "none"
  PROVE  QuietInv'
<1>1. \A s \in Streams : age'[s] = Missing
  BY DEF Invalidate
<1>2. TrustedIsOnline'
  BY <1>1 DEF Invalidate, TrustedIsOnline, Online
<1>3. PongsAreQuick'
  BY DEF PongsAreQuick, Online
<1>4. QED
  BY <1>2, <1>3 DEF QuietInv

LEMMA FailQuiet ==
  ASSUME Fail
  PROVE  QuietInv'
  BY OfflineQuiet DEF Fail, Unplug, Online

LEMMA LeavingQuiet ==
  ASSUME AlwaysInv, QuietInv, Rejected \/ Cancelled \/ ReadEnds \/ WakeUp
  PROVE  QuietInv'
<1>1. CASE Rejected \/ Cancelled
  BY <1>1, OfflineQuiet DEF Rejected, Cancelled, Unplug, End, Online
<1>2. CASE ReadEnds /\ ~Fail
  <2>1. stopping
    BY <1>2 DEF ReadEnds, QuietInv, PongsAreQuick
  <2>2. Invalidate /\ Unplug /\ phase' = "ended"
    BY <1>2, <2>1 DEF ReadEnds, LoopTop
  <2>3. QED
    BY <2>2, OfflineQuiet DEF Unplug, Online
<1>3. CASE WakeUp
  <2>1. phase \notin Online /\ phase' \notin Online /\ Invalidate
    BY <1>3 DEF WakeUp, LoopTop, Online
  <2>2. link' = "none"
    BY <1>3, <2>1 DEF WakeUp, sock, AlwaysInv, TypeOK, SocketByPhase
  <2>3. QED
    BY <2>1, <2>2, OfflineQuiet
<1>4. QED
  BY <1>1, <1>2, <1>3, FailQuiet

LEMMA ConnectedQuiet ==
  ASSUME AlwaysInv, QuietInv, Connected
  PROVE  QuietInv'
<1>1. TrustedIsOnline'
  BY DEF Connected, caches, QuietInv, TrustedIsOnline, Online
<1>2. beat' = Off
  BY DEF Connected, AlwaysInv, SocketByPhase
<1>3. PongsAreQuick'
  BY <1>2 DEF Connected, PongsAreQuick
<1>4. QED
  BY <1>1, <1>3 DEF QuietInv

LEMMA SubscribeQuiet ==
  ASSUME AlwaysInv, QuietInv, Subscribe, ~Fail
  PROVE  QuietInv'
<1>1. TrustedIsOnline'
  BY DEF Subscribe, feed, caches, observers, QuietInv, TrustedIsOnline, Online
<1>2. PongsAreQuick'
  BY DEF Subscribe, feed, QuietInv, PongsAreQuick, Online
<1>3. QED
  BY <1>1, <1>2 DEF QuietInv

\* What resync reads before it is done leaves the feed untrusted.
LEMMA ResyncQuiet ==
  ASSUME AlwaysInv, QuietInv,
         ResyncPositions \/ (ResyncCallFails /\ ~Fail) \/ (ResyncMarket /\ Credentials)
  PROVE  QuietInv'
<1>1. TrustedIsOnline'
  BY DEF ResyncPositions, ResyncCallFails, ResyncPhases, ResyncMarket, feed, caches, sock,
     observers, QuietInv, TrustedIsOnline, Online
<1>2. PongsAreQuick'
  BY DEF ResyncPositions, ResyncCallFails, ResyncPhases, ResyncMarket, feed, sock, QuietInv,
     PongsAreQuick, Online
<1>3. QED
  BY <1>1, <1>2 DEF QuietInv

\* Reading begins with a pong that is new and, with keys, positions that were read.
LEMMA TrustedQuiet ==
  ASSUME AlwaysInv, QuietInv, ResyncOthers \/ (ResyncMarket /\ ~Credentials)
  PROVE  QuietInv'
<1>1. TrustedIsOnline'
  BY DEF ResyncOthers, ResyncMarket, Trusted, caches, sock, observers, QuietInv,
     TrustedIsOnline, Online
<1>2. beat' # Off => beat' = 0
  BY DEF ResyncOthers, ResyncMarket, Trusted
<1>3. pongAge' = 0 /\ ~owed' /\ phase' = "reading"
  BY DEF ResyncOthers, ResyncMarket, Trusted, sock, QuietInv, PongsAreQuick, Online
<1>4. PongsAreQuick'
  BY <1>2, <1>3 DEF ResyncOthers, ResyncMarket, sock, QuietInv, PongsAreQuick
<1>5. QED
  BY <1>1, <1>4 DEF QuietInv

LEMMA FrameQuiet ==
  ASSUME AlwaysInv, QuietInv, Frame, ~Rejected
  PROVE  QuietInv'
<1>1. ASSUME NEW s \in Streams, Price(s)
      PROVE  QuietInv'
  <2>1. TrustedIsOnline'
    BY <1>1 DEF Price, run, AlwaysInv, TypeOK, Ages, QuietInv, TrustedIsOnline, Online
  <2>2. PongsAreQuick'
    BY <1>1 DEF Price, run, sock, QuietInv, PongsAreQuick
  <2>3. QED
    BY <2>1, <2>2 DEF QuietInv
<1>2. ASSUME NEW change \in 1..MaxChanges, PositionEvent(change)
      PROVE  QuietInv'
  BY <1>2 DEF PositionEvent, run, sock, observers, QuietInv, TrustedIsOnline, PongsAreQuick
<1>3. CASE Pong
  <2>1. TrustedIsOnline'
    BY <1>3 DEF Pong, caches, run, observers, QuietInv, TrustedIsOnline
  <2>2. beat # Off => beat >= 0
    BY FeedAssumption DEF AlwaysInv, TypeOK, Off
  <2>3. PongsAreQuick'
    BY <1>3, <2>2 DEF Pong, run, QuietInv, PongsAreQuick
  <2>4. QED
    BY <2>1, <2>3 DEF QuietInv
<1>4. QED
  BY <1>1, <1>2, <1>3 DEF Frame

\* A heartbeat that finds a live link open has its last pong, so it closes nothing.
LEMMA HeartbeatSpares ==
  ASSUME AlwaysInv, QuietInv, Heartbeat, link = "up"
  PROVE  UNCHANGED link
<1>1. ~owed /\ pongAge <= PingInterval
  BY FeedAssumption DEF Heartbeat, AlwaysInv, TypeOK, QuietInv, PongsAreQuick, Off
<1>2. pongAge <= PongTimeout
  BY <1>1, FeedAssumption DEF AlwaysInv, TypeOK
<1>3. QED
  BY <1>2, FeedAssumption DEF Heartbeat, AlwaysInv, TypeOK

LEMMA HeartbeatQuiet ==
  ASSUME AlwaysInv, QuietInv, Heartbeat
  PROVE  QuietInv'
<1>1. TrustedIsOnline'
  BY DEF Heartbeat, feed, caches, run, observers, QuietInv, TrustedIsOnline
<1>2. phase = "reading" /\ phase' = "reading"
  BY FeedAssumption DEF Heartbeat, run, AlwaysInv, SocketByPhase, Off
<1>3. beat' # Off => beat' = 0
  BY DEF Heartbeat
<1>4. link' = "up" => link = "up" /\ (beat' # Off => owed')
  BY DEF Heartbeat, AfterClose, AlwaysInv, TypeOK
<1>5. link' = "closed" => link = "closed"
  BY HeartbeatSpares DEF Heartbeat, AfterClose, AlwaysInv, TypeOK
<1>6. PongsAreQuick'
  BY <1>2, <1>3, <1>4, <1>5 DEF Heartbeat, QuietInv, PongsAreQuick, Online
<1>7. QED
  BY <1>1, <1>6 DEF QuietInv

LEMMA OutsideQuiet ==
  ASSUME AlwaysInv, QuietInv, Quiet, Stop \/ LinkFails \/ AccountChanges
  PROVE  QuietInv'
<1>1. TrustedIsOnline'
  BY DEF Stop, LinkFails, AccountChanges, feed, caches, run, sock, observers, QuietInv,
     TrustedIsOnline
<1>2. PongsAreQuick'
  BY DEF Stop, AfterClose, LinkFails, Quiet, AccountChanges, feed, run, sock, QuietInv,
     PongsAreQuick
<1>3. QED
  BY <1>1, <1>2 DEF QuietInv

\* Time ages a pong only as fast as the heartbeat counts.
LEMMA TickQuiet ==
  ASSUME AlwaysInv, QuietInv, Quiet, Tick
  PROVE  QuietInv'
<1>1. TrustedIsOnline'
  <2>1. \A s \in Streams : age'[s] # Missing => age[s] # Missing
    BY DEF Tick
  <2>2. QED
    BY <2>1 DEF Tick, QuietInv, TrustedIsOnline
<1>2. phase \notin Online \ {"reading"}
  BY DEF Tick, Waiting, Quiet, Online
<1>3. link = "up" /\ beat # Off => ~owed /\ pongAge <= beat
  BY DEF Tick, Waiting, Quiet, AlwaysInv, SocketByPhase, QuietInv, PongsAreQuick
<1>4. pongAge' <= pongAge + 1 /\ (beat' # Off => beat # Off /\ beat' = beat + 1)
  BY FeedAssumption DEF Tick, Least, AlwaysInv, TypeOK
<1>5. PongsAreQuick'
  BY <1>2, <1>3, <1>4, FeedAssumption DEF Tick, sock, Least, AlwaysInv, TypeOK, QuietInv,
     PongsAreQuick, Off
<1>6. QED
  BY <1>1, <1>5 DEF QuietInv

LEMMA NextQuiet ==
  ASSUME AlwaysInv, QuietInv, Quiet, [Next]_vars
  PROVE  QuietInv'
<1>1. CASE Run
  BY <1>1, ConnectedQuiet, FailQuiet, SubscribeQuiet, ResyncQuiet, TrustedQuiet, LeavingQuiet
     DEF Run, ConnectFails
<1>2. CASE Frame
  BY <1>2, FrameQuiet, LeavingQuiet
<1>3. CASE Heartbeat \/ Cancelled \/ Stop \/ LinkFails \/ AccountChanges \/ Tick
  BY <1>3, HeartbeatQuiet, LeavingQuiet, OutsideQuiet, TickQuiet
<1>4. CASE UNCHANGED vars
  BY <1>4 DEF vars, feed, caches, run, sock, observers, QuietInv, TrustedIsOnline,
     PongsAreQuick
<1>5. QED
  BY <1>1, <1>2, <1>3, <1>4 DEF Next

(***************************************************************************)
(* How often run() connects.                                               *)
(***************************************************************************)

\* What a record counts for the latest n ticks.
Latest(counts, n) == SumOf(counts, 0..(n - 1))

LEMMA LatestIs ==
  ASSUME NEW counts \in Counts
  PROVE  /\ Latest(counts, 0) = 0
         /\ \A n \in 0..Window : Latest(counts, n) \in Nat
         /\ \A n \in 0..(Window - 1) : Latest(counts, n + 1) = Latest(counts, n) + counts[n]
         /\ Total(counts) = Latest(counts, Window)
<1>1. Window \in Nat \ {0}
  BY FeedAssumption
<1>2. \A n \in 0..(Window - 1) : counts[n] \in Nat
  BY DEF Counts
<1>3. DOMAIN counts = 0..(Window - 1)
  BY DEF Counts
<1>4. Latest(counts, 0) = 0
  <2>1. 0..(0 - 1) = {} /\ IsFiniteSet({})
    BY FS_EmptySet
  <2>2. SumOf(counts, {}) = 0
    BY <2>1, SumFacts
  <2>3. QED
    BY <2>1, <2>2 DEF Latest
<1>5. ASSUME NEW n \in 0..(Window - 1)
      PROVE  Latest(counts, n + 1) = Latest(counts, n) + counts[n] /\ Latest(counts, n + 1) \in Int
  <2>1. PICK ticks : ticks = 0..n
    OBVIOUS
  <2>2. IsFiniteSet(ticks) /\ n \in ticks /\ ticks \ {n} = 0..(n - 1) /\ 0..(n + 1 - 1) = ticks
    <3>1. n \in Nat
      BY <1>1
    <3>2. IsFiniteSet(0..n)
      BY <3>1, FS_Interval
    <3>3. n \in 0..n /\ (0..n) \ {n} = 0..(n - 1) /\ n + 1 - 1 = n
      BY <3>1
    <3>4. QED
      BY <2>1, <3>2, <3>3
  <2>3. \A m \in ticks : counts[m] \in Int
    BY <1>1, <1>2, <2>1
  <2>4. SumOf(counts, ticks) = SumOf(counts, ticks \ {n}) + counts[n]
        /\ SumOf(counts, ticks) \in Int
    BY <2>2, <2>3, SumFacts
  <2>5. Latest(counts, n + 1) = SumOf(counts, ticks)
    <3>1. 0..(n + 1 - 1) = ticks
      BY <2>2
    <3>2. Latest(counts, n + 1) = SumOf(counts, 0..(n + 1 - 1))
      BY DEF Latest
    <3>3. QED
      BY ONLY <3>1, <3>2
  <2>6. Latest(counts, n) = SumOf(counts, ticks \ {n})
    BY <2>2, Zenon DEF Latest
  <2>7. QED
    BY <2>4, <2>5, <2>6
<1>6. \A n \in 0..Window : Latest(counts, n) \in Nat
  <2> DEFINE Good == {n \in 0..Window : Latest(counts, n) \in Nat}
  <2>1. 0 \in Good
    BY <1>1, <1>4
  <2>2. ASSUME NEW n \in 0..(Window - 1), n \in Good
        PROVE  n + 1 \in Good
    BY <1>1, <1>2, <1>5, <2>2
  <2>3. \A n \in 0..Window : n \in Good
    <3> HIDE DEF Good
    <3>1. QED
      BY <1>1, <2>1, <2>2, CountingUp
  <2>4. QED
    BY <2>3
<1>7. Total(counts) = Latest(counts, Window)
  BY <1>3 DEF Total, Latest, SumOf, MapThenSumSet, MapThenFoldSet
<1>8. QED
  BY <1>4, <1>5, <1>6, <1>7

\* One more is one more of every latest ticks.
LEMMA CountedLatest ==
  ASSUME NEW counts \in Counts
  PROVE  \A n \in 1..Window : Latest(Counted(counts), n) = Latest(counts, n) + 1
<1>1. Window \in Nat \ {0}
  BY FeedAssumption
<1>2. PICK more \in Counts : more = Counted(counts)
  BY CountsStay
<1>3. more[0] = counts[0] + 1 /\ \A n \in 1..(Window - 1) : more[n] = counts[n]
  BY <1>1, <1>2 DEF Counts, Counted
<1>4. \A n \in 0..(Window - 1) : counts[n] \in Nat
  BY DEF Counts
<1>5. /\ \A n \in 0..(Window - 1) : Latest(counts, n + 1) = Latest(counts, n) + counts[n]
      /\ \A n \in 0..(Window - 1) : Latest(more, n + 1) = Latest(more, n) + more[n]
      /\ \A n \in 0..Window : Latest(counts, n) \in Nat
      /\ Latest(counts, 0) = 0 /\ Latest(more, 0) = 0
  BY LatestIs
<1> DEFINE Good == {n \in 0..Window : n > 0 => Latest(more, n) = Latest(counts, n) + 1}
<1>6. 0 \in Good
  BY <1>1
<1>7. ASSUME NEW n \in 0..(Window - 1), n \in Good
      PROVE  n + 1 \in Good
  <2>1. Latest(more, n + 1) = Latest(counts, n + 1) + 1
    <3>1. CASE n = 0
      BY <1>1, <1>3, <1>4, <1>5, <3>1
    <3>2. CASE n > 0
      <4>1. Latest(more, n) = Latest(counts, n) + 1 /\ more[n] = counts[n]
        BY <1>1, <1>3, <1>7, <3>2
      <4>2. Latest(counts, n) \in Nat /\ counts[n] \in Nat
        BY <1>1, <1>4, <1>5
      <4>3. QED
        BY <1>5, <4>1, <4>2
    <3>3. QED
      BY <1>1, <3>1, <3>2
  <2>2. QED
    BY <1>1, <2>1
<1>8. \A n \in 0..Window : n \in Good
  <2> HIDE DEF Good
  <2>1. QED
    BY <1>1, <1>6, <1>7, CountingUp
<1>9. QED
  BY <1>1, <1>2, <1>8

\* A tick later the latest ticks are one more.
LEMMA OlderLatest ==
  ASSUME NEW counts \in Counts
  PROVE  /\ \A n \in 0..(Window - 1) : Latest(Older(counts), n + 1) = Latest(counts, n)
         /\ Total(Older(counts)) <= Total(counts)
<1>1. Window \in Nat \ {0}
  BY FeedAssumption
<1>2. PICK older \in Counts : older = Older(counts)
  BY CountsStay
<1>3. older[0] = 0 /\ \A n \in 1..(Window - 1) : older[n] = counts[n - 1]
  BY <1>1, <1>2 DEF Counts, Older
<1>4. \A n \in 0..(Window - 1) : counts[n] \in Nat
  BY DEF Counts
<1>5. /\ \A n \in 0..(Window - 1) : Latest(counts, n + 1) = Latest(counts, n) + counts[n]
      /\ \A n \in 0..(Window - 1) : Latest(older, n + 1) = Latest(older, n) + older[n]
      /\ \A n \in 0..Window : Latest(counts, n) \in Nat
      /\ Latest(counts, 0) = 0 /\ Latest(older, 0) = 0
      /\ Total(counts) = Latest(counts, Window) /\ Total(older) = Latest(older, Window)
  BY LatestIs
<1> DEFINE Good == {n \in 0..(Window - 1) : Latest(older, n + 1) = Latest(counts, n)}
<1>6. 0 \in Good
  BY <1>1, <1>3, <1>5
<1>7. ASSUME NEW n \in 0..(Window - 1 - 1), n \in Good
      PROVE  n + 1 \in Good
  <2>1. n \in 0..(Window - 1) /\ n + 1 \in 0..(Window - 1) /\ n + 1 \in 1..(Window - 1)
        /\ (n + 1) - 1 = n
    BY <1>1
  <2>2. older[n + 1] = counts[n] /\ Latest(older, n + 1) = Latest(counts, n)
    BY <1>3, <1>7, <2>1
  <2>3. Latest(older, n + 1 + 1) = Latest(counts, n + 1)
    BY <1>5, <2>1, <2>2
  <2>4. QED
    BY <2>1, <2>3
<1>8. \A n \in 0..(Window - 1) : n \in Good
  <2> HIDE DEF Good
  <2>1. Window - 1 \in Nat
    BY <1>1
  <2>2. QED
    BY <1>6, <1>7, <2>1, CountingUp
<1>9. Total(older) <= Total(counts)
  <2>1. Window - 1 \in 0..(Window - 1) /\ Window - 1 \in 0..Window /\ (Window - 1) + 1 = Window
    BY <1>1
  <2>2. Latest(older, Window) = Latest(counts, Window - 1)
    BY <1>8, <2>1
  <2>3. Latest(counts, Window) = Latest(counts, Window - 1) + counts[Window - 1]
    BY <1>5, <2>1
  <2>4. counts[Window - 1] \in Nat /\ Latest(counts, Window - 1) \in Nat
    BY <1>4, <1>5, <2>1
  <2>5. QED
    BY <1>5, <2>2, <2>3, <2>4
<1>10. QED
  BY <1>2, <1>8, <1>9

\* Every connection but the one being made or used was followed by a recorded reconnect: in
\* any latest ticks there is at most one more connection than there are reconnects, and none
\* more while run() sleeps; and reconnects above the limit end run().
Paced ==
    /\ Total(recent) <= MaxAttempts
    /\ \A n \in 0..Window :
          Latest(made, n) <= Latest(recent, n) + (IF phase = "backoff" THEN 0 ELSE 1)

PacedInv == NotHammered /\ (phase # "ended" => Paced)

LEMMA PacedCounts ==
  ASSUME TypeOK
  PROVE  /\ made \in Counts /\ recent \in Counts /\ Window \in Nat \ {0} /\ MaxAttempts \in Nat
         /\ Total(made) = Latest(made, Window) /\ Total(made) \in Nat
         /\ Total(recent) = Latest(recent, Window) /\ Total(recent) \in Nat
         /\ \A n \in 0..Window : Latest(made, n) \in Nat /\ Latest(recent, n) \in Nat
<1>1. made \in Counts /\ recent \in Counts /\ Window \in Nat \ {0} /\ MaxAttempts \in Nat
  BY FeedAssumption DEF TypeOK
<1>2. Window \in 0..Window
  BY <1>1
<1>3. QED
  BY <1>1, <1>2, LatestIs

\* What is so paced never connects more often than once above the limit.
LEMMA PacedEnough ==
  ASSUME TypeOK, Paced
  PROVE  NotHammered
<1>1. Window \in 0..Window
  BY PacedCounts
<1>2. Total(made) <= Total(recent) + 1
  BY <1>1, PacedCounts DEF Paced
<1>3. QED
  BY <1>2, PacedCounts DEF Paced, NotHammered

LEMMA InitPaced == Init => PacedInv
<1> SUFFICES ASSUME Init PROVE PacedInv
  OBVIOUS
<1>1. TypeOK
  BY InitAlways DEF AlwaysInv
<1>2. made = Counted(recent) /\ recent = NoCount /\ phase = "connecting"
  BY DEF Init
<1>3. \A n \in 0..Window : Latest(made, n) <= Latest(recent, n) + 1
  <2>1. \A n \in 1..Window : Latest(made, n) = Latest(recent, n) + 1
    BY <1>1, <1>2, PacedCounts, CountedLatest
  <2>2. Latest(made, 0) = 0 /\ Latest(recent, 0) = 0
    BY <1>1, PacedCounts, LatestIs
  <2>3. ASSUME NEW n \in 0..Window
        PROVE  Latest(made, n) <= Latest(recent, n) + 1
    <3>1. CASE n = 0
      BY <2>2, <3>1
    <3>2. CASE n # 0
      <4>1. n \in 1..Window /\ Latest(recent, n) \in Nat
        BY <1>1, <3>2, PacedCounts
      <4>2. QED
        BY <2>1, <4>1
    <3>3. QED
      BY <3>1, <3>2
  <2>4. QED
    BY <2>3
<1>4. Total(recent) = 0
  <2> DEFINE Good == {n \in 0..Window : Latest(recent, n) = 0}
  <2>1. 0 \in Good
    BY <1>1, PacedCounts, LatestIs
  <2>2. ASSUME NEW n \in 0..(Window - 1), n \in Good
        PROVE  n + 1 \in Good
    <3>1. recent[n] = 0
      BY <1>2 DEF NoCount
    <3>2. Latest(recent, n + 1) = Latest(recent, n) + recent[n]
      BY <1>1, PacedCounts, LatestIs
    <3>3. n + 1 \in 0..Window
      BY <1>1, PacedCounts
    <3>4. QED
      BY <2>2, <3>1, <3>2, <3>3
  <2>3. \A n \in 0..Window : n \in Good
    <3>1. Window \in Nat
      BY <1>1, PacedCounts
    <3> HIDE DEF Good
    <3>2. QED
      BY <2>1, <2>2, <3>1, CountingUp
  <2>4. Window \in 0..Window
    BY <1>1, PacedCounts
  <2>5. QED
    BY <1>1, <2>3, <2>4, PacedCounts
<1>5. Paced
  BY <1>1, <1>2, <1>3, <1>4, PacedCounts DEF Paced
<1>6. QED
  BY <1>1, <1>5, PacedEnough DEF PacedInv

\* A failure is recorded before run() sleeps; one too many ends it.
LEMMA FailPaced ==
  ASSUME AlwaysInv, PacedInv, phase # "ended", Fail
  PROVE  PacedInv'
<1>1. TypeOK /\ TypeOK' /\ made' = made
  BY FailKeeps DEF Fail, AlwaysInv
<1>2. NotHammered'
  BY <1>1 DEF PacedInv, NotHammered
<1>3. CASE phase' = "ended"
  BY <1>2, <1>3 DEF PacedInv
<1>4. CASE phase' # "ended"
  <2>1. recent' = Counted(recent) /\ Total(recent') <= MaxAttempts /\ phase' = "backoff"
    <3>1. Total(recent') \in Nat /\ MaxAttempts \in Nat
      <4>1. recent' \in Counts /\ Window \in 0..Window /\ MaxAttempts \in Nat
        BY <1>1, PacedCounts DEF TypeOK
      <4>2. QED
        BY <4>1, LatestIs
    <3>2. QED
      BY <1>4, <3>1 DEF Fail, RecordReconnect
  <2>2. ASSUME NEW n \in 0..Window
        PROVE  Latest(made', n) <= Latest(recent', n)
    <3>1. CASE n = 0
      <4>1. Latest(made', 0) = 0 /\ Latest(recent', 0) = 0
        BY <1>1, LatestIs DEF TypeOK
      <4>2. QED
        BY <3>1, <4>1
    <3>2. CASE n # 0
      <4>1. n \in 1..Window
        BY <1>1, <3>2, PacedCounts
      <4>2. Latest(recent', n) = Latest(recent, n) + 1
        BY <1>1, <2>1, <4>1, PacedCounts, CountedLatest
      <4>3. Latest(made, n) <= Latest(recent, n) + 1
        BY <1>1, PacedCounts DEF PacedInv, Paced
      <4>4. QED
        BY <1>1, <4>2, <4>3
    <3>3. QED
      BY <3>1, <3>2
  <2>3. Paced'
    <3>1. \A n \in 0..Window : Latest(made', n) \in Nat /\ Latest(recent', n) \in Nat
      BY <1>1, LatestIs DEF TypeOK
    <3>2. QED
      BY <2>1, <2>2, <3>1 DEF Paced
  <2>4. QED
    BY <1>2, <2>3 DEF PacedInv
<1>5. QED
  BY <1>3, <1>4

\* A new attempt follows a sleep, which follows a recorded failure.
LEMMA WakeUpPaced ==
  ASSUME AlwaysInv, PacedInv, WakeUp
  PROVE  PacedInv'
<1>1. TypeOK /\ TypeOK' /\ phase = "backoff" /\ recent' = recent /\ Paced
  BY WakeUpAlways DEF WakeUp, LoopTop, AlwaysInv, PacedInv
<1>2. CASE phase' = "ended"
  <2>1. made' = made
    BY <1>2 DEF WakeUp, LoopTop
  <2>2. QED
    BY <1>2, <2>1 DEF PacedInv, NotHammered
<1>3. CASE phase' # "ended"
  <2>1. made' = Counted(made) /\ phase' = "connecting"
    BY <1>3 DEF WakeUp, LoopTop
  <2>2. ASSUME NEW n \in 0..Window
        PROVE  Latest(made', n) <= Latest(recent, n) + 1
    <3>1. Latest(made, n) \in Nat /\ Latest(recent, n) \in Nat /\ Latest(made, n) <= Latest(recent, n)
      BY <1>1, PacedCounts DEF Paced
    <3>2. CASE n = 0
      <4>1. Latest(made', 0) = 0
        BY <1>1, LatestIs DEF TypeOK
      <4>2. QED
        BY <3>1, <3>2, <4>1
    <3>3. CASE n # 0
      <4>1. n \in 1..Window
        BY <1>1, <3>3, PacedCounts
      <4>2. Latest(made', n) = Latest(made, n) + 1
        BY <1>1, <2>1, <4>1, PacedCounts, CountedLatest
      <4>3. QED
        BY <3>1, <4>2
    <3>4. QED
      BY <3>2, <3>3
  <2>3. Paced'
    BY <1>1, <2>1, <2>2 DEF Paced
  <2>4. NotHammered'
    <3>1. Window \in 0..Window /\ Total(made') = Latest(made', Window)
      BY <1>1, PacedCounts, LatestIs DEF TypeOK
    <3>2. Latest(made', Window) <= Total(recent) + 1 /\ Total(recent) <= MaxAttempts
      BY <1>1, <2>2, <3>1, PacedCounts DEF Paced
    <3>3. Latest(made', Window) \in Nat
      BY <1>1, <3>1, LatestIs DEF TypeOK
    <3>4. QED
      BY <1>1, <3>1, <3>2, <3>3, PacedCounts DEF NotHammered
  <2>5. QED
    BY <2>3, <2>4 DEF PacedInv
<1>4. QED
  BY <1>2, <1>3

LEMMA TickPaced ==
  ASSUME AlwaysInv, PacedInv, Tick
  PROVE  PacedInv'
<1>1. TypeOK /\ made' = Older(made) /\ recent' = Older(recent) /\ phase' = phase
  BY DEF Tick, AlwaysInv
<1>2. phase # "ended" /\ Paced
  BY DEF Tick, Waiting, ResyncPhases, PacedInv
<1>3. NotHammered'
  <2>1. Total(made') <= Total(made) /\ Total(made') \in Nat
    BY <1>1, PacedCounts, OlderLatest, CountsStay, LatestIs
  <2>2. QED
    BY <1>1, <2>1, PacedCounts DEF PacedInv, NotHammered
<1>4. Total(recent') <= MaxAttempts
  <2>1. Total(recent') <= Total(recent) /\ Total(recent') \in Nat
    BY <1>1, PacedCounts, OlderLatest, CountsStay, LatestIs
  <2>2. QED
    BY <1>1, <1>2, <2>1, PacedCounts DEF Paced
<1>5. ASSUME NEW n \in 0..Window
      PROVE  Latest(made', n) <= Latest(recent', n) + (IF phase' = "backoff" THEN 0 ELSE 1)
  <2>1. CASE n = 0
    <3>1. Latest(made', 0) = 0 /\ Latest(recent', 0) = 0
      BY <1>1, PacedCounts, CountsStay, LatestIs
    <3>2. QED
      BY <2>1, <3>1
  <2>2. CASE n # 0
    <3>1. PICK m \in 0..(Window - 1) : n = m + 1
      <4>1. n - 1 \in 0..(Window - 1) /\ n = (n - 1) + 1
        BY <1>1, <2>2, PacedCounts
      <4>2. QED
        BY <4>1
    <3>2. Latest(made', n) = Latest(made, m) /\ Latest(recent', n) = Latest(recent, m)
      BY <1>1, <3>1, PacedCounts, OlderLatest
    <3>3. m \in 0..Window
      BY <1>1, PacedCounts
    <3>4. QED
      BY <1>1, <1>2, <3>2, <3>3 DEF Paced
  <2>3. QED
    BY <2>1, <2>2
<1>6. QED
  BY <1>3, <1>4, <1>5 DEF PacedInv, Paced

\* Everything else leaves the records alone, and goes on with the same connection or ends.
LEMMA OthersPaced ==
  ASSUME PacedInv, made' = made, recent' = recent,
         \/ phase' = "ended"
         \/ phase' = phase
         \/ phase \notin {"backoff", "ended"} /\ phase' # "backoff"
  PROVE  PacedInv'
  BY DEF PacedInv, NotHammered, Paced

LEMMA NextPaced ==
  ASSUME AlwaysInv, QuietInv, PacedInv, [Next]_vars
  PROVE  PacedInv'
<1>1. CASE Run /\ ~WakeUp /\ ~Fail
  <2>1. CASE ReadEnds
    <3>1. stopping
      BY <1>1, <2>1 DEF ReadEnds, QuietInv, PongsAreQuick
    <3>2. phase' = "ended" /\ UNCHANGED <<made, recent>>
      BY <1>1, <2>1, <3>1 DEF ReadEnds, LoopTop
    <3>3. QED
      BY <3>2, OthersPaced
  <2>2. CASE ~ReadEnds
    <3>1. made' = made /\ recent' = recent
      BY <1>1, <2>2 DEF Run, Connected, ConnectFails, Subscribe, ResyncMarket,
         ResyncPositions, ResyncOthers, ResyncCallFails, observers
    <3>2. phase \notin {"backoff", "ended"} /\ phase' # "backoff"
      BY <1>1, <2>2 DEF Run, Connected, ConnectFails, Subscribe, ResyncMarket, Trusted,
         ResyncPositions, ResyncOthers, ResyncCallFails, ResyncPhases
    <3>3. QED
      BY <3>1, <3>2, OthersPaced
  <2>3. QED
    BY <2>1, <2>2
<1>2. CASE Run /\ Fail /\ ~WakeUp
  <2>1. phase # "ended"
    BY <1>2 DEF Run, Connected, ConnectFails, Subscribe, ResyncMarket, ResyncPositions,
       ResyncOthers, ResyncCallFails, ResyncPhases, ReadEnds
  <2>2. QED
    BY <1>2, <2>1, FailPaced
<1>3. CASE WakeUp
  BY <1>3, WakeUpPaced
<1>4. CASE Tick
  BY <1>4, TickPaced
<1>5. CASE Frame \/ Heartbeat \/ Cancelled \/ Stop \/ LinkFails \/ AccountChanges
           \/ UNCHANGED vars
  <2>1. made' = made /\ recent' = recent /\ phase' \in {phase, "ended"}
    BY <1>5 DEF Frame, Price, PositionEvent, Pong, Rejected, End, Heartbeat, Cancelled, Stop,
       LinkFails, AccountChanges, run, observers, vars
  <2>2. QED
    BY <2>1, OthersPaced
<1>6. QED
  BY <1>1, <1>2, <1>3, <1>4, <1>5 DEF Next

(***************************************************************************)
(* The theorems.                                                           *)
(***************************************************************************)

\* What the feed keeps whatever goes wrong.
THEOREM Invariance == Spec => []AlwaysInv
<1>1. Init => AlwaysInv
  BY InitAlways
<1>2. AlwaysInv /\ [Next]_vars => AlwaysInv'
  BY NextAlways
<1>3. QED
  BY <1>1, <1>2, PTL DEF Spec

\* What it keeps besides when sockets are not closed properly and answers are quick.
THEOREM QuietInvariance == ASSUME Quiet PROVE Spec => []QuietInv
<1>1. Init => QuietInv
  BY InitQuiet
<1>2. AlwaysInv /\ QuietInv /\ [Next]_vars => QuietInv'
  BY NextQuiet, Quiet
<1>3. QED
  BY <1>1, <1>2, Invariance, PTL DEF Spec

\* Every variable of the feed keeps its type: the age of data stays within its limit
\* plus one, and a heartbeat never oversleeps.
THEOREM TypeCorrect == Spec => []TypeOK
<1>1. AlwaysInv => TypeOK
  BY DEF AlwaysInv
<1>2. QED
  BY <1>1, Invariance, PTL

\* An event older than the position REST reported never takes its place, however
\* late and often the exchange sends it and however connections fail.
THEOREM EventsGoForward == Spec => []PositionForward
<1>1. AlwaysInv => PositionForward
  BY DEF AlwaysInv, ReadPositionForward, PositionForward
<1>2. QED
  BY <1>1, Invariance, PTL

\* A price is served only from the connection that is open, after its resync.
THEOREM ServedHolds == ASSUME Quiet PROVE Spec => []ServedIsCurrent
<1>1. AlwaysInv /\ QuietInv => ServedIsCurrent
  <2> SUFFICES ASSUME AlwaysInv, QuietInv, Healthy
               PROVE  link # "none" /\ heard = Streams /\ (Credentials => synced)
    BY DEF ServedIsCurrent
  <2>1. phase = "reading" /\ link # "none"
    BY DEF Healthy, QuietInv, TrustedIsOnline, AlwaysInv, SocketByPhase, Online
  <2>2. heard = Streams
    BY DEF Healthy, Fresh, QuietInv, TrustedIsOnline, AlwaysInv, TypeOK
  <2>3. QED
    BY <2>1, <2>2 DEF QuietInv, TrustedIsOnline
<1>2. QED
  BY <1>1, Invariance, QuietInvariance, PTL

\* With keys, a position is served only after it was read over REST on this connection.
THEOREM PositionKnown == ASSUME Quiet, Credentials PROVE Spec => []PositionIsKnown
<1>1. QuietInv => PositionIsKnown
  BY Credentials DEF QuietInv, TrustedIsOnline, PositionIsKnown, PositionServed
<1>2. QED
  BY <1>1, QuietInvariance, PTL

\* The heartbeat gives a link up only when a ping it sent went unanswered.
THEOREM PingsGoFirst == ASSUME Quiet PROVE Spec => PingGoesFirst
<1>1. AlwaysInv /\ QuietInv /\ [Next]_vars
      => [Heartbeat /\ link' # link => owed \/ link = "silent"]_vars
  <2> SUFFICES ASSUME AlwaysInv, QuietInv, Heartbeat, link' # link
               PROVE  link = "silent"
    OBVIOUS
  <2>1. link # "up"
    BY HeartbeatSpares
  <2>2. QED
    BY <2>1 DEF Heartbeat, AfterClose
<1>2. QED
  BY <1>1, Invariance, QuietInvariance, PTL DEF Spec, PingGoesFirst

\* However connections fail and backoffs fall, run() never connects more than once above the
\* limit within a window: every connection but the last was followed by a recorded reconnect.
\* A proper close by the server is not counted by the code, so it is excluded.
THEOREM HammersNever == ASSUME Quiet PROVE Spec => []NotHammered
<1>1. Init => PacedInv
  BY InitPaced
<1>2. AlwaysInv /\ QuietInv /\ PacedInv /\ [Next]_vars => PacedInv'
  BY NextPaced
<1>3. PacedInv => NotHammered
  BY DEF PacedInv
<1>4. QED
  BY <1>1, <1>2, <1>3, Invariance, QuietInvariance, PTL DEF Spec
================================================================================
