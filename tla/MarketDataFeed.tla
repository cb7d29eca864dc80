----------------------------- MODULE MarketDataFeed ----------------------------
(***************************************************************************)
(* exchange/websocket.py: MarketDataFeed for one contract.  run() goes     *)
(* from phase to phase, one per await: connecting, subscribe, the steps of *)
(* resync() (market, positions, others), reading, backoff, ended.  The     *)
(* heartbeat is a task of its own; time passes in ticks of one ping        *)
(* interval's granularity; stop() and a cancellation come from outside.    *)
(*                                                                         *)
(* Faults names what may go wrong:                                         *)
(*   "reset"  the socket ends with an error                                *)
(*   "closed" the server ends it with a proper close                       *)
(*   "silent" the link dies without a word                                 *)
(*   "rest"   a REST call of resync fails                                  *)
(*   "slow"   REST calls and pongs take time                               *)
(*   "reject" a subscription is refused for good                           *)
(*   "cancel" the task is cancelled                                        *)
(* Frames that a cursor rejects or that do not parse change nothing and    *)
(* are left out; so is the order cache, which no accessor reads.           *)
(***************************************************************************)
EXTENDS Integers, FiniteSetsExt

CONSTANTS
    Faults,
    Credentials,    \* are API keys configured?
    MaxAge,         \* per stream, ticks until its data is stale
    Warmup,
    PingInterval,
    PongTimeout,
    ResyncAttempts,
    MaxAttempts,    \* max_attempts_per_window
    Window,         \* window_seconds, in ticks
    MaxDelay,       \* longest backoff, in ticks
    MaxChanges      \* bound: changes of the account's position

Streams == {"book", "ticker"}

ASSUME FeedAssumption ==
    /\ Credentials \in BOOLEAN
    /\ MaxAge \in [Streams -> Nat]
    /\ {Warmup, MaxAttempts, MaxDelay, MaxChanges} \subseteq Nat
    /\ {PingInterval, ResyncAttempts, Window} \subseteq Nat \ {0}
    /\ PongTimeout \in Nat /\ PingInterval < PongTimeout

VARIABLES
    phase,      \* the await run() is in
    connected,  \* _connected
    pending,    \* _resync_pending
    uptime,     \* ticks since _connected_at, up to Warmup
    pongAge,    \* ticks since _last_pong, up to PongTimeout + 1
    age,        \* per stream, ticks since its cached data arrived, or Missing
    position,   \* the cached position, as the account change it comes from (0: none)
    cursor,     \* _last_position_id (0: none)
    attempt,    \* which attempt of resync this is
    wait,       \* ticks left to sleep
    recent,     \* _reconnect_times: how many reconnects were recorded n ticks ago
    beat,       \* ticks since the heartbeat last woke, or Off
    stopping,   \* stop() was called
    link,       \* the socket: "none", "up", "silent", "reset" or "closed"
    owed,       \* a ping was sent on a live link and its pong has not arrived
    account,    \* number of changes the account's position went through
    loaded,     \* does the REST client hold the contract and its tiers already?
    since,      \* the account change the private subscription starts after
    \* Observers of the history, never read by an action:
    heard,      \* streams that delivered on this connection
    synced,     \* were positions read back over REST since this connection?
    snapshot,   \* the account change that reading saw
    made,       \* how many connections were attempted n ticks ago
    lateStop    \* was stop() called while there was no socket to close?

caches == <<age, position, cursor>>
feed == <<connected, pending, uptime, pongAge, caches>>
run == <<phase, attempt, wait, recent>>
sock == <<link, owed, since>>
outside == <<account, loaded>>
observers == <<heard, synced, snapshot, made, lateStop>>
vars == <<feed, run, beat, stopping, sock, outside, observers>>

Phases == {"connecting", "subscribe", "market", "positions", "others", "reading", "backoff",
           "ended"}
Missing == -1
Off == -1

Ages == [Streams -> Int]
Counts == [0 .. Window - 1 -> Nat]

FlagsOK == {connected, pending, stopping, owed, loaded, synced, lateStop} \subseteq BOOLEAN

TypeOK ==
    /\ FlagsOK
    /\ phase \in Phases
    /\ uptime \in 0..Warmup
    /\ pongAge \in 0 .. PongTimeout + 1
    /\ age \in Ages
    /\ \A s \in Streams : age[s] \in Missing .. MaxAge[s] + 1
    /\ {position, cursor, account, since, snapshot} \subseteq 0..MaxChanges
    /\ attempt \in 1..ResyncAttempts
    /\ wait \in 0..MaxDelay
    /\ recent \in Counts
    /\ made \in Counts
    /\ beat \in Off..PingInterval
    /\ link \in {"none", "up", "silent", "reset", "closed"}
    /\ heard \subseteq Streams

\* The account is flat, then holds one size, then another, then is flat again.
SizeAt(change) == change % 3

Least(a, b) == IF a < b THEN a ELSE b
NoCount == [n \in 0 .. Window - 1 |-> 0]
Counted(counts) == [counts EXCEPT ![0] = @ + 1]
Total(counts) == MapThenSumSet(LAMBDA n : counts[n], DOMAIN counts)

Init ==
    /\ phase = "connecting"
    /\ connected = FALSE
    /\ pending = TRUE
    /\ uptime = 0
    /\ pongAge = 0
    /\ age = [s \in Streams |-> Missing]
    /\ position = 0
    /\ cursor = 0
    /\ attempt = 1
    /\ wait = 0
    /\ recent = NoCount
    /\ beat = Off
    /\ stopping = FALSE
    /\ link = "none"
    /\ owed = FALSE
    /\ account \in 0..MaxChanges
    /\ loaded \in BOOLEAN
    /\ since = 0
    /\ heard = {}
    /\ synced = FALSE
    /\ snapshot = 0
    /\ made = Counted(NoCount)
    /\ lateStop = FALSE

--------------------------------------------------------------------------------
(* Health. *)

Fresh(s) == age[s] # Missing /\ age[s] <= MaxAge[s]

\* _unhealthy_reason is None: is_healthy() is true, ticker() and book() answer.
Healthy ==
    /\ connected
    /\ ~pending
    /\ pongAge <= PongTimeout
    /\ uptime >= Warmup
    /\ \A s \in Streams : Fresh(s)

\* position() answers.
PositionServed == ~pending

--------------------------------------------------------------------------------
(* Leaving a connection. *)

\* Mutants: prices survive a disconnect; the resync flag does.
InvalidateKeepingPrices ==
    /\ connected' = FALSE /\ pending' = TRUE
    /\ position' = 0 /\ cursor' = 0
    /\ UNCHANGED <<age, uptime, pongAge>>

InvalidateTrusting ==
    /\ connected' = FALSE
    /\ age' = [s \in Streams |-> Missing] /\ position' = 0 /\ cursor' = 0
    /\ UNCHANGED <<pending, uptime, pongAge>>

\* _invalidate; uptime and pongAge mean nothing until the next connection.
Invalidate ==
    /\ connected' = FALSE /\ pending' = TRUE
    /\ age' = [s \in Streams |-> Missing] /\ position' = 0 /\ cursor' = 0
    /\ UNCHANGED <<uptime, pongAge>>

\* Leaving `async with`: the socket and the heartbeat are gone.
Unplug ==
    /\ link' = "none" /\ owed' = FALSE /\ beat' = Off
    /\ heard' = {} /\ synced' = FALSE
    /\ UNCHANGED <<since, snapshot, outside, stopping, lateStop>>

End == phase' = "ended" /\ Invalidate

\* Mutant: only a lost connection counts, not one that never came up.
RecordReconnectSeldom == recent' = IF phase = "connecting" THEN recent ELSE Counted(recent)

RecordReconnect == recent' = Counted(recent)

\* `except Exception`: invalidate, count the attempt, give up in a storm, else sleep.
Fail ==
    /\ Unplug
    /\ Invalidate
    /\ attempt' = 1
    /\ \/ stopping /\ phase' = "ended" /\ wait' = 0 /\ UNCHANGED recent
       \/ /\ ~stopping
          /\ RecordReconnect
          /\ IF Total(recent') > MaxAttempts
             THEN phase' = "ended" /\ wait' = 0
             ELSE phase' = "backoff" /\ wait' \in 0..MaxDelay
    /\ UNCHANGED made

\* The top of the loop after something that was not an exception.
LoopTop ==
    /\ \/ stopping /\ phase' = "ended" /\ UNCHANGED made
       \/ ~stopping /\ phase' = "connecting" /\ made' = Counted(made)
    /\ wait' = 0 /\ attempt' = 1
    /\ UNCHANGED recent

--------------------------------------------------------------------------------
(* run() *)

Connected ==
    /\ phase = "connecting"
    /\ phase' = "subscribe"
    /\ connected' = TRUE /\ uptime' = 0 /\ pongAge' = 0
    /\ link' = "up" /\ owed' = FALSE
    /\ heard' = {} /\ synced' = FALSE
    /\ UNCHANGED <<pending, caches, attempt, wait, recent, beat, stopping, since, outside,
                   snapshot, made, lateStop>>

ConnectFails ==
    /\ phase = "connecting"
    /\ "reset" \in Faults
    /\ Fail

\* Sending on a socket that has ended raises, however it ended.
Subscribe ==
    /\ phase = "subscribe"
    /\ \/ link \in {"up", "silent"} /\ phase' = "market" /\ since' = account
          /\ UNCHANGED <<feed, attempt, wait, recent, beat, stopping, link, owed, outside,
                         observers>>
       \/ link \in {"reset", "closed"} /\ Fail

ResyncPhases == {"market", "positions", "others"}

\* The last call was answered: trust the feed, start the heartbeat (which ends at once
\* when the feed is stopping), read.
Trusted ==
    /\ phase' = "reading"
    /\ pending' = FALSE
    /\ beat' = IF stopping THEN Off ELSE 0

\* Contracts and tiers, answered from the REST client's own cache once it has them;
\* without keys there is nothing else to reconcile.
ResyncMarket ==
    /\ phase = "market"
    /\ loaded' = TRUE
    /\ IF Credentials
       THEN phase' = "positions" /\ UNCHANGED <<pending, beat>>
       ELSE Trusted
    /\ UNCHANGED <<connected, uptime, pongAge, caches, attempt, wait, recent, stopping,
                   sock, account, observers>>

\* Mutant: positions are reconciled, their update ids are not.
PositionsReadIdless == position' = (IF SizeAt(account) # 0 THEN account ELSE 0) /\ cursor' = 0

\* list_positions(holding=True): a flat account has no entry and leaves no update id.
PositionsRead ==
    /\ position' = IF SizeAt(account) # 0 THEN account ELSE 0
    /\ cursor' = position'

ResyncPositions ==
    /\ phase = "positions"
    /\ phase' = "others"
    /\ PositionsRead
    /\ synced' = TRUE /\ snapshot' = account
    /\ UNCHANGED <<connected, pending, uptime, pongAge, age, attempt, wait, recent, beat,
                   stopping, sock, outside, heard, made, lateStop>>

ResyncOthers ==
    /\ phase = "others"
    /\ Trusted
    /\ UNCHANGED <<connected, uptime, pongAge, caches, attempt, wait, recent, stopping,
                   sock, outside, observers>>

\* A call raised: start over, or give this connection up.
ResyncCallFails ==
    /\ phase \in ResyncPhases
    /\ phase = "market" => ~loaded
    /\ "rest" \in Faults
    /\ \/ /\ attempt < ResyncAttempts
          /\ attempt' = attempt + 1
          /\ phase' = "market"
          /\ UNCHANGED <<feed, wait, recent, beat, stopping, sock, outside, observers>>
       \/ attempt = ResyncAttempts /\ Fail

Price(s) ==
    /\ phase = "reading" /\ link = "up"
    /\ age' = [age EXCEPT ![s] = 0]
    /\ heard' = heard \cup {s}
    /\ UNCHANGED <<connected, pending, uptime, pongAge, position, cursor, run, beat,
                   stopping, sock, outside, synced, snapshot, made, lateStop>>

\* The exchange may send what it has sent before, in any order.
PositionEvent(change) ==
    /\ phase = "reading" /\ link = "up" /\ Credentials
    /\ change \in since + 1 .. account
    /\ cursor = 0 \/ change > cursor
    /\ cursor' = change
    /\ position' = IF SizeAt(change) # 0 THEN change ELSE 0
    /\ UNCHANGED <<connected, pending, uptime, pongAge, age, run, beat, stopping, sock,
                   outside, observers>>

\* Mutant: a pong is taken for any other frame.
PongPassedOver ==
    /\ phase = "reading" /\ link = "up" /\ owed
    /\ owed' = FALSE
    /\ UNCHANGED <<feed, run, beat, stopping, link, since, outside, observers>>

Pong ==
    /\ phase = "reading" /\ link = "up" /\ owed
    /\ owed' = FALSE
    /\ pongAge' = 0
    /\ UNCHANGED <<connected, pending, uptime, caches, run, beat, stopping, link, since,
                   outside, observers>>

\* A subscription is refused in a way that trying again cannot help.
Rejected ==
    /\ phase = "reading" /\ link = "up"
    /\ "reject" \in Faults
    /\ Unplug /\ End
    /\ UNCHANGED <<attempt, wait, recent, made>>

\* `async for` raises for a socket that ended in error, and simply ends for one that
\* was closed properly: nothing is invalidated unless the feed is stopping.
ReadEnds ==
    /\ phase = "reading"
    /\ \/ link = "reset" /\ Fail
       \/ /\ link = "closed"
          /\ Unplug /\ LoopTop
          /\ IF stopping THEN Invalidate
             ELSE UNCHANGED feed

WakeUp ==
    /\ phase = "backoff" /\ wait = 0
    /\ LoopTop
    /\ Invalidate
    /\ UNCHANGED <<beat, stopping, sock, outside, heard, synced, snapshot, lateStop>>

Cancelled ==
    /\ phase # "ended"
    /\ "cancel" \in Faults
    /\ Unplug /\ End
    /\ wait' = 0
    /\ UNCHANGED <<attempt, recent, made>>

--------------------------------------------------------------------------------
(* The heartbeat, stop(), the network, the account and time. *)

\* close(): a handshake with a server that answers, an error with one that does not.
AfterClose == CASE link = "up" -> "closed" [] link = "silent" -> "reset" [] OTHER -> link

Heartbeat ==
    /\ beat = PingInterval
    /\ IF link \in {"reset", "closed"}
       THEN beat' = Off /\ UNCHANGED <<owed, link>>
       ELSE /\ owed' = (owed \/ link = "up")
            /\ IF pongAge > PongTimeout
               THEN beat' = Off /\ link' = AfterClose
               ELSE beat' = (IF stopping THEN Off ELSE 0) /\ UNCHANGED link
    /\ UNCHANGED <<feed, run, stopping, since, outside, observers>>

\* Mutant: only the event is set; the read loop is left waiting.
StopSettingTheEvent ==
    /\ ~stopping /\ phase # "ended"
    /\ stopping' = TRUE
    /\ lateStop' = (phase = "connecting")
    /\ UNCHANGED <<feed, run, beat, sock, outside, heard, synced, snapshot, made>>

\* Nothing stops a connection that is still being made: there is no socket to close.
Stop ==
    /\ ~stopping /\ phase # "ended"
    /\ stopping' = TRUE
    /\ link' = AfterClose
    /\ lateStop' = (phase = "connecting")
    /\ UNCHANGED <<feed, run, beat, owed, since, outside, heard, synced, snapshot, made>>

LinkFails ==
    /\ \E end \in {"reset", "closed", "silent"} \cap Faults :
          /\ link = "up" \/ (link = "silent" /\ end = "reset")
          /\ link' = end
    /\ UNCHANGED <<feed, run, beat, stopping, owed, since, outside, observers>>

AccountChanges ==
    /\ account < MaxChanges
    /\ account' = account + 1
    /\ UNCHANGED <<feed, run, beat, stopping, sock, loaded, observers>>

\* Mutant: the heartbeat oversleeps.
WaitingOverdue ==
    \/ phase \in {"connecting", "reading"}
    \/ phase = "backoff" /\ wait > 0

\* Time passes where run() waits for it; what is due happens first.
Waiting ==
    \/ phase = "connecting"
    \/ phase = "backoff" /\ wait > 0
    \/ phase \in ResyncPhases /\ "slow" \in Faults
    \/ phase = "reading" /\ link \in {"up", "silent"} /\ beat < PingInterval
       /\ (owed /\ link = "up" => "slow" \in Faults)

Older(counts) == [n \in DOMAIN counts |-> IF n = 0 THEN 0 ELSE counts[n - 1]]

Tick ==
    /\ Waiting
    /\ uptime' = Least(uptime + 1, Warmup)
    /\ pongAge' = Least(pongAge + 1, PongTimeout + 1)
    /\ age' = [s \in Streams |-> IF age[s] = Missing THEN Missing
                                 ELSE Least(age[s] + 1, MaxAge[s] + 1)]
    /\ wait' = IF wait > 0 THEN wait - 1 ELSE 0
    /\ beat' = IF beat = Off THEN Off ELSE beat + 1
    /\ recent' = Older(recent)
    /\ made' = Older(made)
    /\ UNCHANGED <<connected, pending, position, cursor, phase, attempt, stopping, sock,
                   outside, heard, synced, snapshot, lateStop>>

Run ==
    \/ Connected \/ ConnectFails
    \/ Subscribe
    \/ ResyncMarket \/ ResyncPositions \/ ResyncOthers \/ ResyncCallFails
    \/ ReadEnds
    \/ WakeUp

Frame ==
    \/ \E s \in Streams : Price(s)
    \/ \E change \in 1..MaxChanges : PositionEvent(change)
    \/ Pong
    \/ Rejected

Next ==
    \/ Run
    \/ Frame
    \/ Heartbeat
    \/ Cancelled
    \/ Stop
    \/ LinkFails
    \/ AccountChanges
    \/ Tick

Spec == Init /\ [][Next]_vars

\* The event loop runs what is ready, a connection attempt and a REST call have
\* timeouts, and time passes; nothing is assumed of the network or the exchange.
FairSpec == Spec /\ WF_vars(Run) /\ WF_vars(Tick)

--------------------------------------------------------------------------------
\* A price is served only from the connection that is open now, and only after its
\* REST resync: nothing cached before a disconnect is ever served after it.
ServedIsCurrent ==
    Healthy => link # "none" /\ heard = Streams /\ (Credentials => synced)

\* position() answers only from an account that was read back over REST since the
\* connection was made.
PositionIsKnown == PositionServed => synced

\* When REST reported a position, no event that is older than the report, repeated
\* or late, ever takes its place.
PositionForward ==
    PositionServed /\ synced /\ SizeAt(snapshot) # 0 =>
        /\ cursor >= snapshot
        /\ position = IF SizeAt(cursor) # 0 THEN cursor ELSE 0

\* Failing connections never become more than one attempt above the limit within a
\* window, however failures and backoffs fall.
NotHammered == Total(made) <= MaxAttempts + 1

\* The heartbeat gives a link up only when a ping it sent went unanswered.
PingGoesFirst ==
    [][Heartbeat /\ link' # link => owed \/ link = "silent"]_vars

\* stop() ends run(), unless there was no socket to close.
StopEnds == stopping /\ ~lateStop ~> phase = "ended"

\* stop() ends run(), as run() itself says ("stay connected until stop").
StopAlwaysEnds == stopping ~> phase = "ended"
================================================================================
