------------------------------ MODULE EntryPromise -----------------------------
(***************************************************************************)
(* What OrderManager.submit_entry promises its caller, whatever the        *)
(* network does: an answer that means "there is nothing" is given only     *)
(* when nothing was bought and nothing ever will be.  "exposed" is what    *)
(* OrderState.has_exposure says of a state: size may exist.                *)
(***************************************************************************)
EXTENDS Integers

CONSTANTS Size, MaxTrades

VARIABLES
    answer,  \* per entry: "none", "waiting", "nothing", "exposed" or "raised"
    bought,  \* per entry: contracts it has bought
    alive    \* per entry: can it still buy?

promise == <<answer, bought, alive>>

Entries == 1..MaxTrades

Init ==
    /\ answer = [n \in Entries |-> "none"]
    /\ bought = [n \in Entries |-> 0]
    /\ alive = [n \in Entries |-> FALSE]

Submit(n) ==
    /\ answer[n] = "none"
    /\ answer' = [answer EXCEPT ![n] = "waiting"]
    /\ UNCHANGED <<bought, alive>>

\* The exchange takes the order, perhaps without the caller learning of it.
Rest(n) ==
    /\ answer[n] = "waiting"
    /\ bought[n] = 0
    /\ alive' = [alive EXCEPT ![n] = TRUE]
    /\ answer' \in {answer, [answer EXCEPT ![n] = "exposed"], [answer EXCEPT ![n] = "raised"]}
    /\ UNCHANGED bought

Buy(n) ==
    /\ alive[n]
    /\ \E k \in 1..(Size - bought[n]) : bought' = [bought EXCEPT ![n] = @ + k]
    /\ alive' = [alive EXCEPT ![n] = bought'[n] < Size]
    /\ UNCHANGED answer

\* A cancel ends one entry; an expiring countdown ends all of them.
Die ==
    /\ \E gone \in SUBSET Entries : alive' = [n \in Entries |-> alive[n] /\ n \notin gone]
    /\ UNCHANGED <<answer, bought>>

Answer(n) ==
    /\ answer[n] = "waiting"
    /\ \/ answer' = [answer EXCEPT ![n] = "exposed"]
       \/ answer' = [answer EXCEPT ![n] = "raised"]
       \/ /\ bought[n] = 0 /\ ~alive[n]
          /\ answer' = [answer EXCEPT ![n] = "nothing"]
    /\ UNCHANGED <<bought, alive>>

Next == Die \/ \E n \in Entries : Submit(n) \/ Rest(n) \/ Buy(n) \/ Answer(n)

Spec == Init /\ [][Next]_promise
================================================================================
