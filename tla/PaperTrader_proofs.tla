---------------------------- MODULE PaperTrader_proofs --------------------------
(***************************************************************************)
(* What the paper loop's simulator, settlement and protection do, for      *)
(* every size, ladder, tick worth and fee.                                 *)
(***************************************************************************)
EXTENDS PaperTrader, Validation, FoldFacts

(***************************************************************************)
(* What trades add up to.                                                  *)
(***************************************************************************)

TradesType == Seq([net : Int, risk : Int, gap : Int])

LEMMA ElementOf ==
  ASSUME NEW S, NEW s \in Seq(S), NEW i \in 1..Len(s)
  PROVE  s[i] \in S
  OBVIOUS

LEMMA GreatestIn ==
  ASSUME NEW n \in Nat
  PROVE  \A x \in SUBSET (1..n) : x # {} => Max(x) \in x /\ \A y \in x : Max(x) >= y
  <1> DEFINE key == [i \in 1..n |-> i]
  <1>1. \A x \in SUBSET (1..n) : x # {} => \E i \in x : \A y \in x : key[y] <= key[i]
    <2>1. \A i \in 1..n : key[i] \in Int
      OBVIOUS
    <2>2. IsFiniteSet(1..n)
      BY FS_Interval
    <2> HIDE DEF key
    <2> QED
      BY <2>1, <2>2, GreatestElement
  <1>2. ASSUME NEW x \in SUBSET (1..n), x # {}
        PROVE  Max(x) \in x /\ \A y \in x : Max(x) >= y
    <2>1. \E i \in x : \A y \in x : i >= y
      BY <1>1, <1>2
    <2> QED
      BY <2>1 DEF Max
  <1> QED
    BY <1>2

\* The sum of trades is that of all but the last, and the last.
LEMMA NetOneByOne ==
  ASSUME NEW s \in TradesType
  PROVE  \E it :
            /\ Net(s) = it[1..Len(s)]
            /\ it[{}] = 0
            /\ \A x \in SUBSET (1..Len(s)) : it[x] \in Int
            /\ \A x \in SUBSET (1..Len(s)) : x # {} =>
                  it[x] = it[x \ {Max(x)}] + s[Max(x)].net
  <1> DEFINE n == Len(s)
             Adding(it) == it = [x \in SUBSET (1..n) |->
                                 IF x = {} THEN 0 ELSE it[x \ {Max(x)}] + s[Max(x)].net]
             chosen == CHOOSE it : Adding(it)
  <1>1. n \in Nat /\ DOMAIN s = 1..n /\ \A i \in 1..n : s[i].net \in Int
    <2>1. n \in Nat /\ DOMAIN s = 1..n
      BY DEF TradesType
    <2>2. \A i \in 1..n : s[i] \in [net : Int, risk : Int, gap : Int]
      BY ElementOf DEF TradesType
    <2> QED
      BY <2>1, <2>2
  <1>2. Net(s) = chosen[1..n]
    BY <1>1 DEF Net, FoldLeft, MapThenFoldSet
  <1>3. \A x \in SUBSET (1..n) : x # {} => Max(x) \in x
    BY <1>1, GreatestIn
  <1> DEFINE pick == [x \in SUBSET (1..n) |-> Max(x)]
             step == [p \in (1..n) \X Int |-> p[2] + s[p[1]].net]
  <1>4. \A x \in SUBSET (1..n) : x # {} => pick[x] \in x
    BY <1>3
  <1>5. \A i \in 1..n, w \in Int : step[<<i, w>>] = w + s[i].net /\ step[<<i, w>>] \in Int
    BY <1>1
  <1>6. PICK made : FoldsAll(made, 1..n, 0, step, pick) /\ StaysIn(made, 1..n, Int)
    <2>1. Steps(1..n, Int, step, pick)
      BY <1>4, <1>5 DEF Steps
    <2>2. IsFiniteSet(1..n)
      BY <1>1, FS_Interval
    <2> HIDE DEF pick, step, n
    <2>3. 0 \in Int
      OBVIOUS
    <2> QED
      BY <2>1, <2>2, <2>3, FoldStays
  <1>7. Adding(made)
    <2>1. ASSUME NEW x \in SUBSET (1..n), x # {}
          PROVE  step[<<pick[x], made[x \ {pick[x]}]>>] = made[x \ {Max(x)}] + s[Max(x)].net
      <3>1. pick[x] = Max(x) /\ Max(x) \in 1..n
        BY <1>3, <2>1
      <3>2. made[x \ {Max(x)}] \in Int
        BY <1>6 DEF StaysIn
      <3> HIDE DEF step, pick
      <3> QED
        BY <1>5, <3>1, <3>2
    <2> HIDE DEF step, pick, n
    <2> QED
      BY <1>6, <2>1 DEF FoldsAll
  <1>8. Adding(chosen)
    <2> HIDE DEF Adding
    <2> QED
      BY <1>7
  <1> HIDE DEF chosen, pick, step
  <1>9. chosen[{}] = 0
    BY <1>8
  <1>10. \A x \in SUBSET (1..n) : x # {} =>
            Max(x) \in x /\ chosen[x] = chosen[x \ {Max(x)}] + s[Max(x)].net
    BY <1>3, <1>8
  <1> HIDE DEF Adding
  <1> DEFINE Good == {x \in SUBSET (1..n) : chosen[x] \in Int}
  <1>11. {} \in Good
    BY <1>9
  <1>12. ASSUME NEW x \in SUBSET (1..n), x # {}
         PROVE  \E y \in x : x \ {y} \in Good => x \in Good
    <2>1. Max(x) \in x /\ s[Max(x)].net \in Int
      BY <1>1, <1>3, <1>12
    <2>2. ASSUME x \ {Max(x)} \in Good PROVE x \in Good
      <3>1. chosen[x \ {Max(x)}] \in Int
        BY <2>2
      <3>2. chosen[x] = chosen[x \ {Max(x)}] + s[Max(x)].net
        BY <1>10, <1>12
      <3>3. chosen[x] \in Int
        BY <2>1, <3>1, <3>2
      <3> QED
        BY <3>3
    <2> QED
      BY <2>1, <2>2
  <1>13. \A x \in SUBSET (1..n) : x \in Good
    <2>1. IsFiniteSet(1..n)
      BY <1>1, FS_Interval
    <2> HIDE DEF Good, n
    <2> QED
      BY <1>11, <1>12, <2>1, SubsetInduction
  <1>14. \A x \in SUBSET (1..n) : chosen[x] \in Int
    BY <1>13
  <1> HIDE DEF Good
  <1> QED
    BY <1>2, <1>9, <1>10, <1>14, Zenon

LEMMA NetType ==
  /\ <<>> \in TradesType /\ Net(<<>>) = 0
  /\ \A s \in TradesType : Net(s) \in Int
  <1>1. <<>> \in TradesType /\ Len(<<>>) = 0
    BY DEF TradesType
  <1>2. 1..0 = {}
    OBVIOUS
  <1>3. Net(<<>>) = 0
    BY <1>1, <1>2, NetOneByOne
  <1>4. \A s \in TradesType : Net(s) \in Int
    BY NetOneByOne
  <1> QED
    BY <1>1, <1>3, <1>4

\* A trade more adds what it made.
LEMMA NetAppend ==
  ASSUME NEW s \in TradesType, NEW t \in [net : Int, risk : Int, gap : Int]
  PROVE  /\ Append(s, t) \in TradesType
         /\ Len(Append(s, t)) = Len(s) + 1
         /\ Net(Append(s, t)) = Net(s) + t.net
  <1> DEFINE n == Len(s)
             more == Append(s, t)
  <1>1. /\ more \in TradesType /\ Len(more) = n + 1 /\ n \in Nat
        /\ \A i \in 1..n : more[i] = s[i]
        /\ more[n + 1] = t
    BY DEF TradesType
  <1>2. PICK it :
            /\ Net(s) = it[1..n]
            /\ it[{}] = 0
            /\ \A x \in SUBSET (1..n) : x # {} => it[x] = it[x \ {Max(x)}] + s[Max(x)].net
    BY NetOneByOne
  <1>3. PICK jt :
            /\ Net(more) = jt[1..(n + 1)]
            /\ jt[{}] = 0
            /\ \A x \in SUBSET (1..(n + 1)) : x # {} =>
                  jt[x] = jt[x \ {Max(x)}] + more[Max(x)].net
    <2>1. more \in TradesType /\ Len(more) = n + 1
      BY <1>1
    <2> HIDE DEF more, n
    <2>2. PICK jt :
            /\ Net(more) = jt[1..Len(more)]
            /\ jt[{}] = 0
            /\ \A x \in SUBSET (1..Len(more)) : x # {} =>
                  jt[x] = jt[x \ {Max(x)}] + more[Max(x)].net
      BY <2>1, NetOneByOne
    <2> QED
      BY <2>1, <2>2, Zenon
  <1> HIDE DEF n, more
  <1>4. ASSUME NEW k \in 1..(n + 1)
        PROVE  Max(1..k) = k /\ (1..k) \ {k} = 1..(k - 1) /\ k - 1 \in Nat
    <2>1. Max(1..k) \in 1..k /\ \A y \in 1..k : Max(1..k) >= y
      <3>1. k \in 1..k /\ k \in Nat
        BY <1>1
      <3>2. 1..k \in SUBSET (1..k) /\ 1..k # {}
        BY <3>1
      <3> QED
        BY <3>1, <3>2, GreatestIn
    <2> QED
      BY <1>1, <2>1
  <1> DEFINE bad == {k \in Nat : k <= n /\ it[1..k] # jt[1..k]}
  <1>5. bad = {}
    <2> SUFFICES ASSUME bad # {} PROVE FALSE
      OBVIOUS
    <2>1. PICK k \in bad : \A j \in bad : k <= j
      <3>1. bad \in SUBSET Nat
        OBVIOUS
      <3> HIDE DEF bad
      <3> QED
        BY <3>1, LeastNatural
    <2>2. k \in Nat /\ k <= n /\ it[1..k] # jt[1..k]
      OBVIOUS
    <2>3. k # 0
      <3>1. 1..0 = {}
        OBVIOUS
      <3> QED
        BY <1>2, <1>3, <2>2, <3>1
    <2>4. k \in 1..n /\ k \in 1..(n + 1) /\ k - 1 \in Nat /\ k - 1 <= n /\ ~(k <= k - 1)
      BY <1>1, <2>2, <2>3
    <2>5. it[1..(k - 1)] = jt[1..(k - 1)]
      BY <2>1, <2>4
    <2>6. it[1..k] = it[1..(k - 1)] + s[k].net
      <3>1. 1..k \in SUBSET (1..n) /\ 1..k # {}
        <4>1. k \in 1..k /\ 1..k \subseteq 1..n
          BY <1>1, <2>4
        <4> QED
          BY <4>1
      <3>2. it[1..k] = it[(1..k) \ {Max(1..k)}] + s[Max(1..k)].net
        BY <1>2, <3>1
      <3>3. Max(1..k) = k /\ (1..k) \ {k} = 1..(k - 1)
        BY <1>4, <2>4
      <3> QED
        BY <3>2, <3>3
    <2>7. jt[1..k] = jt[1..(k - 1)] + s[k].net
      <3>1. 1..k \in SUBSET (1..(n + 1)) /\ 1..k # {}
        <4>1. k \in 1..k /\ 1..k \subseteq 1..(n + 1)
          BY <1>1, <2>4
        <4> QED
          BY <4>1
      <3>2. jt[1..k] = jt[(1..k) \ {Max(1..k)}] + more[Max(1..k)].net
        BY <1>3, <3>1
      <3>3. Max(1..k) = k /\ (1..k) \ {k} = 1..(k - 1)
        BY <1>4, <2>4
      <3>4. more[k] = s[k]
        BY <1>1, <2>4
      <3> QED
        BY <3>2, <3>3, <3>4
    <2> QED
      BY <2>2, <2>5, <2>6, <2>7
  <1>6. it[1..n] = jt[1..n]
    BY <1>1, <1>5
  <1>7. jt[1..(n + 1)] = jt[1..n] + t.net
    <2>1. 1..(n + 1) \in SUBSET (1..(n + 1)) /\ 1..(n + 1) # {} /\ n + 1 \in 1..(n + 1)
      <3>1. n + 1 \in 1..(n + 1)
        BY <1>1
      <3> QED
        BY <3>1
    <2>2. Max(1..(n + 1)) = n + 1 /\ (1..(n + 1)) \ {n + 1} = 1..n
      BY <1>1, <1>4, <2>1
    <2>3. jt[1..(n + 1)] = jt[(1..(n + 1)) \ {Max(1..(n + 1))}] + more[Max(1..(n + 1))].net
      BY ONLY <1>3, <2>1, Zenon
    <2>4. more[n + 1] = t
      BY <1>1
    <2> QED
      BY ONLY <2>2, <2>3, <2>4
  <1>8. Net(more) = Net(s) + t.net
    BY <1>2, <1>3, <1>6, <1>7
  <1> QED
    BY <1>1, <1>8 DEF n, more

(***************************************************************************)
(* The simulator.                                                          *)
(***************************************************************************)

Entries == [status : {"none", "open", "filled", "cancelled"}, trade : 0..MaxTrades,
            size : {-Size, 0, Size}, limit : Int]

Simulators == [pos : Int, order : Entries, levels : SUBSET Levels, last : Int, cash : Int,
               strayed : BOOLEAN]

LEMMA SizeType ==
  Size \in Nat /\ Size > 0 /\ MaxTrades \in Nat /\ StopTicks - 1 \in Nat /\ StopTicks - 1 > 0
    /\ Unit \in Nat
  BY PaperAssumption

\* What is held now lies between nothing and what was held.
Toward(now, before) ==
    /\ before >= 0 => 0 <= now /\ now <= before
    /\ before <= 0 => before <= now /\ now <= 0

\* A reduce-only order of this size takes all that is held.
TakesAll(size, pos) ==
    \/ pos > 0 /\ size <= -pos
    \/ pos < 0 /\ size >= -pos

LEMMA ClampReduces ==
  ASSUME NEW pos \in Int, NEW size \in Int, size # 0
  PROVE  /\ ClampReduceOnly(pos, size) \in Int
         /\ Toward(pos + ClampReduceOnly(pos, size), pos)
         /\ TakesAll(size, pos) => ClampReduceOnly(pos, size) = -pos
         /\ pos = 0 => ClampReduceOnly(pos, size) = 0
  BY DEF ClampReduceOnly, Toward, TakesAll, Magnitude

LEMMA LevelType ==
  ASSUME NEW l \in Levels
  PROVE  /\ l.trade \in 1..MaxTrades /\ l.name \in LevelNames
         /\ l.size \in Int /\ l.size # 0 /\ l.at \in Int
  BY SizeType DEF Levels

\* What a trigger takes, and whether it strays.
Taken(l, sim) == ClampReduceOnly(sim.pos, l.size)

Strays(l, sim) ==
    \/ sim.strayed
    \/ Taken(l, sim) # 0 /\ l.trade # sim.order.trade
    \/ sim.pos # 0 /\ (sim.pos > 0) = (l.size > 0)

LEMMA FireFields ==
  ASSUME NEW sim \in Simulators, NEW l \in Levels
  PROVE  /\ Fire(l, sim) \in Simulators
         /\ Fire(l, sim).pos = sim.pos + Taken(l, sim)
         /\ Fire(l, sim).cash = sim.cash - Taken(l, sim) * l.at
         /\ Fire(l, sim).order = sim.order
         /\ Fire(l, sim).levels = sim.levels
         /\ Fire(l, sim).last = sim.last
         /\ Fire(l, sim).strayed = Strays(l, sim)
  <1>1. sim.pos \in Int /\ sim.cash \in Int
    BY DEF Simulators
  <1>2. l.size \in Int /\ l.size # 0 /\ l.at \in Int
    BY LevelType
  <1> DEFINE taken == Taken(l, sim)
  <1>3. taken \in Int
    BY <1>1, <1>2, ClampReduces DEF Taken
  <1> HIDE DEF taken
  <1>4. taken * l.at \in Int
    BY <1>2, <1>3
  <1>5. sim.pos + taken \in Int /\ sim.cash - taken * l.at \in Int
    BY <1>1, <1>3, <1>4
  <1> DEFINE filled == ApplyFill(sim, taken, l.at)
             wrong == Strays(l, sim)
  <1>6. filled = [sim EXCEPT !.pos = sim.pos + taken, !.cash = sim.cash - taken * l.at]
    BY DEF ApplyFill, Simulators
  <1>7. filled.strayed = sim.strayed
    BY <1>6 DEF Simulators
  <1>8. Fire(l, sim) = [filled EXCEPT !.strayed = wrong]
    BY <1>7, Zenon DEF Fire, Taken, Strays, taken
  <1>9. wrong \in BOOLEAN
    BY DEF Simulators, Strays
  <1> HIDE DEF wrong
  <1>10. Fire(l, sim) = [sim EXCEPT !.pos = sim.pos + taken, !.cash = sim.cash - taken * l.at,
                                    !.strayed = wrong]
    BY <1>6, <1>8 DEF Simulators
  <1>11. Fire(l, sim) \in Simulators
    BY <1>5, <1>9, <1>10 DEF Simulators
  <1> QED
    BY <1>10, <1>11 DEF Simulators, taken, wrong

\* All the triggers that a price reaches, in the order they were placed.
FireAll(sim, fired) == MapThenFoldSet(Fire, sim, LAMBDA l : l, LastPlaced, fired)

LEMMA LastPlacedIn ==
  ASSUME NEW fired \in SUBSET Levels, IsFiniteSet(fired)
  PROVE  \A s \in SUBSET fired : s # {} => LastPlaced(s) \in s
  <1> DEFINE key == [l \in fired |-> Placed(l)]
  <1>1. \A l \in fired : key[l] \in Int
    BY LevelType, SizeType DEF Placed, Rank, LevelNames
  <1>2. \A s \in SUBSET fired : s # {} => \E x \in s : \A y \in s : key[y] <= key[x]
    <2> HIDE DEF key
    <2> QED
      BY <1>1, GreatestElement
  <1>3. ASSUME NEW s \in SUBSET fired, s # {}
        PROVE  LastPlaced(s) \in s
    <2>1. \E x \in s : \A y \in s : Placed(y) <= Placed(x)
      BY <1>2, <1>3
    <2> QED
      BY <2>1 DEF LastPlaced
  <1> QED
    BY <1>3

\* Firing a set of triggers is firing its last after the others.
LEMMA FiredOneByOne ==
  ASSUME NEW sim \in Simulators, NEW fired \in SUBSET Levels, IsFiniteSet(fired)
  PROVE  \E it :
            /\ FireAll(sim, fired) = it[fired]
            /\ it[{}] = sim
            /\ \A s \in SUBSET fired : it[s] \in Simulators
            /\ \A s \in SUBSET fired : s # {} =>
                  \E l \in s : it[s] = Fire(l, it[s \ {l}])
  <1> DEFINE Fires(it) == it = [s \in SUBSET fired |->
                                  IF s = {} THEN sim
                                  ELSE Fire(LastPlaced(s), it[s \ {LastPlaced(s)}])]
             chosen == CHOOSE it : Fires(it)
  <1>1. FireAll(sim, fired) = chosen[fired]
    BY DEF FireAll, MapThenFoldSet
  <1> DEFINE pick == [s \in SUBSET fired |-> LastPlaced(s)]
             step == [x \in fired \X Simulators |-> Fire(x[1], x[2])]
  <1>2. \A s \in SUBSET fired : s # {} => LastPlaced(s) \in s
    BY LastPlacedIn
  <1>3. \A s \in SUBSET fired : s # {} => pick[s] \in s
    BY <1>2
  <1>4. \A l \in fired, w \in Simulators : step[<<l, w>>] = Fire(l, w)
    OBVIOUS
  <1>5. \A l \in fired, w \in Simulators : step[<<l, w>>] \in Simulators
    BY <1>4, FireFields
  <1>6. PICK made : FoldsAll(made, fired, sim, step, pick) /\ StaysIn(made, fired, Simulators)
    <2>1. Steps(fired, Simulators, step, pick)
      BY <1>3, <1>5 DEF Steps
    <2> HIDE DEF pick, step
    <2> QED
      BY <2>1, FoldStays
  <1>7. Fires(made)
    <2>1. ASSUME NEW s \in SUBSET fired, s # {}
          PROVE  step[<<pick[s], made[s \ {pick[s]}]>>]
                   = Fire(LastPlaced(s), made[s \ {LastPlaced(s)}])
      <3>1. pick[s] = LastPlaced(s) /\ LastPlaced(s) \in fired
        BY <1>2, <2>1
      <3>2. made[s \ {LastPlaced(s)}] \in Simulators
        BY <1>6 DEF StaysIn
      <3> HIDE DEF step, pick
      <3> QED
        BY <1>4, <3>1, <3>2
    <2> HIDE DEF step, pick
    <2> QED
      BY <1>6, <2>1 DEF FoldsAll
  <1>8. Fires(chosen)
    <2> HIDE DEF Fires
    <2> QED
      BY <1>7
  <1> HIDE DEF chosen, pick, step
  <1>9. chosen[{}] = sim
    BY <1>8
  <1>10. \A s \in SUBSET fired : s # {} =>
            LastPlaced(s) \in s /\ chosen[s] = Fire(LastPlaced(s), chosen[s \ {LastPlaced(s)}])
    BY <1>2, <1>8
  <1> HIDE DEF Fires
  <1> DEFINE Good == {s \in SUBSET fired : chosen[s] \in Simulators}
  <1>11. {} \in Good
    BY <1>9
  <1>12. ASSUME NEW s \in SUBSET fired, s # {}
         PROVE  \E x \in s : s \ {x} \in Good => s \in Good
    <2>1. LastPlaced(s) \in s /\ LastPlaced(s) \in Levels
      BY <1>2, <1>12
    <2>2. chosen[s] = Fire(LastPlaced(s), chosen[s \ {LastPlaced(s)}])
      BY <1>10, <1>12
    <2>3. s \ {LastPlaced(s)} \in Good => s \in Good
      BY <2>1, <2>2, FireFields
    <2> QED
      BY <2>1, <2>3
  <1>13. \A s \in SUBSET fired : s \in Good
    <2> HIDE DEF Good
    <2> QED
      BY <1>11, <1>12, SubsetInduction
  <1>14. \A s \in SUBSET fired : chosen[s] \in Simulators
    BY <1>13
  <1>15. \A s \in SUBSET fired : s # {} =>
            \E l \in s : chosen[s] = Fire(l, chosen[s \ {l}])
    BY <1>10
  <1> QED
    BY <1>1, <1>9, <1>14, <1>15, Zenon

\* Whatever the triggers, the position only goes towards nothing.
LEMMA FireAllKeeps ==
  ASSUME NEW sim \in Simulators, NEW fired \in SUBSET Levels, IsFiniteSet(fired)
  PROVE  LET after == FireAll(sim, fired)
         IN /\ after \in Simulators
            /\ after.order = sim.order /\ after.levels = sim.levels /\ after.last = sim.last
            /\ Toward(after.pos, sim.pos)
            /\ sim.strayed => after.strayed
            /\ \A l \in fired : TakesAll(l.size, sim.pos) => after.pos = 0
            /\ sim.pos = 0 => after.cash = sim.cash /\ after.strayed = sim.strayed
  <1>1. PICK it :
            /\ FireAll(sim, fired) = it[fired]
            /\ it[{}] = sim
            /\ \A s \in SUBSET fired : it[s] \in Simulators
            /\ \A s \in SUBSET fired : s # {} =>
                  \E l \in s : it[s] = Fire(l, it[s \ {l}])
    BY FiredOneByOne
  <1> DEFINE Kept(s) ==
               /\ it[s].order = sim.order /\ it[s].levels = sim.levels /\ it[s].last = sim.last
               /\ Toward(it[s].pos, sim.pos)
               /\ sim.strayed => it[s].strayed
               /\ \A l \in s : TakesAll(l.size, sim.pos) => it[s].pos = 0
               /\ sim.pos = 0 => it[s].cash = sim.cash /\ it[s].strayed = sim.strayed
             Good == {s \in SUBSET fired : Kept(s)}
  <1>2. sim.pos \in Int
    BY DEF Simulators
  <1>3. {} \in Good
    BY <1>1, <1>2 DEF Toward
  <1>4. ASSUME NEW s \in SUBSET fired, s # {}
        PROVE  \E x \in s : s \ {x} \in Good => s \in Good
    <2>1. PICK l \in s : it[s] = Fire(l, it[s \ {l}])
      BY <1>1, <1>4
    <2>2. SUFFICES ASSUME s \ {l} \in Good PROVE s \in Good
      BY <2>1, Zenon
    <2> DEFINE was == it[s \ {l}]
               taken == Taken(l, was)
    <2>3. was \in Simulators /\ l \in Levels
      BY <1>1
    <2>4. was.pos \in Int /\ was.cash \in Int
      BY <2>3 DEF Simulators
    <2>5. Kept(s \ {l})
      BY <2>2
    <2>6. /\ it[s].pos = was.pos + taken
          /\ it[s].cash = was.cash - taken * l.at
          /\ it[s].order = was.order /\ it[s].levels = was.levels /\ it[s].last = was.last
          /\ it[s].strayed = Strays(l, was)
      BY <2>1, <2>3, FireFields
    <2>7. /\ taken \in Int
          /\ Toward(was.pos + taken, was.pos)
          /\ TakesAll(l.size, was.pos) => taken = -was.pos
          /\ was.pos = 0 => taken = 0
      BY <2>3, <2>4, LevelType, ClampReduces DEF Taken
    <2>8. Toward(was.pos, sim.pos)
      BY <2>5
    <2>9. l.at \in Int /\ l.size \in Int
      BY <2>3, LevelType
    <2> HIDE DEF taken
    <2>10. Toward(it[s].pos, sim.pos)
      BY <1>2, <2>4, <2>6, <2>7, <2>8 DEF Toward
    <2>11. ASSUME NEW k \in s, TakesAll(k.size, sim.pos)
           PROVE  it[s].pos = 0
      <3>1. CASE k # l
        <4>1. was.pos = 0
          BY <2>5, <2>11, <3>1
        <4> QED
          BY <2>6, <2>7, <4>1
      <3>2. CASE k = l
        <4>1. was.pos = 0 \/ TakesAll(l.size, was.pos)
          BY <1>2, <2>4, <2>8, <2>9, <2>11, <3>2 DEF Toward, TakesAll
        <4> QED
          BY <2>4, <2>6, <2>7, <4>1
      <3> QED
        BY <3>1, <3>2
    <2>12. ASSUME sim.pos = 0
           PROVE  it[s].cash = sim.cash /\ it[s].strayed = sim.strayed
      <3>1. was.pos = 0 /\ taken = 0
        BY <2>4, <2>7, <2>8, <2>12 DEF Toward
      <3>2. was.cash = sim.cash /\ was.strayed = sim.strayed
        BY <2>5, <2>12
      <3>3. taken * l.at = 0
        BY <2>9, <3>1
      <3>4. it[s].cash = sim.cash
        BY <2>4, <2>6, <3>2, <3>3
      <3>5. was.strayed \in BOOLEAN
        BY <2>3 DEF Simulators
      <3>6. it[s].strayed = sim.strayed
        BY <2>6, <3>1, <3>2, <3>5, Zenon DEF Strays, taken
      <3> QED
        BY <3>4, <3>6
    <2>13. Kept(s)
      <3> HIDE DEF was
      <3>1. it[s].order = sim.order /\ it[s].levels = sim.levels /\ it[s].last = sim.last
        BY <2>5, <2>6 DEF was
      <3>2. sim.strayed => it[s].strayed
        BY <2>5, <2>6 DEF was, Strays
      <3> QED
        BY <3>1, <3>2, <2>10, <2>11, <2>12
    <2> QED
      BY <2>13
  <1>5. \A s \in SUBSET fired : s \in Good
    <2> HIDE DEF Good
    <2> QED
      BY <1>3, <1>4, SubsetInduction
  <1>6. Kept(fired)
    BY <1>5
  <1>7. it[fired] \in Simulators
    BY <1>1
  <1> QED
    BY <1>1, <1>6, <1>7, Zenon

(***************************************************************************)
(* The ladder.                                                             *)
(***************************************************************************)

RungNames == {"tp1", "tp2", "tp3"}

\* The rungs of a ladder for the whole of an entry.
Rung(name) == RungSize(name, Size)

\* What the rungs of these names hold, and what they earn beyond the entry.
Contracts(names) ==
    (IF "tp1" \in names THEN Rung("tp1") ELSE 0)
    + (IF "tp2" \in names THEN Rung("tp2") ELSE 0)
    + (IF "tp3" \in names THEN Rung("tp3") ELSE 0)

Earned(name) == Rung(name) * (Rank(name) * (StopTicks - 1))

Worth(names) ==
    (IF "tp1" \in names THEN Earned("tp1") ELSE 0)
    + (IF "tp2" \in names THEN Earned("tp2") ELSE 0)
    + (IF "tp3" \in names THEN Earned("tp3") ELSE 0)

LEMMA Percentage ==
  ASSUME NEW amount \in Nat, NEW pct \in 1..99
  PROVE  /\ (amount * pct) \div 100 \in Nat
         /\ 100 * ((amount * pct) \div 100) <= amount * pct
         /\ amount * pct \in Nat
  <1> DEFINE product == amount * pct
  <1>1. product \in Nat
    OBVIOUS
  <1> HIDE DEF product
  <1>2. product \div 100 \in Nat /\ 100 * (product \div 100) <= product
    BY <1>1
  <1> QED
    BY <1>1, <1>2 DEF product

\* The rungs of a ladder are not negative and hold the whole of it.
LEMMA LadderHolds ==
  ASSUME NEW held \in Nat
  PROVE  /\ \A name \in RungNames : RungSize(name, held) \in Nat
         /\ RungSize("tp1", held) + RungSize("tp2", held) + RungSize("tp3", held) = held
         /\ RungSize("tp1", held) = (held * Tp1Pct) \div 100
         /\ RungSize("tp2", held) = (held * Tp2Pct) \div 100
  <1>1. Tp1Pct \in 1..99 /\ Tp2Pct \in 1..99 /\ Tp1Pct + Tp2Pct < 100
    BY PaperAssumption
  <1> DEFINE first == (held * Tp1Pct) \div 100
             second == (held * Tp2Pct) \div 100
             p == held * Tp1Pct
             q == held * Tp2Pct
  <1>2. first \in Nat /\ 100 * first <= p /\ p \in Nat
    BY <1>1, Percentage
  <1>3. second \in Nat /\ 100 * second <= q /\ q \in Nat
    BY <1>1, Percentage
  <1>4. p + q <= held * 100
    <2>1. held * (100 - (Tp1Pct + Tp2Pct)) \in Nat
      BY <1>1
    <2>2. held * 100 = p + q + held * (100 - (Tp1Pct + Tp2Pct))
      BY <1>1
    <2> HIDE DEF p, q
    <2> QED
      BY <1>2, <1>3, <2>1, <2>2
  <1>5. /\ RungSize("tp1", held) = first /\ RungSize("tp2", held) = second
        /\ RungSize("tp3", held) = held - first - second
    BY DEF RungSize
  <1> HIDE DEF first, second, p, q
  <1>6. held - first - second \in Nat
    BY <1>2, <1>3, <1>4
  <1>7. first + second + (held - first - second) = held
    BY <1>2, <1>3
  <1> QED
    BY <1>2, <1>3, <1>5, <1>6, <1>7 DEF RungNames, first, second

LEMMA RungType ==
  /\ \A name \in RungNames : Rung(name) \in Nat /\ Earned(name) \in Nat
  /\ Contracts(RungNames) = Size
  <1>1. /\ \A name \in RungNames : Rung(name) \in Nat
        /\ Rung("tp1") + Rung("tp2") + Rung("tp3") = Size
    BY SizeType, LadderHolds DEF Rung
  <1>2. ASSUME NEW name \in RungNames PROVE Earned(name) \in Nat
    <2>1. Rank(name) \in Nat
      BY DEF Rank, RungNames
    <2>2. Rank(name) * (StopTicks - 1) \in Nat
      BY <2>1, SizeType
    <2> QED
      BY <1>1, <2>2 DEF Earned
  <1> QED
    BY <1>1, <1>2 DEF Contracts, RungNames

LEMMA SumType ==
  ASSUME NEW names
  PROVE  Contracts(names) \in Nat /\ Worth(names) \in Nat
  BY RungType DEF Contracts, Worth, RungNames

\* Taking a rung out of a ladder takes out its contracts and what it earns.
LEMMA WithoutRung ==
  ASSUME NEW names, NEW name \in names \cap RungNames
  PROVE  /\ Contracts(names) = Contracts(names \ {name}) + Rung(name)
         /\ Worth(names) = Worth(names \ {name}) + Earned(name)
  BY RungType DEF Contracts, Worth, RungNames

LEMMA FewerRungs ==
  ASSUME NEW names, NEW more, names \subseteq more
  PROVE  Contracts(names) <= Contracts(more)
  BY RungType DEF Contracts, RungNames

LEMMA SplitRungs ==
  ASSUME NEW some, NEW all, some \subseteq all
  PROVE  /\ Contracts(all) = Contracts(some) + Contracts(all \ some)
         /\ Worth(all) = Worth(some) + Worth(all \ some)
  BY RungType DEF Contracts, Worth, RungNames

\* A rung of the ladder of a trade that was entered at a price.
IsRung(l, direction, entry) ==
    /\ l.name \in RungNames
    /\ l.size = -direction * Rung(l.name)
    /\ l.at = entry + direction * Rank(l.name) * (StopTicks - 1)
    /\ l.rule = IF direction > 0 THEN "above" ELSE "below"

\* What a trade owns of some levels.
Own(levels, trade) == {l \in levels : l.trade = trade}
NamesOf(levels) == {l.name : l \in levels}
Distinct(levels) == \A a, b \in levels : a.name = b.name => a = b

LEMMA NamesWithout ==
  ASSUME NEW levels, Distinct(levels), NEW l \in levels
  PROVE  NamesOf(levels \ {l}) = NamesOf(levels) \ {l.name} /\ l.name \in NamesOf(levels)
  BY DEF Distinct, NamesOf

LEMMA NamesApart ==
  ASSUME NEW levels, Distinct(levels), NEW some \in SUBSET levels
  PROVE  /\ NamesOf(levels \ some) = NamesOf(levels) \ NamesOf(some)
         /\ NamesOf(some) \subseteq NamesOf(levels)
  BY DEF Distinct, NamesOf

\* What is held, at its entry price, with what it cost: a rung that fires adds what it earns.
LEMMA RungArithmetic ==
  ASSUME NEW direction \in {1, -1}, NEW cash \in Int, NEW pos \in Int, NEW entry \in Int,
         NEW r \in Int, NEW d \in Int, NEW taken, taken = -direction * r,
         NEW at, at = entry + direction * d
  PROVE  (cash - taken * at) + (pos + taken) * entry = cash + pos * entry + r * d
  <1>1. r * entry \in Int /\ r * d \in Int /\ pos * entry \in Int
    OBVIOUS
  <1>2. CASE direction = 1
    <2>1. taken * at = -(r * entry) - (r * d)
      BY <1>2
    <2>2. (pos + taken) * entry = pos * entry - r * entry
      BY <1>2
    <2> QED
      BY <1>1, <2>1, <2>2
  <1>3. CASE direction = -1
    <2>1. taken * at = r * entry - r * d
      BY <1>3
    <2>2. (pos + taken) * entry = pos * entry + r * entry
      BY <1>3
    <2> QED
      BY <1>1, <2>1, <2>2
  <1> QED
    BY <1>2, <1>3

LEMMA RungTaken ==
  ASSUME NEW direction \in {1, -1}, NEW held \in Nat, NEW r \in Nat, r # 0, r <= held
  PROVE  ClampReduceOnly(direction * held, -direction * r) = -direction * r
  <1>1. CASE direction = 1
    BY <1>1 DEF ClampReduceOnly, Magnitude
  <1>2. CASE direction = -1
    BY <1>2 DEF ClampReduceOnly, Magnitude
  <1> QED
    BY <1>1, <1>2

\* Where only rungs of the trade in hand fire, and no trigger strays, each takes what it is
\* for at its price.
LEMMA FireRungs ==
  ASSUME NEW sim \in Simulators, NEW fired \in SUBSET Levels, IsFiniteSet(fired),
         NEW direction \in {1, -1}, NEW entry \in Int, NEW held \in Nat,
         NEW own, own = Own(fired, sim.order.trade), Distinct(own),
         \A l \in own : IsRung(l, direction, entry),
         sim.pos = direction * held,
         Contracts(NamesOf(own)) <= held,
         NEW after, after = FireAll(sim, fired), ~after.strayed
  PROVE  /\ after.pos = direction * (held - Contracts(NamesOf(own)))
         /\ after.cash + after.pos * entry
              = sim.cash + sim.pos * entry + Worth(NamesOf(own))
  <1>1. PICK it :
            /\ FireAll(sim, fired) = it[fired]
            /\ it[{}] = sim
            /\ \A s \in SUBSET fired : it[s] \in Simulators
            /\ \A s \in SUBSET fired : s # {} =>
                  \E l \in s : it[s] = Fire(l, it[s \ {l}])
    BY FiredOneByOne
  <1> DEFINE names(s) == NamesOf(s \cap own)
             Booked(w, ns) ==
               /\ w.order = sim.order
               /\ ~w.strayed =>
                     /\ w.pos = direction * (held - Contracts(ns))
                     /\ w.cash + w.pos * entry = sim.cash + sim.pos * entry + Worth(ns)
             Good == {s \in SUBSET fired : Booked(it[s], names(s))}
  <1>2. sim.pos \in Int /\ sim.cash \in Int
    BY DEF Simulators
  <1>3. {} \in Good
    <2>1. names({}) = {}
      BY DEF NamesOf
    <2>2. Contracts({}) = 0 /\ Worth({}) = 0
      BY DEF Contracts, Worth
    <2>3. sim.cash + sim.pos * entry = sim.cash + sim.pos * entry + 0
      BY <1>2
    <2>4. sim.pos = direction * (held - 0)
      OBVIOUS
    <2>5. Booked(it[{}], names({}))
      BY <1>1, <2>1, <2>2, <2>3, <2>4, Zenon
    <2> QED
      BY <2>5
  <1>4. ASSUME NEW s \in SUBSET fired, s # {}
        PROVE  \E x \in s : s \ {x} \in Good => s \in Good
    <2>1. PICK l \in s : it[s] = Fire(l, it[s \ {l}])
      BY <1>1, <1>4
    <2>2. SUFFICES ASSUME s \ {l} \in Good PROVE s \in Good
      BY <2>1, Zenon
    <2> DEFINE was == it[s \ {l}]
               left == names(s \ {l})
    <2>3. was \in Simulators /\ l \in Levels
      BY <1>1
    <2>4. was.pos \in Int /\ was.cash \in Int /\ l.size \in Int /\ l.size # 0 /\ l.at \in Int
      BY <2>3, LevelType DEF Simulators
    <2>5. Booked(was, left)
      BY <2>2
    <2>6. /\ it[s].pos = was.pos + Taken(l, was)
          /\ it[s].cash = was.cash - Taken(l, was) * l.at
          /\ it[s].order = was.order
          /\ it[s].strayed = Strays(l, was)
      BY <2>1, <2>3, FireFields
    <2> HIDE DEF was, left
    <2>7. SUFFICES ASSUME ~it[s].strayed PROVE Booked(it[s], names(s))
      <3>1. it[s].order = sim.order
        BY <2>5, <2>6
      <3>2. Booked(it[s], names(s))
        BY <2>7, <3>1
      <3> QED
        BY <3>2
    <2>8. /\ ~was.strayed
          /\ Taken(l, was) = 0 \/ l.trade = sim.order.trade
      BY <2>5, <2>6, <2>7 DEF Strays
    <2>9. /\ was.pos = direction * (held - Contracts(left))
          /\ was.cash + was.pos * entry = sim.cash + sim.pos * entry + Worth(left)
      BY <2>5, <2>8
    <2>10. CASE l \in own
      <3> DEFINE all == names(s)
                 r == Rung(l.name)
                 d == Rank(l.name) * (StopTicks - 1)
                 h == held - Contracts(left)
      <3>1. left = all \ {l.name} /\ l.name \in all /\ all \subseteq NamesOf(own)
        BY <2>10 DEF NamesOf, Distinct, left
      <3>2. /\ l.name \in RungNames /\ l.size = -direction * r
            /\ l.at = entry + direction * Rank(l.name) * (StopTicks - 1)
        BY <2>10 DEF IsRung
      <3>3. r \in Nat /\ d \in Int /\ Rank(l.name) \in Nat
        BY <3>2, RungType, SizeType DEF Rank, RungNames
      <3>4. /\ Contracts(all) = Contracts(left) + r
            /\ Worth(all) = Worth(left) + Earned(l.name)
        BY <3>1, <3>2, WithoutRung
      <3>5. Contracts(all) <= held
        <4>1. Contracts(all) <= Contracts(NamesOf(own))
          BY <3>1, FewerRungs
        <4> QED
          BY <4>1, SumType
      <3>6. /\ Contracts(all) \in Nat /\ Contracts(left) \in Nat
            /\ Worth(all) \in Nat /\ Worth(left) \in Nat
        BY SumType
      <3> HIDE DEF all
      <3>7. h \in Nat /\ r <= h /\ r # 0
        <4>1. r # 0
          BY <2>4, <3>2
        <4> HIDE DEF r
        <4> QED
          BY <3>3, <3>4, <3>5, <3>6, <4>1
      <3>8. Taken(l, was) = -direction * r
        <4> HIDE DEF h, r
        <4>1. ClampReduceOnly(direction * h, -direction * r) = -direction * r
          BY <3>3, <3>7, RungTaken
        <4> QED
          BY <2>9, <3>2, <4>1 DEF Taken, h
      <3>9. l.at = entry + direction * d
        <4>1. direction * Rank(l.name) * (StopTicks - 1) = direction * d
          BY <3>3, SizeType
        <4> QED
          BY <3>2, <4>1
      <3>10. Earned(l.name) = r * d
        BY DEF Earned
      <3>11. it[s].pos = direction * (held - Contracts(all))
        <4> HIDE DEF r, d
        <4>1. CASE direction = 1
          BY <2>6, <2>9, <3>3, <3>4, <3>6, <3>8, <4>1
        <4>2. CASE direction = -1
          BY <2>6, <2>9, <3>3, <3>4, <3>6, <3>8, <4>2
        <4> QED
          BY <4>1, <4>2
      <3>12. it[s].cash + it[s].pos * entry = was.cash + was.pos * entry + r * d
        <4> DEFINE taken == Taken(l, was)
        <4> HIDE DEF r, d, taken
        <4>1. taken = -direction * r
          BY <3>8 DEF taken
        <4>2. (was.cash - taken * l.at) + (was.pos + taken) * entry
                = was.cash + was.pos * entry + r * d
          <5> DEFINE cash == was.cash
                     pos == was.pos
                     at == l.at
          <5>1. r \in Int /\ d \in Int /\ cash \in Int /\ pos \in Int
            BY <2>4, <3>3
          <5>2. at = entry + direction * d
            BY <3>9
          <5> HIDE DEF cash, pos, at
          <5>3. (cash - taken * at) + (pos + taken) * entry = cash + pos * entry + r * d
            BY ONLY <4>1, <5>1, <5>2, RungArithmetic, direction \in {1, -1}, entry \in Int
          <5> QED
            BY <5>3 DEF cash, pos, at
        <4> QED
          BY <2>6, <4>2 DEF taken
      <3>13. it[s].cash + it[s].pos * entry = sim.cash + sim.pos * entry + Worth(all)
        <4>1. sim.pos * entry \in Int /\ was.pos * entry \in Int /\ r * d \in Int
          BY <1>2, <2>4, <3>3
        <4> HIDE DEF r, d
        <4> QED
          BY <1>2, <2>4, <2>9, <3>4, <3>6, <3>10, <3>12, <4>1
      <3> QED
        BY <2>5, <2>6, <3>11, <3>13 DEF all
    <2>11. CASE l \notin own
      <3>1. left = names(s)
        BY <2>11 DEF left
      <3>2. Taken(l, was) = 0
        BY <2>8, <2>11 DEF Own
      <3>3. it[s].pos = was.pos /\ it[s].cash = was.cash
        BY <2>4, <2>6, <3>2
      <3> QED
        BY <2>5, <2>6, <2>9, <3>1, <3>3
    <2> QED
      BY <2>10, <2>11
  <1>5. \A s \in SUBSET fired : s \in Good
    <2> HIDE DEF Good
    <2> QED
      BY <1>3, <1>4, SubsetInduction
  <1>6. Booked(it[fired], names(fired))
    BY <1>5
  <1>7. fired \cap own = own
    BY DEF Own
  <1> QED
    BY <1>1, <1>6, <1>7

\* A stop of this size takes everything, or faces the wrong way.
StopTakes(size, pos) == (pos > 0) = (size > 0) \/ TakesAll(size, pos)

\* The only level of a trade among some.
Alone(l, levels, trade) == Own(levels, trade) = {l}

\* Where the stop of the trade in hand fires and none of its rungs, it takes everything at
\* its price.
LEMMA FireStop ==
  ASSUME NEW sim \in Simulators, NEW fired \in SUBSET Levels, IsFiniteSet(fired),
         NEW entry \in Int, NEW stop,
         Alone(stop, fired, sim.order.trade),
         StopTakes(stop.size, sim.pos),
         sim.pos # 0,
         NEW after, after = FireAll(sim, fired), ~after.strayed
  PROVE  /\ after.pos = 0
         /\ after.cash = sim.cash + sim.pos * entry + sim.pos * (stop.at - entry)
  <1>1. PICK it :
            /\ FireAll(sim, fired) = it[fired]
            /\ it[{}] = sim
            /\ \A s \in SUBSET fired : it[s] \in Simulators
            /\ \A s \in SUBSET fired : s # {} =>
                  \E l \in s : it[s] = Fire(l, it[s \ {l}])
    BY ONLY sim \in Simulators, fired \in SUBSET Levels, IsFiniteSet(fired), FiredOneByOne
  <1> DEFINE Booked(w, gone) ==
               /\ w.order = sim.order
               /\ ~w.strayed =>
                     IF gone
                     THEN w.pos = 0 /\ w.cash = sim.cash + sim.pos * stop.at
                     ELSE w.pos = sim.pos /\ w.cash = sim.cash
             Good == {s \in SUBSET fired : Booked(it[s], stop \in s)}
  <1>2. sim.pos \in Int /\ sim.cash \in Int
    BY DEF Simulators
  <1>3. stop \in fired /\ stop.trade = sim.order.trade
    BY DEF Own, Alone
  <1>4. stop.size \in Int /\ stop.size # 0 /\ stop.at \in Int
    BY <1>3, LevelType
  <1>5. {} \in Good
    BY <1>1
  <1>6. ASSUME NEW s \in SUBSET fired, s # {}
        PROVE  \E x \in s : s \ {x} \in Good => s \in Good
    <2>1. PICK l \in s : it[s] = Fire(l, it[s \ {l}])
      BY <1>1, <1>6
    <2>2. SUFFICES ASSUME s \ {l} \in Good PROVE s \in Good
      BY <2>1, Zenon
    <2> DEFINE was == it[s \ {l}]
    <2>3. was \in Simulators /\ l \in Levels
      BY <1>1
    <2>4. was.pos \in Int /\ was.cash \in Int /\ l.size \in Int /\ l.size # 0 /\ l.at \in Int
      BY <2>3, LevelType DEF Simulators
    <2>5. Booked(was, stop \in s \ {l})
      BY <2>2
    <2>6. /\ it[s].pos = was.pos + Taken(l, was)
          /\ it[s].cash = was.cash - Taken(l, was) * l.at
          /\ it[s].order = was.order
          /\ it[s].strayed = Strays(l, was)
      BY <2>1, <2>3, FireFields
    <2> HIDE DEF was
    <2>7. SUFFICES ASSUME ~it[s].strayed PROVE Booked(it[s], stop \in s)
      <3>1. it[s].order = sim.order
        BY <2>5, <2>6
      <3>2. Booked(it[s], stop \in s)
        BY <2>7, <3>1
      <3> QED
        BY <3>2
    <2>8. /\ ~was.strayed
          /\ Taken(l, was) = 0 \/ l.trade = sim.order.trade
          /\ ~(was.pos # 0 /\ (was.pos > 0) = (l.size > 0))
      BY <2>5, <2>6, <2>7 DEF Strays
    <2>9. CASE l = stop
      <3>1. was.pos = sim.pos /\ was.cash = sim.cash
        BY <2>5, <2>8, <2>9
      <3>2. TakesAll(stop.size, sim.pos)
        BY <2>8, <2>9, <3>1 DEF StopTakes
      <3>3. Taken(l, was) = -sim.pos
        BY <1>2, <1>4, <2>9, <3>1, <3>2, ClampReduces DEF Taken
      <3>4. it[s].pos = 0 /\ it[s].cash = sim.cash + sim.pos * stop.at
        <4>1. (-sim.pos) * stop.at = -(sim.pos * stop.at) /\ sim.pos * stop.at \in Int
          BY <1>2, <1>4
        <4> QED
          BY <1>2, <2>6, <2>9, <3>1, <3>3, <4>1
      <3> QED
        BY <2>5, <2>6, <2>9, <3>4
    <2>10. CASE l # stop
      <3>1. l.trade # sim.order.trade
        BY <2>10 DEF Own, Alone
      <3>2. Taken(l, was) = 0
        BY <2>8, <3>1
      <3>3. it[s].pos = was.pos /\ it[s].cash = was.cash
        BY <2>4, <2>6, <3>2
      <3> QED
        BY <2>5, <2>6, <2>8, <2>10, <3>3
    <2> QED
      BY <2>9, <2>10
  <1>7. \A s \in SUBSET fired : s \in Good
    <2> HIDE DEF Good
    <2> QED
      BY <1>5, <1>6, SubsetInduction
  <1>8. Booked(it[fired], stop \in fired)
    BY <1>7
  <1>9. sim.pos * stop.at = sim.pos * entry + sim.pos * (stop.at - entry)
    BY <1>2, <1>4
  <1>10. sim.pos * stop.at \in Int /\ sim.pos * entry \in Int /\ sim.pos * (stop.at - entry) \in Int
    BY <1>2, <1>4
  <1> QED
    BY <1>1, <1>2, <1>3, <1>8, <1>9, <1>10

(***************************************************************************)
(* What holds of a desk between two steps, and while an entry rests.       *)
(***************************************************************************)

Desks == [sim : Simulators, position : Positions \cup {NoPosition}, equity : Int, filled : Nat,
          flattened : Nat, charged : Int, unprotected : BOOLEAN, unconfirmed : BOOLEAN,
          trades : TradesType, faithful : BOOLEAN]

Tracked(d) == d.position # NoPosition

Direction(d) == d.position.direction
Trade(d) == d.sim.order.trade

\* The desk and what it holds have their types; levels are never of a trade to come.
Typed(d) ==
    /\ d \in Desks
    /\ IsFiniteSet(d.sim.levels)
    /\ \A l \in d.sim.levels : l.trade <= Trade(d)
    /\ Tracked(d) =>
          /\ IsFiniteSet(d.position.levels)
          /\ Trade(d) >= 1
          /\ d.position.stop = d.position.entry - Direction(d) * (StopTicks - 1)

\* The simulator holds nothing that is not tracked, and never more or the other way.
Held(d) ==
    IF Tracked(d) THEN Toward(d.sim.pos, Direction(d) * d.position.remaining)
    ELSE d.sim.pos = 0

\* An order of the trade in hand that closes all a planned entry can hold.
StopRests(sim, direction) ==
    \E l \in sim.levels :
        l.name = "stop" /\ l.trade = sim.order.trade /\ l.size = -direction * Size

\* Unless the report admits to an unprotected position, the stop rests or has done its work.
Guarded(d) ==
    Tracked(d) /\ ~d.unprotected =>
        d.position.protected /\ (d.sim.pos = 0 \/ StopRests(d.sim, Direction(d)))

Balanced(d) ==
    d.equity = Net(d.trades) - d.charged
               + (IF Tracked(d) THEN d.position.realised - d.position.fees ELSE 0)

\* An entry ends in at most a trade and a flatten.
Counted(d) ==
    Len(d.trades) + d.flattened + (IF Tracked(d) THEN 2 ELSE 0) <= 2 * d.filled

IsStop(l, direction, entry) ==
    /\ l.name = "stop"
    /\ l.size \in {-Size, Size}
    /\ l.at = entry - direction * (StopTicks - 1)
    /\ l.rule = IF direction > 0 THEN "below" ELSE "above"

\* The protection of a position: what is left of its ladder, and its stop.
IsLadder(levels, position) ==
    /\ Distinct(levels)
    /\ \A l \in levels : \/ IsStop(l, position.direction, position.entry)
                         \/ IsRung(l, position.direction, position.entry)
    /\ Contracts(NamesOf(levels)) <= position.remaining

\* Where no level strayed, the position is the simulator's, and so is its ladder.
Faith(d) ==
    /\ d.sim.pos = Direction(d) * d.position.remaining
    /\ d.position.realised = Unit * (d.sim.cash + d.sim.pos * d.position.entry)
    /\ d.position.levels = Own(d.sim.levels, Trade(d))
    /\ IsLadder(d.position.levels, d.position)
    /\ ~d.position.protected => d.position.remaining = Size /\ d.position.levels = {}

Faithful(d) == d.faithful /\ (Tracked(d) /\ ~d.sim.strayed => Faith(d))

Kept(d) ==
    /\ Typed(d) /\ d.sim.order.status # "open"
    /\ Held(d)
    /\ Balanced(d)
    /\ Counted(d)
    /\ Faithful(d)

DeskOK(d) == Kept(d) /\ Guarded(d)

\* An entry rests, or has just filled: only levels of earlier trades can touch it.
Awaits(sim) ==
    /\ sim.order.status \in {"open", "filled"}
    /\ sim.order.trade >= 1
    /\ sim.order.size \in {-Size, Size}
    /\ \A l \in sim.levels : l.trade < sim.order.trade
    /\ sim.order.status = "open" => sim.pos = 0 /\ sim.cash = 0 /\ ~sim.strayed
    /\ sim.order.status = "filled" =>
          /\ Toward(sim.pos, sim.order.size)
          /\ ~sim.strayed => /\ sim.pos = sim.order.size
                             /\ sim.cash = -(sim.order.size * sim.order.limit)

Waiting(d) ==
    /\ Typed(d) /\ ~Tracked(d)
    /\ Awaits(d.sim)
    /\ Balanced(d)
    /\ Counted(d)
    /\ d.faithful

(***************************************************************************)
(* A walk of the market.                                                   *)
(***************************************************************************)

\* What a price reaches of the levels that rest.
Reached(sim, price) == {l \in sim.levels : Triggered(l, price)}

\* The simulator once the market is at a price and the entry, if any, has filled.
At(sim, price) == MaybeFill([sim EXCEPT !.last = price])

LEMMA AdvanceFires ==
  ASSUME NEW sim, NEW price
  PROVE  Advance(sim, price)
           = [FireAll(At(sim, price), Reached(At(sim, price), price))
                EXCEPT !.levels = @ \ Reached(At(sim, price), price)]
  BY Zenon DEF Advance, At, Reached, FireAll

\* How a simulator may move from one price to the next once nothing waits to fill.
Moves(after, sim) ==
    /\ after \in Simulators
    /\ after.levels \subseteq sim.levels
    /\ after.order = sim.order
    /\ Toward(after.pos, sim.pos)
    /\ sim.strayed => after.strayed
    /\ sim.pos = 0 => after.cash = sim.cash /\ after.strayed = sim.strayed
    /\ \A l \in sim.levels :
          TakesAll(l.size, sim.pos) => after.pos = 0 \/ l \in after.levels

LEMMA AdvanceMoves ==
  ASSUME NEW sim, NEW price \in Int,
         At(sim, price) \in Simulators, IsFiniteSet(At(sim, price).levels)
  PROVE  /\ Moves(Advance(sim, price), At(sim, price))
         /\ Advance(sim, price).last = At(sim, price).last
         /\ Advance(sim, price).levels
              = At(sim, price).levels \ Reached(At(sim, price), price)
  <1> DEFINE now == At(sim, price)
             fired == Reached(now, price)
             after == FireAll(now, fired)
  <1>1. fired \in SUBSET Levels /\ fired \subseteq now.levels /\ IsFiniteSet(fired)
    BY FS_Subset DEF Reached, Simulators
  <1>2. /\ after \in Simulators
        /\ after.order = now.order /\ after.levels = now.levels /\ after.last = now.last
        /\ Toward(after.pos, now.pos)
        /\ now.strayed => after.strayed
        /\ \A l \in fired : TakesAll(l.size, now.pos) => after.pos = 0
        /\ now.pos = 0 => after.cash = now.cash /\ after.strayed = now.strayed
    <2> HIDE DEF now, fired
    <2> QED
      BY <1>1, FireAllKeeps DEF now
  <1>3. Advance(sim, price) = [after EXCEPT !.levels = after.levels \ fired]
    BY AdvanceFires
  <1>4. now.levels \in SUBSET Levels
    BY DEF Simulators
  <1> HIDE DEF after, fired, now
  <1> DEFINE done == Advance(sim, price)
  <1>5. /\ done.pos = after.pos /\ done.order = after.order /\ done.last = after.last
        /\ done.cash = after.cash /\ done.strayed = after.strayed
        /\ done.levels = now.levels \ fired
        /\ done \in Simulators
    BY <1>2, <1>3, <1>4 DEF Simulators
  <1> HIDE DEF done
  <1>6. Moves(done, now)
    BY <1>2, <1>5, Zenon DEF Moves
  <1> QED
    BY <1>2, <1>5, <1>6 DEF done, now, fired

\* What a fired set of levels leaves is what it took: position, cash, straying.
LEMMA AdvanceBooks ==
  ASSUME NEW sim, NEW price \in Int,
         At(sim, price) \in Simulators, IsFiniteSet(At(sim, price).levels)
  PROVE  /\ Reached(At(sim, price), price) \in SUBSET Levels
         /\ IsFiniteSet(Reached(At(sim, price), price))
         /\ \E after :
              /\ after = FireAll(At(sim, price), Reached(At(sim, price), price))
              /\ Advance(sim, price).pos = after.pos
              /\ Advance(sim, price).cash = after.cash
              /\ Advance(sim, price).strayed = after.strayed
  <1> DEFINE now == At(sim, price)
             fired == Reached(now, price)
             after == FireAll(now, fired)
  <1>1. fired \in SUBSET Levels /\ IsFiniteSet(fired)
    BY FS_Subset DEF Reached, Simulators
  <1>2. after \in Simulators
    <2> HIDE DEF now, fired
    <2> QED
      BY <1>1, FireAllKeeps DEF now
  <1>3. Advance(sim, price) = [after EXCEPT !.levels = after.levels \ fired]
    BY AdvanceFires
  <1> HIDE DEF after, fired, now
  <1>4. /\ Advance(sim, price).pos = after.pos
        /\ Advance(sim, price).cash = after.cash
        /\ Advance(sim, price).strayed = after.strayed
    BY <1>2, <1>3 DEF Simulators
  <1> QED
    BY <1>1, <1>4 DEF after, fired, now

LEMMA AtIdle ==
  ASSUME NEW sim \in Simulators, IsFiniteSet(sim.levels), sim.order.status # "open",
         NEW price \in Int
  PROVE  /\ At(sim, price) = [sim EXCEPT !.last = price]
         /\ At(sim, price) \in Simulators
         /\ At(sim, price).pos = sim.pos /\ At(sim, price).order = sim.order
         /\ At(sim, price).levels = sim.levels /\ At(sim, price).cash = sim.cash
         /\ At(sim, price).strayed = sim.strayed /\ At(sim, price).last = price
  <1> DEFINE now == [sim EXCEPT !.last = price]
  <1>1. now.order = sim.order /\ now \in Simulators
    BY DEF Simulators
  <1>2. At(sim, price) = now
    BY <1>1, Zenon DEF At, MaybeFill
  <1> QED
    BY <1>1, <1>2 DEF Simulators

LEMMA IdleMoves ==
  ASSUME NEW sim \in Simulators, IsFiniteSet(sim.levels), sim.order.status # "open",
         NEW price \in Int
  PROVE  /\ Moves(Advance(sim, price), sim) /\ IsFiniteSet(Advance(sim, price).levels)
         /\ Advance(sim, price).last = price
  <1>1. /\ At(sim, price) \in Simulators /\ IsFiniteSet(At(sim, price).levels)
        /\ At(sim, price).pos = sim.pos /\ At(sim, price).order = sim.order
        /\ At(sim, price).levels = sim.levels /\ At(sim, price).cash = sim.cash
        /\ At(sim, price).strayed = sim.strayed /\ At(sim, price).last = price
    BY AtIdle
  <1>2. /\ Moves(Advance(sim, price), At(sim, price))
        /\ Advance(sim, price).last = price
    BY <1>1, AdvanceMoves
  <1>3. Moves(Advance(sim, price), sim)
    BY <1>1, <1>2, Zenon DEF Moves
  <1>4. IsFiniteSet(Advance(sim, price).levels)
    BY <1>3, FS_Subset DEF Moves
  <1> QED
    BY <1>2, <1>3, <1>4

\* A walk moves it three times.
LEMMA WalkMoves ==
  ASSUME NEW sim \in Simulators, IsFiniteSet(sim.levels), sim.order.status # "open",
         NEW a \in Int, NEW b \in Int, NEW c \in Int
  PROVE  /\ Moves(Walk(sim, <<a, b, c>>), sim)
         /\ IsFiniteSet(Walk(sim, <<a, b, c>>).levels)
         /\ Walk(sim, <<a, b, c>>).last = c
  <1> DEFINE one == Advance(sim, a)
             two == Advance(one, b)
             three == Advance(two, c)
  <1>1. Walk(sim, <<a, b, c>>) = three
    BY DEF Walk
  <1>2. Moves(one, sim) /\ IsFiniteSet(one.levels)
    BY IdleMoves
  <1>3. one \in Simulators /\ one.order.status # "open"
    BY <1>2 DEF Moves
  <1> HIDE DEF one
  <1>4. Moves(two, one) /\ IsFiniteSet(two.levels)
    BY <1>2, <1>3, IdleMoves
  <1>5. two \in Simulators /\ two.order.status # "open"
    BY <1>3, <1>4 DEF Moves
  <1> HIDE DEF two
  <1>6. Moves(three, two) /\ IsFiniteSet(three.levels) /\ three.last = c
    BY <1>4, <1>5, IdleMoves
  <1> HIDE DEF three
  <1>7. ASSUME NEW x, NEW y, NEW z, x \in Simulators, Moves(y, x), Moves(z, y)
        PROVE  Moves(z, x)
    <2>1. x.pos \in Int /\ y.pos \in Int /\ z.pos \in Int /\ \A l \in x.levels : l.size \in Int
      BY <1>7, LevelType DEF Moves, Simulators
    <2>2. Toward(z.pos, x.pos) /\ (x.pos = 0 => y.pos = 0)
      BY <1>7, <2>1 DEF Moves, Toward
    <2>3. ASSUME NEW l \in x.levels, TakesAll(l.size, x.pos)
          PROVE  z.pos = 0 \/ l \in z.levels
      <3>1. CASE y.pos = 0
        BY <1>7, <2>1, <3>1 DEF Moves, Toward
      <3>2. CASE y.pos # 0
        <4>1. l \in y.levels
          BY <1>7, <2>3, <3>2 DEF Moves
        <4>2. TakesAll(l.size, y.pos)
          BY <1>7, <2>1, <2>3, <3>2 DEF Moves, Toward, TakesAll
        <4> QED
          BY <1>7, <4>1, <4>2 DEF Moves
      <3> QED
        BY <3>1, <3>2
    <2>4. z.levels \subseteq x.levels /\ z.order = x.order
      BY <1>7 DEF Moves
    <2>5. x.pos = 0 => z.cash = x.cash /\ z.strayed = x.strayed
      BY <1>7, <2>2 DEF Moves
    <2>6. x.strayed => z.strayed
      BY <1>7 DEF Moves
    <2> QED
      BY <1>7, <2>2, <2>3, <2>4, <2>5, <2>6 DEF Moves
  <1>8. Moves(two, sim)
    BY <1>2, <1>4, <1>7
  <1>9. Moves(three, sim)
    BY <1>6, <1>7, <1>8
  <1> QED
    BY <1>1, <1>6, <1>9

\* Levels of other trades that do not stray do nothing.
LEMMA FireOthers ==
  ASSUME NEW sim \in Simulators, NEW fired \in SUBSET Levels, IsFiniteSet(fired),
         Own(fired, sim.order.trade) = {},
         NEW after, after = FireAll(sim, fired), ~after.strayed
  PROVE  after.pos = sim.pos /\ after.cash = sim.cash
  <1> DEFINE direction == IF sim.pos >= 0 THEN 1 ELSE -1
             held == IF sim.pos >= 0 THEN sim.pos ELSE -sim.pos
             own == Own(fired, sim.order.trade)
             entry == 0
  <1>1. sim.pos \in Int /\ sim.cash \in Int
    BY DEF Simulators
  <1>2. direction \in {1, -1} /\ held \in Nat /\ sim.pos = direction * held
    BY <1>1
  <1> HIDE DEF direction, held
  <1>3. own = {} /\ NamesOf(own) = {} /\ Contracts(NamesOf(own)) = 0 /\ Worth(NamesOf(own)) = 0
    BY DEF NamesOf, Contracts, Worth
  <1>4. Distinct(own) /\ \A l \in own : IsRung(l, direction, entry)
    BY <1>3 DEF Distinct
  <1> HIDE DEF own
  <1>5. Contracts(NamesOf(own)) <= held /\ entry \in Int
    BY <1>2, <1>3
  <1> HIDE DEF entry
  <1>6. /\ after.pos = direction * (held - Contracts(NamesOf(own)))
        /\ after.cash + after.pos * entry = sim.cash + sim.pos * entry + Worth(NamesOf(own))
    <2>1. own = Own(fired, sim.order.trade)
      BY DEF own
    <2>2. Distinct(own) /\ \A l \in own : IsRung(l, direction, entry)
      BY <1>4
    <2> QED
      BY ONLY <1>2, <1>5, <2>1, <2>2, FireRungs, sim \in Simulators, fired \in SUBSET Levels,
              IsFiniteSet(fired), after = FireAll(sim, fired), ~after.strayed
  <1>7. after \in Simulators
    BY FireAllKeeps
  <1>8. after.cash \in Int /\ after.pos \in Int
    BY <1>7 DEF Simulators
  <1>9. after.pos = sim.pos
    BY <1>2, <1>3, <1>6
  <1>10. after.cash = sim.cash
    <2>1. after.pos * entry = 0 /\ sim.pos * entry = 0 /\ entry = 0
      BY <1>1, <1>8 DEF entry
    <2> QED
      BY <1>1, <1>3, <1>6, <1>8, <2>1
  <1> QED
    BY <1>9, <1>10

LEMMA AtAwaiting ==
  ASSUME NEW sim \in Simulators, IsFiniteSet(sim.levels), Awaits(sim), NEW price \in Int
  PROVE  /\ At(sim, price) \in Simulators
         /\ At(sim, price).levels = sim.levels
         /\ At(sim, price).order.trade = sim.order.trade
         /\ At(sim, price).last = price
         /\ Awaits(At(sim, price))
  <1> DEFINE now == [sim EXCEPT !.last = price]
             order == sim.order
             filled == [now EXCEPT !.order.status = "filled"]
  <1>1. now \in Simulators /\ now.levels = sim.levels /\ now.order = order /\ now.last = price
        /\ now.pos = sim.pos /\ now.cash = sim.cash /\ now.strayed = sim.strayed
    BY DEF Simulators
  <1>2. \/ At(sim, price) = now
        \/ /\ order.status = "open"
           /\ At(sim, price) = ApplyFill(filled, order.size, order.limit)
    BY <1>1, Zenon DEF At, MaybeFill
  <1>3. CASE At(sim, price) = now
    BY <1>1, <1>3, Zenon DEF Awaits
  <1>4. CASE order.status = "open" /\ At(sim, price) = ApplyFill(filled, order.size, order.limit)
    <2> DEFINE cost == order.size * order.limit
               after == [sim EXCEPT !.last = price, !.order.status = "filled",
                                    !.pos = order.size, !.cash = -cost]
    <2>1. order.size \in Int /\ order.limit \in Int /\ order \in Entries
      BY SizeType DEF Simulators, Entries
    <2>2. cost \in Int
      BY <2>1
    <2> HIDE DEF cost
    <2>3. sim.pos = 0 /\ sim.cash = 0 /\ ~sim.strayed /\ order.size \in {-Size, Size}
      BY <1>4 DEF Awaits
    <2>4. filled = [sim EXCEPT !.last = price, !.order.status = "filled"]
      BY DEF Simulators
    <2>5. ApplyFill(filled, order.size, order.limit)
            = [filled EXCEPT !.pos = 0 + order.size, !.cash = 0 - cost]
      BY <1>1, <2>3, <2>4 DEF ApplyFill, Simulators, cost
    <2>6. 0 + order.size = order.size /\ 0 - cost = -cost
      BY <2>1, <2>2
    <2>7. At(sim, price) = after
      BY <1>4, <2>4, <2>5, <2>6
    <2>8. /\ after \in Simulators /\ after.levels = sim.levels /\ after.last = price
          /\ after.pos = order.size /\ after.cash = -cost /\ after.strayed = sim.strayed
          /\ after.order = [order EXCEPT !.status = "filled"]
      <3> DEFINE done == [order EXCEPT !.status = "filled"]
      <3>1. done \in Entries
        BY <2>1 DEF Entries
      <3>2. after = [sim EXCEPT !.last = price, !.order = done, !.pos = order.size,
                                !.cash = -cost]
        BY DEF Simulators
      <3>3. -cost \in Int
        BY <2>2
      <3> HIDE DEF done, after
      <3>4. /\ after.levels = sim.levels /\ after.last = price
            /\ after.pos = order.size /\ after.cash = -cost /\ after.strayed = sim.strayed
            /\ after.order = done
        BY <3>2 DEF Simulators
      <3>5. after \in Simulators
        BY <2>1, <3>1, <3>2, <3>3 DEF Simulators
      <3> QED
        BY <3>4, <3>5 DEF done
    <2> HIDE DEF after
    <2>9. /\ after.order.trade = order.trade /\ after.order.status = "filled"
          /\ after.order.size = order.size /\ after.order.limit = order.limit
      BY <2>1, <2>8 DEF Entries
    <2>10. Toward(after.pos, after.order.size)
      BY <2>1, <2>8, <2>9 DEF Toward
    <2>11. Awaits(after)
      BY <2>8, <2>9, <2>10 DEF Awaits, cost
    <2> QED
      BY <2>7, <2>8, <2>9, <2>11
  <1> QED
    BY <1>2, <1>3, <1>4

LEMMA AdvanceAwaits ==
  ASSUME NEW sim \in Simulators, IsFiniteSet(sim.levels), Awaits(sim), NEW price \in Int
  PROVE  LET after == Advance(sim, price)
         IN /\ after \in Simulators /\ IsFiniteSet(after.levels) /\ Awaits(after)
            /\ after.levels \subseteq sim.levels
            /\ after.order.trade = sim.order.trade
  <1> DEFINE now == At(sim, price)
             fired == Reached(now, price)
             after == Advance(sim, price)
  <1>1. /\ now \in Simulators /\ now.levels = sim.levels /\ Awaits(now)
        /\ now.order.trade = sim.order.trade
    BY AtAwaiting
  <1>2. Moves(after, now)
    BY <1>1, AdvanceMoves
  <1>3. PICK burst : /\ burst = FireAll(now, fired)
                     /\ after.pos = burst.pos /\ after.cash = burst.cash
                     /\ after.strayed = burst.strayed
                     /\ fired \in SUBSET Levels /\ IsFiniteSet(fired)
    BY <1>1, AdvanceBooks
  <1>4. Own(fired, now.order.trade) = {}
    <2>1. \A l \in fired : l.trade < now.order.trade /\ l.trade \in Int /\ now.order.trade \in Int
      BY <1>1, LevelType, SizeType DEF Awaits, Reached, Simulators, Entries, Levels
    <2>2. \A l \in fired : l.trade # now.order.trade
      BY <2>1
    <2> QED
      BY <2>2 DEF Own
  <1> HIDE DEF now, fired, after
  <1>5. ~after.strayed => after.pos = now.pos /\ after.cash = now.cash
    BY <1>1, <1>3, <1>4, FireOthers
  <1>6. /\ now.pos \in Int /\ after.pos \in Int /\ after.order = now.order
        /\ now.order.size \in Int
    BY <1>1, <1>2, SizeType DEF Moves, Simulators, Entries
  <1>7. Awaits(after)
    <2>1. /\ after.order.status \in {"open", "filled"} /\ after.order.trade >= 1
          /\ after.order.size \in {-Size, Size}
          /\ \A l \in after.levels : l.trade < after.order.trade
      BY <1>1, <1>2, <1>6 DEF Awaits, Moves
    <2>2. ASSUME after.order.status = "open"
          PROVE  after.pos = 0 /\ after.cash = 0 /\ ~after.strayed
      <3>1. now.pos = 0 /\ now.cash = 0 /\ ~now.strayed
        BY <1>1, <1>6, <2>2 DEF Awaits
      <3>2. after.cash = now.cash /\ after.strayed = now.strayed
        BY <1>2, <3>1 DEF Moves
      <3> QED
        BY <1>5, <3>1, <3>2
    <2>3. ASSUME after.order.status = "filled"
          PROVE  /\ Toward(after.pos, after.order.size)
                 /\ ~after.strayed => /\ after.pos = after.order.size
                                      /\ after.cash = -(after.order.size * after.order.limit)
      <3>1. /\ Toward(now.pos, after.order.size)
            /\ ~now.strayed => /\ now.pos = after.order.size
                               /\ now.cash = -(after.order.size * after.order.limit)
        BY <1>1, <1>6, <2>3 DEF Awaits
      <3>2. Toward(after.pos, now.pos) /\ (now.strayed => after.strayed)
        BY <1>2 DEF Moves
      <3>3. Toward(after.pos, after.order.size)
        BY <1>6, <3>1, <3>2 DEF Toward
      <3> QED
        BY <1>5, <3>1, <3>2, <3>3
    <2> QED
      BY <2>1, <2>2, <2>3 DEF Awaits
  <1>8. after \in Simulators /\ after.levels \subseteq sim.levels
    BY <1>1, <1>2 DEF Moves
  <1>9. IsFiniteSet(after.levels)
    BY <1>8, FS_Subset
  <1> QED
    BY <1>1, <1>6, <1>7, <1>8, <1>9 DEF after

LEMMA WalkAwaits ==
  ASSUME NEW sim \in Simulators, IsFiniteSet(sim.levels), Awaits(sim),
         NEW a \in Int, NEW b \in Int, NEW c \in Int
  PROVE  LET after == Walk(sim, <<a, b, c>>)
         IN /\ after \in Simulators /\ IsFiniteSet(after.levels) /\ Awaits(after)
            /\ after.levels \subseteq sim.levels
            /\ after.order.trade = sim.order.trade
  <1> DEFINE one == Advance(sim, a)
             two == Advance(one, b)
             three == Advance(two, c)
  <1>1. Walk(sim, <<a, b, c>>) = three
    BY DEF Walk
  <1>2. /\ one \in Simulators /\ IsFiniteSet(one.levels) /\ Awaits(one)
        /\ one.levels \subseteq sim.levels /\ one.order.trade = sim.order.trade
    BY AdvanceAwaits
  <1> HIDE DEF one
  <1>3. /\ two \in Simulators /\ IsFiniteSet(two.levels) /\ Awaits(two)
        /\ two.levels \subseteq one.levels /\ two.order.trade = one.order.trade
    BY <1>2, AdvanceAwaits
  <1> HIDE DEF two
  <1>4. /\ three \in Simulators /\ IsFiniteSet(three.levels) /\ Awaits(three)
        /\ three.levels \subseteq two.levels /\ three.order.trade = two.order.trade
    BY <1>3, AdvanceAwaits
  <1> HIDE DEF three
  <1> QED
    BY <1>1, <1>2, <1>3, <1>4

(***************************************************************************)
(* The market and the ladder of a position.                                *)
(***************************************************************************)

\* A position's ladder is what rests of its trade and what is gone.
OnLadder(sim, position) ==
    /\ Own(sim.levels, sim.order.trade) = position.levels \cap sim.levels
    /\ \A l \in position.levels : l \in Levels /\ l.trade = sim.order.trade

Spent(sim, position) == position.levels \ sim.levels

\* Rungs have taken what they are for; worth is what the position was worth at its entry,
\* with the cash that went into it.
Climbed(sim, position, worth) ==
    LET names == NamesOf(Spent(sim, position))
    IN /\ \A l \in Spent(sim, position) : l.name # "stop"
       /\ sim.pos = position.direction * (position.remaining - Contracts(names))
       /\ sim.cash + sim.pos * position.entry = worth + Worth(names)

\* The stop has taken all of it.
Stopped(sim, position, worth) ==
    /\ \E l \in Spent(sim, position) : l.name = "stop"
    /\ sim.pos = 0
    /\ sim.cash = worth - position.remaining * (StopTicks - 1)

LEMMA PositionType ==
  ASSUME NEW p \in Positions
  PROVE  /\ p.direction \in {1, -1} /\ p.entry \in Int /\ p.remaining \in 1..Size
         /\ p.remaining \in Nat /\ p.remaining > 0 /\ p.remaining <= Size
         /\ p.size = Size /\ p.stop \in Int /\ p.fees \in Int /\ p.realised \in Int
         /\ p.protected \in BOOLEAN /\ p.levels \in SUBSET Levels
  <1>1. /\ p.direction \in {1, -1} /\ p.entry \in Int /\ p.remaining \in 1..Size
        /\ p.size = Size /\ p.stop \in Int /\ p.fees \in Int /\ p.realised \in Int
        /\ p.protected \in BOOLEAN /\ p.levels \in SUBSET Levels
    BY DEF Positions
  <1> QED
    BY <1>1, SizeType

\* Of a set of levels with their names, a part and the rest.
LEMMA SplitLevels ==
  ASSUME NEW all, Distinct(all), NEW some \in SUBSET all
  PROVE  /\ Contracts(NamesOf(all)) = Contracts(NamesOf(some)) + Contracts(NamesOf(all \ some))
         /\ Worth(NamesOf(all)) = Worth(NamesOf(some)) + Worth(NamesOf(all \ some))
  BY NamesApart, SplitRungs

LEMMA StaysOnLadder ==
  ASSUME NEW p, NEW sim, OnLadder(sim, p), NEW after, Moves(after, sim)
  PROVE  OnLadder(after, p) /\ Spent(sim, p) \subseteq Spent(after, p)
  BY DEF OnLadder, Moves, Own, Spent

LEMMA ClimbOn ==
  ASSUME NEW p \in Positions, IsLadder(p.levels, p),
         NEW sim \in Simulators, IsFiniteSet(sim.levels), sim.order.status # "open",
         OnLadder(sim, p), NEW worth \in Int, Climbed(sim, p, worth),
         NEW price \in Int,
         \A l \in p.levels : l.name = "stop" => ~Triggered(l, price),
         ~Advance(sim, price).strayed
  PROVE  Climbed(Advance(sim, price), p, worth)
  <1> DEFINE now == At(sim, price)
             fired == Reached(now, price)
             own == Own(fired, now.order.trade)
             after == Advance(sim, price)
             gone == Spent(sim, p)
             going == Spent(after, p)
             direction == p.direction
             entry == p.entry
             held == p.remaining - Contracts(NamesOf(gone))
  <1>1. /\ now \in Simulators /\ now.pos = sim.pos /\ now.order = sim.order
        /\ now.levels = sim.levels /\ now.cash = sim.cash
    BY AtIdle
  <1>2. /\ after.levels = now.levels \ fired
        /\ Moves(after, now)
    BY <1>1, AdvanceMoves
  <1>3. PICK burst : /\ burst = FireAll(now, fired)
                     /\ after.pos = burst.pos /\ after.cash = burst.cash
                     /\ after.strayed = burst.strayed
                     /\ fired \in SUBSET Levels /\ IsFiniteSet(fired)
    BY <1>1, AdvanceBooks
  <1>4. own = p.levels \cap fired /\ \A l \in fired : Triggered(l, price) /\ l \in sim.levels
    BY <1>1 DEF OnLadder, Own, Reached
  <1>5. going = gone \cup own /\ own \cap gone = {} /\ going \ gone = own
        /\ going \subseteq p.levels /\ own \subseteq p.levels
    BY <1>1, <1>2, <1>4 DEF Spent
  <1>6. \A l \in own : l.name # "stop" /\ IsRung(l, direction, entry)
    <2>1. \A l \in own : l.name # "stop"
      BY <1>4
    <2> QED
      BY <1>4, <2>1 DEF IsLadder, IsStop
  <1>7. Distinct(own) /\ Distinct(going)
    BY <1>5 DEF IsLadder, Distinct
  <1>8. direction \in {1, -1} /\ entry \in Int /\ p.remaining \in Nat
    BY PositionType
  <1>9. /\ Contracts(NamesOf(going)) = Contracts(NamesOf(gone)) + Contracts(NamesOf(own))
        /\ Worth(NamesOf(going)) = Worth(NamesOf(gone)) + Worth(NamesOf(own))
    <2> HIDE DEF going, gone, own
    <2>1. gone \in SUBSET going
      BY <1>5
    <2> QED
      BY <1>5, <1>7, <2>1, SplitLevels
  <1>10. Contracts(NamesOf(going)) <= p.remaining
    <2>1. NamesOf(going) \subseteq NamesOf(p.levels)
      BY <1>5 DEF NamesOf
    <2>2. Contracts(NamesOf(going)) <= Contracts(NamesOf(p.levels))
      BY <2>1, FewerRungs
    <2>3. Contracts(NamesOf(p.levels)) <= p.remaining
      BY DEF IsLadder
    <2> QED
      BY <1>8, <2>2, <2>3, SumType
  <1>11. /\ Contracts(NamesOf(going)) \in Nat /\ Contracts(NamesOf(gone)) \in Nat
         /\ Contracts(NamesOf(own)) \in Nat
         /\ Worth(NamesOf(going)) \in Nat /\ Worth(NamesOf(gone)) \in Nat
         /\ Worth(NamesOf(own)) \in Nat
    BY SumType
  <1>12. held \in Nat /\ Contracts(NamesOf(own)) <= held
    BY <1>8, <1>9, <1>10, <1>11
  <1>13. /\ \A l \in gone : l.name # "stop"
         /\ now.pos = direction * held
         /\ now.cash + now.pos * entry = worth + Worth(NamesOf(gone))
    BY <1>1 DEF Climbed
  <1>14. ~burst.strayed
    BY <1>3
  <1>15. own = Own(fired, now.order.trade)
    OBVIOUS
  <1> HIDE DEF now, fired, own, after, gone, going, direction, entry
  <1>16. /\ burst.pos = direction * (held - Contracts(NamesOf(own)))
         /\ burst.cash + burst.pos * entry
              = now.cash + now.pos * entry + Worth(NamesOf(own))
    <2> HIDE DEF held
    <2> QED
      BY ONLY <1>1, <1>3, <1>6, <1>7, <1>8, <1>12, <1>13, <1>14, <1>15, FireRungs
  <1>17. held - Contracts(NamesOf(own)) = p.remaining - Contracts(NamesOf(going))
    BY <1>8, <1>9, <1>11
  <1>18. after.pos = direction * (p.remaining - Contracts(NamesOf(going)))
    BY <1>3, <1>16, <1>17
  <1>19. after.cash + after.pos * entry = worth + Worth(NamesOf(going))
    BY <1>3, <1>9, <1>11, <1>13, <1>16
  <1>20. \A l \in going : l.name # "stop"
    BY <1>5, <1>6, <1>13
  <1> QED
    BY <1>18, <1>19, <1>20 DEF Climbed, after, going, direction, entry

LEMMA StopAlone ==
  ASSUME NEW p \in Positions, NEW stop, IsStop(stop, p.direction, p.entry),
         NEW l, IsRung(l, p.direction, p.entry), NEW price \in Int, Triggered(stop, price)
  PROVE  ~Triggered(l, price)
  <1> DEFINE s == StopTicks - 1
             direction == p.direction
             entry == p.entry
  <1>1. direction \in {1, -1} /\ entry \in Int /\ s \in Nat /\ s > 0
    BY PositionType, SizeType
  <1>2. /\ stop.at = entry - direction * s
        /\ stop.rule = IF direction > 0 THEN "below" ELSE "above"
        /\ l.at = entry + direction * Rank(l.name) * s
        /\ l.rule = IF direction > 0 THEN "above" ELSE "below"
        /\ Rank(l.name) \in {1, 2, 3}
    BY DEF IsStop, IsRung, RungNames, Rank
  <1> HIDE DEF s, direction, entry
  <1> DEFINE k == Rank(l.name)
  <1>3. l.at = IF direction = 1 THEN entry + k * s ELSE entry - k * s
    <2> HIDE DEF k
    <2>1. k \in Int
      BY <1>2 DEF k
    <2>2. CASE direction = 1
      BY <1>1, <1>2, <2>1, <2>2 DEF k
    <2>3. CASE direction = -1
      <3>1. direction * k * s = -(k * s)
        BY <1>1, <2>1, <2>3
      <3>2. k * s \in Int
        BY <1>1, <2>1
      <3> QED
        BY <1>1, <1>2, <2>3, <3>1, <3>2 DEF k
    <2> QED
      BY <1>1, <2>2, <2>3
  <1>4. k \in {1, 2, 3}
    BY <1>2
  <1> HIDE DEF k
  <1>5. k * s \in Nat /\ k * s > 0
    BY <1>1, <1>4
  <1> QED
    BY <1>1, <1>2, <1>3, <1>5 DEF Triggered

LEMMA StopHits ==
  ASSUME NEW p \in Positions, IsLadder(p.levels, p),
         NEW sim \in Simulators, IsFiniteSet(sim.levels), sim.order.status # "open",
         OnLadder(sim, p), p.levels \subseteq sim.levels,
         sim.pos = p.direction * p.remaining,
         NEW worth \in Int, worth = sim.cash + sim.pos * p.entry,
         NEW price \in Int,
         NEW stop \in p.levels, stop.name = "stop", Triggered(stop, price),
         ~Advance(sim, price).strayed
  PROVE  Stopped(Advance(sim, price), p, worth)
  <1> DEFINE now == At(sim, price)
             fired == Reached(now, price)
             after == Advance(sim, price)
             direction == p.direction
             entry == p.entry
             remaining == p.remaining
             s == StopTicks - 1
  <1>1. /\ now \in Simulators /\ now.pos = sim.pos /\ now.order = sim.order
        /\ now.levels = sim.levels /\ now.cash = sim.cash
    BY AtIdle
  <1>2. after.levels = now.levels \ fired
    BY <1>1, AdvanceMoves
  <1>3. PICK burst : /\ burst = FireAll(now, fired)
                     /\ after.pos = burst.pos /\ after.cash = burst.cash
                     /\ after.strayed = burst.strayed
                     /\ fired \in SUBSET Levels /\ IsFiniteSet(fired)
    BY <1>1, AdvanceBooks
  <1>4. IsStop(stop, direction, entry)
    BY DEF IsLadder, IsRung, RungNames
  <1>5. Alone(stop, fired, now.order.trade)
    <2>1. Own(fired, now.order.trade) = p.levels \cap fired
      BY <1>1 DEF OnLadder, Own, Reached
    <2>2. stop \in fired
      BY <1>1 DEF Reached
    <2>3. ASSUME NEW l \in p.levels \cap fired PROVE l = stop
      <3>1. Triggered(l, price)
        BY DEF Reached
      <3>2. ~IsRung(l, direction, entry)
        BY <1>4, <3>1, StopAlone
      <3>3. l.name = "stop"
        BY <3>2 DEF IsLadder, IsStop
      <3> QED
        BY <3>3 DEF IsLadder, Distinct
    <2> QED
      BY <2>1, <2>2, <2>3 DEF Alone
  <1>6. /\ direction \in {1, -1} /\ entry \in Int /\ remaining \in Nat /\ remaining > 0
        /\ remaining <= Size
    BY PositionType
  <1>7. stop.size \in {-Size, Size} /\ stop.at = entry - direction * s
    BY <1>4 DEF IsStop
  <1>8. stop \in p.levels \ after.levels
    BY <1>2, <1>5 DEF Own, Alone
  <1>9. ~burst.strayed
    BY <1>3
  <1>10. now.pos = direction * remaining /\ worth = now.cash + now.pos * entry
    BY <1>1
  <1> HIDE DEF now, fired, after, direction, entry, remaining
  <1>11. now.pos # 0 /\ StopTakes(stop.size, now.pos)
    <2>1. CASE direction = 1
      BY <1>6, <1>7, <1>10, <2>1, SizeType DEF TakesAll, StopTakes
    <2>2. CASE direction = -1
      BY <1>6, <1>7, <1>10, <2>2, SizeType DEF TakesAll, StopTakes
    <2> QED
      BY <1>6, <2>1, <2>2
  <1>12. /\ burst.pos = 0
         /\ burst.cash = now.cash + now.pos * entry + now.pos * (stop.at - entry)
    <2>1. now \in Simulators /\ fired \in SUBSET Levels /\ IsFiniteSet(fired) /\ entry \in Int
      BY <1>1, <1>3, <1>6
    <2>2. Alone(stop, fired, now.order.trade) /\ StopTakes(stop.size, now.pos) /\ now.pos # 0
      BY <1>5, <1>11
    <2>3. ~FireAll(now, fired).strayed
      BY <1>3, <1>9
    <2>4. /\ FireAll(now, fired).pos = 0
          /\ FireAll(now, fired).cash = now.cash + now.pos * entry + now.pos * (stop.at - entry)
      BY ONLY <2>1, <2>2, <2>3, FireStop
    <2> QED
      BY ONLY <1>3, <2>4
  <1>13. now.pos * (stop.at - entry) = -(remaining * s)
    <2>1. s \in Int
      BY SizeType
    <2> HIDE DEF s
    <2>2. CASE direction = 1
      <3>1. now.pos = remaining /\ stop.at - entry = -s
        BY <1>6, <1>7, <1>10, <2>1, <2>2
      <3> QED
        BY <1>6, <2>1, <3>1
    <2>3. CASE direction = -1
      <3>1. now.pos = -remaining /\ stop.at - entry = s
        BY <1>6, <1>7, <1>10, <2>1, <2>3
      <3> QED
        BY <1>6, <2>1, <3>1
    <2> QED
      BY <1>6, <2>2, <2>3
  <1>14. burst.cash = worth - remaining * s
    <2>1. remaining * s \in Int
      BY <1>6, SizeType
    <2> HIDE DEF s
    <2> QED
      BY <1>10, <1>12, <1>13, <2>1
  <1> QED
    BY <1>3, <1>8, <1>12, <1>14 DEF Stopped, Spent, after, remaining

LEMMA StopStays ==
  ASSUME NEW p, NEW sim \in Simulators, NEW after, Moves(after, sim), NEW worth,
         Stopped(sim, p, worth)
  PROVE  Stopped(after, p, worth)
  <1>1. after.pos = 0
    BY DEF Moves, Stopped, Toward, Simulators
  <1>2. after.cash = sim.cash
    BY DEF Moves, Stopped
  <1>3. \E l \in Spent(after, p) : l.name = "stop"
    BY DEF Moves, Stopped, Spent
  <1> QED
    BY <1>1, <1>2, <1>3 DEF Stopped

\* The first price that a walk shows is the worst: a stop that it does not reach is not
\* reached at all.
LEMMA WorstFirst ==
  ASSUME NEW direction \in {1, -1}, NEW entry \in Int, NEW l, IsStop(l, direction, entry),
         NEW a \in Int, NEW b \in Int, direction * (b - a) >= 0, ~Triggered(l, a)
  PROVE  ~Triggered(l, b)
  <1>1. l.at \in Int /\ l.rule = IF direction > 0 THEN "below" ELSE "above"
    <2>1. StopTicks - 1 \in Int
      BY SizeType
    <2> QED
      BY <2>1 DEF IsStop
  <1>2. CASE direction = 1
    BY <1>1, <1>2 DEF Triggered
  <1>3. CASE direction = -1
    BY <1>1, <1>3 DEF Triggered
  <1> QED
    BY <1>2, <1>3

\* After a walk that begins with the worst, rungs took what they are for, or the stop took
\* it all before any of them.
LEMMA WalkLadder ==
  ASSUME NEW p \in Positions, IsLadder(p.levels, p),
         NEW sim \in Simulators, IsFiniteSet(sim.levels), sim.order.status # "open",
         OnLadder(sim, p), p.levels \subseteq sim.levels,
         sim.pos = p.direction * p.remaining,
         NEW worth \in Int, worth = sim.cash + sim.pos * p.entry,
         NEW a \in Int, NEW b \in Int, NEW c \in Int,
         p.direction * (b - a) >= 0, p.direction * (c - a) >= 0,
         ~Walk(sim, <<a, b, c>>).strayed
  PROVE  /\ OnLadder(Walk(sim, <<a, b, c>>), p)
         /\ \/ Climbed(Walk(sim, <<a, b, c>>), p, worth)
            \/ Stopped(Walk(sim, <<a, b, c>>), p, worth)
  <1> DEFINE one == Advance(sim, a)
             two == Advance(one, b)
             three == Advance(two, c)
  <1>1. Walk(sim, <<a, b, c>>) = three
    BY DEF Walk
  <1>2. Moves(one, sim) /\ IsFiniteSet(one.levels)
    BY IdleMoves
  <1>3. one \in Simulators /\ one.order.status # "open"
    BY <1>2 DEF Moves
  <1>4. OnLadder(one, p)
    BY <1>2, StaysOnLadder
  <1>5. Moves(two, one) /\ IsFiniteSet(two.levels)
    <2> HIDE DEF one
    <2> QED
      BY <1>2, <1>3, IdleMoves
  <1>6. two \in Simulators /\ two.order.status # "open"
    BY <1>3, <1>5 DEF Moves
  <1>7. OnLadder(two, p)
    BY <1>4, <1>5, StaysOnLadder
  <1>8. Moves(three, two)
    <2> HIDE DEF two
    <2> QED
      BY <1>5, <1>6, IdleMoves
  <1>9. OnLadder(three, p)
    BY <1>7, <1>8, StaysOnLadder
  <1>10. ~three.strayed /\ ~two.strayed /\ ~one.strayed
    BY <1>1, <1>5, <1>8 DEF Moves
  <1>11. p.direction \in {1, -1} /\ p.entry \in Int /\ p.remaining \in Nat
    BY PositionType
  <1>12. CASE \E l \in p.levels : l.name = "stop" /\ Triggered(l, a)
    <2>1. Stopped(one, p, worth)
      BY <1>10, <1>12, StopHits
    <2> HIDE DEF one
    <2>2. Stopped(two, p, worth)
      BY <1>3, <1>5, <2>1, StopStays
    <2> HIDE DEF two
    <2>3. Stopped(three, p, worth)
      BY <1>6, <1>8, <2>2, StopStays
    <2> QED
      BY <1>1, <1>9, <2>3
  <1>13. CASE \A l \in p.levels : l.name = "stop" => ~Triggered(l, a)
    <2>1. Climbed(sim, p, worth)
      <3>1. Spent(sim, p) = {}
        BY DEF Spent
      <3>2. NamesOf({}) = {} /\ Contracts({}) = 0 /\ Worth({}) = 0
        BY DEF NamesOf, Contracts, Worth
      <3>3. p.remaining - 0 = p.remaining /\ worth + 0 = worth
        BY <1>11
      <3> QED
        BY <3>1, <3>2, <3>3 DEF Climbed
    <2>2. Climbed(one, p, worth)
      BY <1>10, <1>13, <2>1, ClimbOn
    <2>3. \A l \in p.levels :
             l.name = "stop" => ~Triggered(l, b) /\ ~Triggered(l, c)
      <3>1. ASSUME NEW l \in p.levels, l.name = "stop"
            PROVE  ~Triggered(l, b) /\ ~Triggered(l, c)
        <4>1. IsStop(l, p.direction, p.entry)
          BY <3>1 DEF IsLadder, IsRung, RungNames
        <4> QED
          BY <1>11, <1>13, <3>1, <4>1, WorstFirst
      <3> QED
        BY <3>1
    <2> HIDE DEF one
    <2>4. Climbed(two, p, worth)
      BY <1>2, <1>3, <1>4, <1>10, <2>2, <2>3, ClimbOn
    <2> HIDE DEF two
    <2>5. Climbed(three, p, worth)
      BY <1>5, <1>6, <1>7, <1>10, <2>3, <2>4, ClimbOn
    <2> QED
      BY <1>1, <1>9, <2>5
  <1> QED
    BY <1>12, <1>13

\* Every path begins with the worst for the position's direction.
LEMMA PathWorstFirst ==
  ASSUME NEW b \in Bars, NEW d
  PROVE  /\ \E x, y, z \in Int :
              /\ Path(b, d) = <<x, y, z>>
              /\ d.position # NoPosition /\ d.position.direction \in {1, -1} =>
                    /\ d.position.direction * (y - x) >= 0
                    /\ d.position.direction * (z - x) >= 0
         /\ b.mark \in Int
  <1>1. /\ b.low \in Int /\ b.mark \in Int /\ b.high \in Int
        /\ b.low <= b.mark /\ b.mark <= b.high
    <2>1. Top \in Nat
      BY PaperAssumption
    <2> QED
      BY <2>1 DEF Bars, Prices
  <1>2. CASE d.position # NoPosition /\ d.position.direction < 0
    <2>1. Path(b, d) = <<b.high, b.low, b.mark>>
      BY <1>2 DEF Path
    <2>2. d.position.direction \in {1, -1} => /\ d.position.direction * (b.low - b.high) >= 0
                                              /\ d.position.direction * (b.mark - b.high) >= 0
      BY <1>1, <1>2
    <2> QED
      BY <1>1, <2>1, <2>2, Zenon
  <1>3. CASE ~(d.position # NoPosition /\ d.position.direction < 0)
    <2>1. Path(b, d) = <<b.low, b.high, b.mark>>
      BY <1>3 DEF Path
    <2>2. d.position # NoPosition /\ d.position.direction \in {1, -1} =>
             /\ d.position.direction * (b.high - b.low) >= 0
             /\ d.position.direction * (b.mark - b.low) >= 0
      BY <1>1, <1>3
    <2> QED
      BY <1>1, <2>1, <2>2, Zenon
  <1> QED
    BY <1>2, <1>3

(***************************************************************************)
(* The report's books.                                                     *)
(***************************************************************************)

\* A position of which any number of contracts remains, and a desk that tracks one.
Parts == [direction : {1, -1}, entry : Int, size : {Size}, stop : Int, remaining : Int,
          fees : Int, realised : Int, protected : BOOLEAN, levels : SUBSET Levels]

Ledgers == [sim : Simulators, position : Parts, equity : Int, filled : Nat,
            flattened : Nat, charged : Int, unprotected : BOOLEAN, unconfirmed : BOOLEAN,
            trades : TradesType, faithful : BOOLEAN]

Pnl(p, price, contracts) == p.direction * (price - p.entry) * contracts * Unit

\* The account without what the open trade has booked.
Margin(d) == d.equity - (d.position.realised - d.position.fees)

SamePosition(p, q) ==
    /\ p.direction = q.direction /\ p.entry = q.entry /\ p.size = q.size /\ p.stop = q.stop
    /\ p.protected = q.protected

SameReport(d, e) ==
    /\ d.sim = e.sim /\ d.filled = e.filled /\ d.flattened = e.flattened
    /\ d.charged = e.charged /\ d.unprotected = e.unprotected
    /\ d.unconfirmed = e.unconfirmed /\ d.trades = e.trades /\ d.faithful = e.faithful

\* Booking moves the account by what it adds to the trade.
Booking(e, d) ==
    /\ e \in Ledgers
    /\ SameReport(e, d)
    /\ SamePosition(e.position, d.position)
    /\ e.position.levels \subseteq d.position.levels
    /\ Margin(e) = Margin(d)

LEMMA PartType ==
  ASSUME NEW p \in Parts
  PROVE  /\ p.direction \in {1, -1} /\ p.entry \in Int /\ p.size = Size /\ p.stop \in Int
         /\ p.remaining \in Int /\ p.fees \in Int /\ p.realised \in Int
         /\ p.protected \in BOOLEAN /\ p.levels \in SUBSET Levels
  BY DEF Parts

PartWith(p, realised, fees) == [p EXCEPT !.realised = realised, !.fees = fees]
PartLeft(p, remaining, levels) == [p EXCEPT !.remaining = remaining, !.levels = levels]

LEMMA PartBooked ==
  ASSUME NEW p \in Parts, NEW fees \in Int, NEW realised \in Int
  PROVE  LET q == PartWith(p, realised, fees)
         IN /\ q \in Parts /\ SamePosition(q, p)
            /\ q.remaining = p.remaining /\ q.levels = p.levels
            /\ q.realised = realised /\ q.fees = fees
  BY DEF Parts, SamePosition, PartWith

LEMMA PartLess ==
  ASSUME NEW p \in Parts, NEW remaining \in Int, NEW levels \in SUBSET Levels
  PROVE  LET q == PartLeft(p, remaining, levels)
         IN /\ q \in Parts /\ SamePosition(q, p)
            /\ q.remaining = remaining /\ q.levels = levels
            /\ q.realised = p.realised /\ q.fees = p.fees
  BY DEF Parts, SamePosition, PartLeft

LEMMA BookFillFields ==
  ASSUME NEW d \in Ledgers, NEW price \in Int, NEW contracts \in Int
  PROVE  LET e == BookFill(d, price, contracts)
         IN /\ Booking(e, d)
            /\ e.position.remaining = d.position.remaining
            /\ e.position.levels = d.position.levels
            /\ e.position.realised = d.position.realised + Pnl(d.position, price, contracts)
            /\ e.position.fees = d.position.fees + Taker * contracts
  <1> DEFINE p == d.position
             pnl == Pnl(p, price, contracts)
             fee == Taker * contracts
             e == BookFill(d, price, contracts)
             q == PartWith(p, p.realised + pnl, p.fees + fee)
  <1>1. p \in Parts /\ d.equity \in Int
    BY DEF Ledgers
  <1>2. pnl \in Int /\ fee \in Int
    <2>1. p.direction * (price - p.entry) \in Int
      BY <1>1, PartType
    <2>2. p.direction * (price - p.entry) * contracts \in Int
      BY <2>1
    <2> QED
      BY <2>2, PaperAssumption DEF Pnl
  <1>3. e = [d EXCEPT !.position.realised = @ + pnl, !.position.fees = @ + fee,
                      !.equity = @ + pnl - fee]
    BY Zenon DEF BookFill, Pnl
  <1> HIDE DEF pnl, fee, e
  <1>4. e = [d EXCEPT !.position = q, !.equity = @ + pnl - fee]
    BY <1>1, <1>3 DEF Ledgers, Parts, PartWith
  <1>5. q \in Parts /\ SamePosition(q, p) /\ q.remaining = p.remaining /\ q.levels = p.levels
        /\ q.realised = p.realised + pnl /\ q.fees = p.fees + fee
    <2>1. p.realised + pnl \in Int /\ p.fees + fee \in Int
      BY <1>1, <1>2, PartType
    <2> QED
      BY <1>1, <2>1, PartBooked
  <1> HIDE DEF q
  <1>6. e.position = q /\ e.equity = d.equity + pnl - fee /\ SameReport(e, d)
    BY <1>4 DEF Ledgers, SameReport
  <1>7. d.equity + pnl - fee \in Int
    BY <1>1, <1>2
  <1>8. e \in Ledgers
    BY <1>4, <1>5, <1>7 DEF Ledgers
  <1>9. Margin(e) = Margin(d)
    BY <1>1, <1>2, <1>5, <1>6, PartType DEF Margin
  <1>10. Booking(e, d)
    BY <1>5, <1>6, <1>8, <1>9 DEF Booking
  <1> QED
    BY <1>5, <1>6, <1>10 DEF e, pnl, fee

\* What a level is taken to have closed of what is missing.
Part(name, closed) ==
    IF name \in {"stop", "tp3"} THEN closed ELSE Smaller(closed, Rung(name))

LEMMA BookLevelFields ==
  ASSUME NEW d \in Ledgers, NEW l \in Levels, NEW held \in Int,
         NEW closed, closed = d.position.remaining - held
  PROVE  LET e == BookLevel(d, l, held)
             part == Part(l.name, closed)
         IN /\ closed <= 0 => e = d
            /\ closed > 0 =>
                  /\ part \in Int
                  /\ Booking(e, d)
                  /\ e.position.remaining = d.position.remaining - part
                  /\ e.position.levels = d.position.levels \ {l}
                  /\ e.position.realised = d.position.realised + Pnl(d.position, l.at, part)
  <1> DEFINE p == d.position
             part == Part(l.name, closed)
             filled == BookFill(d, l.at, part)
             e == BookLevel(d, l, held)
  <1>1. p \in Parts /\ closed \in Int /\ l.name \in LevelNames /\ l.at \in Int
    BY LevelType, PartType DEF Ledgers
  <1>2. l.name \notin {"stop", "tp3"} => Chunk(p, l.name) = Rung(l.name)
    BY <1>1, PartType DEF Chunk, Fraction, Rung, RungSize, LevelNames
  <1>3. e = IF closed <= 0 THEN d
            ELSE [filled EXCEPT !.position.remaining = @ - part,
                                !.position.levels = @ \ {l}]
    BY <1>2, Zenon DEF BookLevel, Part
  <1>4. part \in Int
    <2>1. l.name \notin {"stop", "tp3"} => Rung(l.name) \in Nat
      BY <1>1, RungType DEF RungNames, LevelNames
    <2> QED
      BY <1>1, <2>1 DEF Part, Smaller
  <1> HIDE DEF part
  <1>5. /\ Booking(filled, d)
        /\ filled.position.remaining = d.position.remaining
        /\ filled.position.levels = d.position.levels
        /\ filled.position.realised = d.position.realised + Pnl(d.position, l.at, part)
    BY <1>1, <1>4, BookFillFields
  <1> HIDE DEF filled, e
  <1>6. ASSUME closed > 0
        PROVE  /\ Booking(e, d)
               /\ e.position.remaining = d.position.remaining - part
               /\ e.position.levels = d.position.levels \ {l}
               /\ e.position.realised = d.position.realised + Pnl(d.position, l.at, part)
    <2> DEFINE q == PartLeft(filled.position, filled.position.remaining - part,
                             filled.position.levels \ {l})
    <2>1. filled \in Ledgers /\ filled.position \in Parts
      BY <1>5 DEF Booking, Ledgers
    <2>2. ~(closed <= 0)
      BY <1>1, <1>6
    <2>3. e = [filled EXCEPT !.position = q]
      BY <1>3, <2>1, <2>2 DEF Ledgers, Parts, PartLeft
    <2>4. /\ q \in Parts /\ SamePosition(q, filled.position)
          /\ q.remaining = filled.position.remaining - part
          /\ q.levels = filled.position.levels \ {l}
          /\ q.realised = filled.position.realised /\ q.fees = filled.position.fees
      <3>1. /\ filled.position.remaining - part \in Int
            /\ filled.position.levels \ {l} \in SUBSET Levels
        BY <1>4, <2>1, PartType
      <3> QED
        BY <2>1, <3>1, PartLess
    <2> HIDE DEF q
    <2>5. e \in Ledgers /\ e.position = q /\ e.equity = filled.equity /\ SameReport(e, filled)
      BY <2>1, <2>3, <2>4 DEF Ledgers, SameReport
    <2>6. SameReport(e, d) /\ SamePosition(q, d.position)
      BY <1>5, <2>4, <2>5 DEF Booking, SameReport, SamePosition
    <2>7. Margin(e) = Margin(d)
      BY <1>5, <2>4, <2>5 DEF Booking, Margin
    <2>8. Booking(e, d)
      BY <1>5, <2>4, <2>5, <2>6, <2>7 DEF Booking
    <2> QED
      BY <1>5, <2>4, <2>5, <2>8
  <1>7. closed <= 0 => e = d
    BY <1>3
  <1> QED
    BY <1>4, <1>6, <1>7 DEF e, part

\* Settlement books the levels that are gone, the nearest the entry first.
Books(d, held, gone) ==
    MapThenFoldSet(LAMBDA l, e : BookLevel(e, l, held), d, LAMBDA l : l,
                   LAMBDA some : Farthest(d.position, some), gone)

LEMMA FarthestIn ==
  ASSUME NEW p \in Parts, NEW gone \in SUBSET Levels, IsFiniteSet(gone)
  PROVE  \A s \in SUBSET gone : s # {} =>
            Farthest(p, s) \in s /\ \A k \in s : ~Nearer(p, Farthest(p, s), k)
  <1> DEFINE key == [l \in gone |-> 4 * Magnitude(l.at - p.entry) + Rank(l.name)]
  <1>1. ASSUME NEW l \in gone
        PROVE  /\ Magnitude(l.at - p.entry) \in Nat /\ Rank(l.name) \in 0..3
               /\ key[l] = 4 * Magnitude(l.at - p.entry) + Rank(l.name)
    BY LevelType, PartType DEF Magnitude, Rank, LevelNames
  <1>2. \A l \in gone : key[l] \in Int
    BY <1>1
  <1>3. \A s \in SUBSET gone : s # {} => \E x \in s : \A y \in s : key[y] <= key[x]
    <2> HIDE DEF key
    <2> QED
      BY <1>2, GreatestElement
  <1> HIDE DEF key
  <1>4. ASSUME NEW a \in gone, NEW b \in gone, Nearer(p, a, b)
        PROVE  key[a] < key[b]
    <2> DEFINE x == Magnitude(a.at - p.entry)
               y == Magnitude(b.at - p.entry)
    <2>1. x < y \/ (x = y /\ Rank(a.name) < Rank(b.name))
      BY <1>4 DEF Nearer
    <2>2. /\ x \in Nat /\ Rank(a.name) \in 0..3 /\ key[a] = 4 * x + Rank(a.name)
          /\ y \in Nat /\ Rank(b.name) \in 0..3 /\ key[b] = 4 * y + Rank(b.name)
      BY <1>1
    <2> HIDE DEF x, y
    <2> QED
      BY <2>1, <2>2
  <1>5. ASSUME NEW s \in SUBSET gone, s # {}
        PROVE  Farthest(p, s) \in s /\ \A k \in s : ~Nearer(p, Farthest(p, s), k)
    <2>1. PICK x \in s : \A y \in s : key[y] <= key[x]
      BY <1>3, <1>5
    <2>2. \A k \in s : ~Nearer(p, x, k)
      <3>1. ASSUME NEW k \in s, Nearer(p, x, k) PROVE FALSE
        <4>1. key[x] < key[k] /\ key[k] <= key[x] /\ key[x] \in Int /\ key[k] \in Int
          BY <1>2, <1>4, <2>1, <3>1
        <4> QED
          BY <4>1
      <3> QED
        BY <3>1
    <2>3. \E l \in s : \A k \in s : ~Nearer(p, l, k)
      BY <2>2
    <2> QED
      BY <2>3 DEF Farthest
  <1> QED
    BY <1>5

LEMMA BookLevelType ==
  ASSUME NEW d \in Ledgers, NEW l \in Levels, NEW held \in Int
  PROVE  BookLevel(d, l, held) \in Ledgers
  <1>1. PICK closed : closed = d.position.remaining - held
    OBVIOUS
  <1>2. closed \in Int
    BY <1>1, PartType DEF Ledgers
  <1>3. CASE closed <= 0
    BY <1>1, <1>3, BookLevelFields
  <1>4. CASE closed > 0
    BY <1>1, <1>4, BookLevelFields DEF Booking
  <1> QED
    BY <1>2, <1>3, <1>4

BookedBy(it, d, held, gone) ==
    /\ Books(d, held, gone) = it[gone]
    /\ it[{}] = d
    /\ \A s \in SUBSET gone : it[s] \in Ledgers
    /\ \A s \in SUBSET gone : s # {} =>
          \E l \in s : /\ it[s] = BookLevel(it[s \ {l}], l, held)
                       /\ \A k \in s : ~Nearer(d.position, l, k)

LEMMA BookedOneByOne ==
  ASSUME NEW d \in Ledgers, NEW held \in Int, NEW gone \in SUBSET Levels, IsFiniteSet(gone)
  PROVE  \E it : BookedBy(it, d, held, gone)
  <1> DEFINE far(s) == Farthest(d.position, s)
             Booked(it) == it = [s \in SUBSET gone |->
                                   IF s = {} THEN d
                                   ELSE BookLevel(it[s \ {far(s)}], far(s), held)]
             chosen == CHOOSE it : Booked(it)
  <1>1. Books(d, held, gone) = chosen[gone]
    BY DEF Books, MapThenFoldSet
  <1> DEFINE pick == [s \in SUBSET gone |-> far(s)]
             step == [x \in gone \X Ledgers |-> BookLevel(x[2], x[1], held)]
  <1>2. \A s \in SUBSET gone : s # {} =>
           far(s) \in s /\ \A k \in s : ~Nearer(d.position, far(s), k)
    BY FarthestIn DEF Ledgers
  <1> HIDE DEF far
  <1>3. \A s \in SUBSET gone : s # {} => pick[s] \in s
    BY <1>2
  <1>4. \A l \in gone, w \in Ledgers : step[<<l, w>>] = BookLevel(w, l, held)
    OBVIOUS
  <1>5. \A l \in gone, w \in Ledgers : step[<<l, w>>] \in Ledgers
    BY <1>4, BookLevelType
  <1>6. PICK made : FoldsAll(made, gone, d, step, pick) /\ StaysIn(made, gone, Ledgers)
    <2>1. Steps(gone, Ledgers, step, pick)
      BY <1>3, <1>5 DEF Steps
    <2> HIDE DEF pick, step
    <2> QED
      BY <2>1, FoldStays
  <1>7. Booked(made)
    <2>1. ASSUME NEW s \in SUBSET gone, s # {}
          PROVE  step[<<pick[s], made[s \ {pick[s]}]>>]
                   = BookLevel(made[s \ {far(s)}], far(s), held)
      <3>1. pick[s] = far(s) /\ far(s) \in gone
        BY <1>2, <2>1
      <3>2. made[s \ {far(s)}] \in Ledgers
        BY <1>6 DEF StaysIn
      <3> HIDE DEF step, pick
      <3> QED
        BY <1>4, <3>1, <3>2
    <2> HIDE DEF step, pick
    <2> QED
      BY <1>6, <2>1 DEF FoldsAll
  <1>8. Booked(chosen)
    <2> HIDE DEF Booked
    <2> QED
      BY <1>7
  <1> HIDE DEF chosen, pick, step
  <1>9. chosen[{}] = d
    BY <1>8
  <1>10. \A s \in SUBSET gone : s # {} =>
            far(s) \in s /\ chosen[s] = BookLevel(chosen[s \ {far(s)}], far(s), held)
    BY <1>2, <1>8
  <1> HIDE DEF Booked
  <1> DEFINE Good == {s \in SUBSET gone : chosen[s] \in Ledgers}
  <1>11. {} \in Good
    BY <1>9
  <1>12. ASSUME NEW s \in SUBSET gone, s # {}
         PROVE  \E x \in s : s \ {x} \in Good => s \in Good
    <2>1. far(s) \in s /\ far(s) \in Levels
      BY <1>2, <1>12
    <2>2. chosen[s] = BookLevel(chosen[s \ {far(s)}], far(s), held)
      BY <1>10, <1>12
    <2>3. s \ {far(s)} \in Good => s \in Good
      BY <2>1, <2>2, BookLevelType
    <2> QED
      BY <2>1, <2>3
  <1>13. \A s \in SUBSET gone : s \in Good
    <2> HIDE DEF Good
    <2> QED
      BY <1>11, <1>12, SubsetInduction
  <1>14. \A s \in SUBSET gone : chosen[s] \in Ledgers
    BY <1>13
  <1>15. \A s \in SUBSET gone : s # {} =>
            \E l \in s : /\ chosen[s] = BookLevel(chosen[s \ {l}], l, held)
                         /\ \A k \in s : ~Nearer(d.position, l, k)
    BY <1>2, <1>10
  <1>16. BookedBy(chosen, d, held, gone)
    BY <1>1, <1>9, <1>14, <1>15, Zenon DEF BookedBy
  <1> QED
    BY <1>16

LEMMA BookingChain ==
  ASSUME NEW d, NEW e, NEW f, Booking(e, d), Booking(f, e)
  PROVE  Booking(f, d)
  BY DEF Booking, SameReport, SamePosition

\* Whatever is gone, booking it moves the account by what it adds to the trade.
LEMMA BookedKeeps ==
  ASSUME NEW d \in Ledgers, NEW held \in Int, NEW gone \in SUBSET Levels, IsFiniteSet(gone),
         NEW it, BookedBy(it, d, held, gone)
  PROVE  \A s \in SUBSET gone : Booking(it[s], d)
  <1>1. /\ Books(d, held, gone) = it[gone]
        /\ it[{}] = d
        /\ \A s \in SUBSET gone : it[s] \in Ledgers
        /\ \A s \in SUBSET gone : s # {} =>
              \E l \in s : it[s] = BookLevel(it[s \ {l}], l, held)
    BY Zenon DEF BookedBy
  <1> DEFINE Good == {s \in SUBSET gone : Booking(it[s], d)}
  <1>2. Booking(d, d)
    BY DEF Booking, SameReport, SamePosition
  <1>3. {} \in Good
    BY <1>1, <1>2
  <1>4. ASSUME NEW s \in SUBSET gone, s # {}
        PROVE  \E x \in s : s \ {x} \in Good => s \in Good
    <2>1. PICK l \in s : it[s] = BookLevel(it[s \ {l}], l, held)
      BY <1>1, <1>4
    <2>2. SUFFICES ASSUME s \ {l} \in Good PROVE s \in Good
      BY <2>1, Zenon
    <2> DEFINE was == it[s \ {l}]
    <2>3. was \in Ledgers /\ l \in Levels /\ Booking(was, d)
      BY <1>1, <2>2
    <2> HIDE DEF was
    <2>4. BookLevel(was, l, held) = was \/ Booking(BookLevel(was, l, held), was)
      <3>1. PICK closed : closed = was.position.remaining - held
        OBVIOUS
      <3>2. closed \in Int
        BY <2>3, <3>1, PartType DEF Ledgers
      <3>3. closed <= 0 \/ closed > 0
        BY <3>2
      <3> QED
        BY <2>3, <3>1, <3>3, BookLevelFields
    <2>5. Booking(BookLevel(was, l, held), d)
      BY <2>3, <2>4, BookingChain
    <2> QED
      BY <2>1, <2>5 DEF was
  <1>5. \A s \in SUBSET gone : s \in Good
    <2> HIDE DEF Good
    <2> QED
      BY <1>3, <1>4, SubsetInduction
  <1> QED
    BY <1>5

\* Booking whatever is gone moves the account by what it adds to the trade.
LEMMA BooksBalance ==
  ASSUME NEW d \in Ledgers, NEW held \in Int, NEW gone \in SUBSET Levels, IsFiniteSet(gone)
  PROVE  Booking(Books(d, held, gone), d)
  <1>1. PICK it : BookedBy(it, d, held, gone)
    BY BookedOneByOne
  <1>2. \A s \in SUBSET gone : Booking(it[s], d)
    BY <1>1, BookedKeeps
  <1>3. gone \in SUBSET gone /\ Books(d, held, gone) = it[gone]
    BY <1>1 DEF BookedBy
  <1> QED
    BY <1>2, <1>3

LEMMA RungAway ==
  ASSUME NEW direction \in {1, -1}, NEW entry \in Int, NEW l, IsRung(l, direction, entry)
  PROVE  /\ l.at - entry = direction * (Rank(l.name) * (StopTicks - 1))
         /\ Magnitude(l.at - entry) = Rank(l.name) * (StopTicks - 1)
         /\ Rank(l.name) \in {1, 2, 3}
  <1> DEFINE k == Rank(l.name)
             s == StopTicks - 1
  <1>1. l.at = entry + direction * k * s /\ k \in {1, 2, 3} /\ s \in Nat
    BY SizeType DEF IsRung, RungNames, Rank
  <1> HIDE DEF k, s
  <1>2. k * s \in Nat /\ direction * k * s = direction * (k * s)
    BY <1>1
  <1>3. l.at - entry = direction * (k * s)
    BY <1>1, <1>2
  <1>4. Magnitude(l.at - entry) = k * s
    BY <1>2, <1>3 DEF Magnitude
  <1> QED
    BY <1>1, <1>3, <1>4 DEF k, s

LEMMA StopAway ==
  ASSUME NEW direction \in {1, -1}, NEW entry \in Int, NEW l, IsStop(l, direction, entry)
  PROVE  /\ l.at - entry = direction * (-(StopTicks - 1))
         /\ Magnitude(l.at - entry) = StopTicks - 1
  <1> DEFINE s == StopTicks - 1
  <1>1. l.at = entry - direction * s /\ s \in Nat
    BY SizeType DEF IsStop
  <1> HIDE DEF s
  <1>2. l.at - entry = direction * (-s) /\ Magnitude(l.at - entry) = s
    BY <1>1 DEF Magnitude
  <1> QED
    BY <1>2 DEF s

\* The farther rung is the later one; the stop comes before them all.
LEMMA RungsInOrder ==
  ASSUME NEW p \in Parts, NEW a, NEW b, IsRung(b, p.direction, p.entry)
  PROVE  /\ IsRung(a, p.direction, p.entry) /\ Rank(a.name) < Rank(b.name) => Nearer(p, a, b)
         /\ IsStop(a, p.direction, p.entry) => Nearer(p, a, b)
  <1> DEFINE s == StopTicks - 1
             m == Rank(b.name)
             n == Rank(a.name)
  <1>1. p.direction \in {1, -1} /\ p.entry \in Int
    BY PartType
  <1>2. s \in Nat /\ s > 0
    BY SizeType
  <1>3. Magnitude(b.at - p.entry) = m * s /\ m \in {1, 2, 3}
    BY <1>1, RungAway
  <1>4. ASSUME IsRung(a, p.direction, p.entry), Rank(a.name) < Rank(b.name)
        PROVE  Nearer(p, a, b)
    <2>1. Magnitude(a.at - p.entry) = n * s /\ n \in {1, 2, 3} /\ n < m
      BY <1>1, <1>4, RungAway
    <2>2. n * s < m * s
      <3> HIDE DEF m, n, s
      <3> QED
        BY <1>2, <1>3, <2>1
    <2> QED
      BY <1>3, <2>1, <2>2 DEF Nearer
  <1>5. ASSUME IsStop(a, p.direction, p.entry)
        PROVE  Nearer(p, a, b)
    <2>1. Magnitude(a.at - p.entry) = s /\ n = 0
      BY <1>1, <1>5, StopAway DEF IsStop, Rank
    <2>2. s < m * s \/ s = m * s
      <3> HIDE DEF m, s
      <3> QED
        BY <1>2, <1>3
    <2>3. n < m
      BY <1>3, <2>1
    <2> QED
      BY <1>3, <2>1, <2>2, <2>3 DEF Nearer
  <1> QED
    BY <1>4, <1>5

\* What so many contracts make when the price has gone so far in the position's favour.
LEMMA PnlOf ==
  ASSUME NEW p \in Parts, NEW price \in Int, NEW contracts \in Int, NEW far \in Int,
         price - p.entry = p.direction * far
  PROVE  /\ Pnl(p, price, contracts) = Unit * (contracts * far)
         /\ Pnl(p, price, contracts) \in Int
  <1>1. p.direction \in {1, -1} /\ p.entry \in Int /\ Unit \in Int
    BY PartType, SizeType
  <1>2. p.direction * (price - p.entry) = far
    BY <1>1
  <1>3. Pnl(p, price, contracts) = far * contracts * Unit
    BY <1>2 DEF Pnl
  <1>4. far * contracts = contracts * far /\ contracts * far \in Int
    OBVIOUS
  <1> DEFINE product == contracts * far
  <1>5. Pnl(p, price, contracts) = product * Unit /\ product \in Int
    BY <1>3, <1>4
  <1> HIDE DEF product
  <1>6. product * Unit = Unit * product /\ product * Unit \in Int
    BY <1>1, <1>5
  <1> QED
    BY <1>5, <1>6 DEF product

\* Where rungs are gone and nothing else is missing, each is booked for what it is for, at
\* its price.
LEMMA BookedRungs ==
  ASSUME NEW d \in Ledgers, NEW p, p = d.position,
         NEW gone \in SUBSET Levels, IsFiniteSet(gone), Distinct(gone),
         \A l \in gone : IsRung(l, p.direction, p.entry),
         NEW held \in Int, held = p.remaining - Contracts(NamesOf(gone)),
         NEW e, e = Books(d, held, gone)
  PROVE  /\ e.position.remaining = held
         /\ e.position.levels = p.levels \ gone
         /\ e.position.realised = p.realised + Unit * Worth(NamesOf(gone))
  <1>1. PICK it : BookedBy(it, d, held, gone)
    BY BookedOneByOne
  <1>2. \A s \in SUBSET gone : Booking(it[s], d) /\ it[s] \in Ledgers
    BY <1>1, BookedKeeps DEF BookedBy
  <1>3. /\ e = it[gone]
        /\ it[{}] = d
        /\ \A s \in SUBSET gone : s # {} =>
              \E l \in s : /\ it[s] = BookLevel(it[s \ {l}], l, held)
                           /\ \A k \in s : ~Nearer(p, l, k)
    BY <1>1, Zenon DEF BookedBy
  <1> DEFINE Booked(q, s) ==
               /\ q.remaining = p.remaining - Contracts(NamesOf(s))
               /\ q.levels = p.levels \ s
               /\ q.realised = p.realised + Unit * Worth(NamesOf(s))
             Good == {s \in SUBSET gone :
                        (\A l \in s : l.name # "tp3") \/ s = gone => Booked(it[s].position, s)}
  <1>4. /\ p \in Parts /\ p.remaining \in Int /\ p.realised \in Int /\ Unit \in Int
        /\ p.direction \in {1, -1} /\ p.entry \in Int
    BY PartType, SizeType DEF Ledgers
  <1>5. {} \in Good
    <2>1. NamesOf({}) = {} /\ Contracts({}) = 0 /\ Worth({}) = 0
      BY DEF NamesOf, Contracts, Worth
    <2>2. p.remaining = p.remaining - 0 /\ p.realised = p.realised + Unit * 0
      BY <1>4
    <2>3. Booked(p, {})
      BY <2>1, <2>2
    <2> QED
      BY <1>3, <2>3
  <1>6. ASSUME NEW s \in SUBSET gone, s # {}
        PROVE  \E x \in s : s \ {x} \in Good => s \in Good
    <2>1. PICK l \in s : /\ it[s] = BookLevel(it[s \ {l}], l, held)
                         /\ \A k \in s : ~Nearer(p, l, k)
      BY <1>3, <1>6
    <2>2. SUFFICES ASSUME s \ {l} \in Good,
                          (\A k \in s : k.name # "tp3") \/ s = gone
                   PROVE  Booked(it[s].position, s)
      BY <2>1, Zenon
    <2> DEFINE was == it[s \ {l}]
               left == s \ {l}
               r == Rung(l.name)
               far == Rank(l.name) * (StopTicks - 1)
               closed == was.position.remaining - held
    <2>3. \A k \in left : k.name # "tp3"
      <3>1. ASSUME NEW k \in left, k.name = "tp3" PROVE FALSE
        <4>1. IsRung(l, p.direction, p.entry) /\ IsRung(k, p.direction, p.entry) /\ k \in s
          OBVIOUS
        <4>2. l.name # "tp3"
          BY <3>1 DEF Distinct
        <4>3. Rank(l.name) < Rank(k.name)
          BY <3>1, <4>1, <4>2 DEF IsRung, RungNames, Rank
        <4> QED
          BY <1>4, <2>1, <4>1, <4>3, RungsInOrder
      <3> QED
        BY <3>1
    <2>4. Booked(was.position, left)
      BY <2>2, <2>3
    <2>5. /\ was \in Ledgers /\ Booking(was, d) /\ was.position \in Parts /\ l \in Levels
          /\ IsRung(l, p.direction, p.entry)
      BY <1>2 DEF Ledgers
    <2> HIDE DEF was
    <2>6. NamesOf(left) = NamesOf(s) \ {l.name} /\ l.name \in NamesOf(s) /\ l.name \in RungNames
      <3>1. Distinct(s)
        BY DEF Distinct
      <3> QED
        BY <2>5, <3>1, NamesWithout DEF IsRung
    <2>7. /\ Contracts(NamesOf(s)) = Contracts(NamesOf(left)) + r
          /\ Worth(NamesOf(s)) = Worth(NamesOf(left)) + Earned(l.name)
      BY <2>6, WithoutRung
    <2>8. r \in Nat /\ r > 0 /\ far \in Int
      <3>1. r \in Nat /\ l.size # 0 /\ l.size = -p.direction * r
        BY <2>5, <2>6, LevelType, RungType DEF IsRung
      <3>2. r # 0
        <4> HIDE DEF r
        <4> QED
          BY <1>4, <3>1
      <3>3. Rank(l.name) \in Int
        BY <2>6 DEF RungNames, Rank
      <3>4. far \in Int
        BY <3>3, SizeType
      <3> HIDE DEF r, far
      <3> QED
        BY <3>1, <3>2, <3>4
    <2>9. /\ Contracts(NamesOf(gone)) \in Nat /\ Contracts(NamesOf(s)) \in Nat
          /\ Contracts(NamesOf(left)) \in Nat
          /\ Worth(NamesOf(s)) \in Nat /\ Worth(NamesOf(left)) \in Nat
      BY SumType
    <2>10. Contracts(NamesOf(s)) <= Contracts(NamesOf(gone))
      <3>1. NamesOf(s) \subseteq NamesOf(gone)
        BY DEF NamesOf
      <3> QED
        BY <3>1, FewerRungs
    <2>11. /\ closed \in Int /\ closed >= r /\ closed > 0
           /\ s = gone => closed = r
      <3> HIDE DEF r, left
      <3>1. closed = Contracts(NamesOf(gone)) - Contracts(NamesOf(left))
        BY <1>4, <2>4, <2>9
      <3> HIDE DEF closed
      <3> QED
        BY <2>7, <2>8, <2>9, <2>10, <3>1
    <2>12. Part(l.name, closed) = r
      <3>1. CASE l.name = "tp3"
        <4>1. s = gone
          BY <2>2, <3>1
        <4> QED
          BY <2>11, <3>1, <4>1 DEF Part
      <3>2. CASE l.name # "tp3"
        <4>1. l.name # "stop"
          BY <2>6 DEF RungNames
        <4>2. Part(l.name, closed) = Smaller(closed, r)
          BY <3>2, <4>1 DEF Part
        <4> HIDE DEF closed, r
        <4> QED
          BY <2>8, <2>11, <4>2 DEF Smaller
      <3> QED
        BY <3>1, <3>2
    <2> HIDE DEF r, far, closed
    <2>13. /\ it[s].position.remaining = was.position.remaining - r
           /\ it[s].position.levels = was.position.levels \ {l}
           /\ it[s].position.realised
                = was.position.realised + Pnl(was.position, l.at, r)
      <3>1. it[s] = BookLevel(was, l, held)
        BY <2>1 DEF was
      <3>2. closed = was.position.remaining - held
        BY DEF closed
      <3> QED
        BY <2>5, <2>11, <2>12, <3>1, <3>2, BookLevelFields
    <2>14. /\ Pnl(was.position, l.at, r) = Unit * (r * far)
           /\ Pnl(was.position, l.at, r) \in Int
      <3>1. was.position.direction = p.direction /\ was.position.entry = p.entry
        BY <2>5 DEF Booking, SamePosition
      <3>2. l.at - p.entry = p.direction * far
        BY <1>4, <2>5, RungAway DEF far
      <3>3. l.at \in Int
        BY <2>5, LevelType
      <3> QED
        BY <2>5, <2>8, <3>1, <3>2, <3>3, PnlOf
    <2>15. Earned(l.name) = r * far
      BY DEF Earned, r, far
    <2>16. Booked(it[s].position, s)
      <3>1. it[s].position.levels = p.levels \ s
        BY <2>4, <2>13
      <3>2. it[s].position.remaining = p.remaining - Contracts(NamesOf(s))
        <4> HIDE DEF left
        <4> QED
          BY <1>4, <2>4, <2>7, <2>8, <2>9, <2>13
      <3>3. Unit * Worth(NamesOf(s)) = Unit * Worth(NamesOf(left)) + Unit * (r * far)
        <4>1. r * far \in Int
          BY <2>8
        <4> DEFINE x == r * far
                   y == Worth(NamesOf(left))
        <4>2. Worth(NamesOf(s)) = y + x /\ x \in Int /\ y \in Int
          BY <2>7, <2>9, <2>15, <4>1
        <4> HIDE DEF x, y
        <4>3. Unit * (y + x) = Unit * y + Unit * x
          BY <1>4, <4>2
        <4> QED
          BY <4>2, <4>3 DEF x, y
      <3>4. /\ Unit * Worth(NamesOf(left)) \in Int /\ Unit * (r * far) \in Int
        BY <1>4, <2>8, <2>9
      <3>5. it[s].position.realised = p.realised + Unit * Worth(NamesOf(s))
        <4> HIDE DEF left
        <4> QED
          BY <1>4, <2>4, <2>13, <2>14, <3>3, <3>4
      <3> QED
        BY <3>1, <3>2, <3>5
    <2> QED
      BY <2>16
  <1>7. \A s \in SUBSET gone : s \in Good
    <2> HIDE DEF Good
    <2> QED
      BY <1>5, <1>6, SubsetInduction
  <1>8. Booked(it[gone].position, gone)
    BY <1>7
  <1> QED
    BY <1>3, <1>8

\* Where the stop is gone and nothing is held, it is booked for everything, whatever rungs
\* are gone since.
LEMMA BookedStop ==
  ASSUME NEW d \in Ledgers, NEW p, p = d.position, p.remaining > 0,
         NEW gone \in SUBSET Levels, IsFiniteSet(gone), Distinct(gone),
         \A l \in gone : \/ IsStop(l, p.direction, p.entry)
                         \/ IsRung(l, p.direction, p.entry),
         NEW stop \in gone, stop.name = "stop",
         NEW e, e = Books(d, 0, gone)
  PROVE  /\ e.position.remaining = 0
         /\ e.position.realised = p.realised - Unit * (p.remaining * (StopTicks - 1))
  <1>0. 0 \in Int
    OBVIOUS
  <1>1. PICK it : BookedBy(it, d, 0, gone)
    BY <1>0, BookedOneByOne
  <1>2. \A s \in SUBSET gone : it[s] \in Ledgers
    BY <1>1 DEF BookedBy
  <1>3. /\ e = it[gone]
        /\ it[{}] = d
        /\ \A s \in SUBSET gone : s # {} =>
              \E l \in s : /\ it[s] = BookLevel(it[s \ {l}], l, 0)
                           /\ \A k \in s : ~Nearer(p, l, k)
    BY <1>1, Zenon DEF BookedBy
  <1> DEFINE lost == Unit * (p.remaining * (StopTicks - 1))
             Booked(q) == q.remaining = 0 /\ q.realised = p.realised - lost
             Good == {s \in SUBSET gone : stop \in s => Booked(it[s].position)}
  <1>4. /\ p \in Parts /\ p.remaining \in Int /\ p.realised \in Int /\ Unit \in Int
        /\ p.direction \in {1, -1} /\ p.entry \in Int /\ StopTicks - 1 \in Int
    BY PartType, SizeType DEF Ledgers
  <1>5. {} \in Good
    OBVIOUS
  <1>6. IsStop(stop, p.direction, p.entry)
    BY DEF IsRung, RungNames
  <1>7. ASSUME NEW s \in SUBSET gone, s # {}
        PROVE  \E x \in s : s \ {x} \in Good => s \in Good
    <2>1. PICK l \in s : /\ it[s] = BookLevel(it[s \ {l}], l, 0)
                         /\ \A k \in s : ~Nearer(p, l, k)
      BY <1>3, <1>7
    <2>2. SUFFICES ASSUME s \ {l} \in Good, stop \in s
                   PROVE  Booked(it[s].position)
      BY <2>1, Zenon
    <2>3. CASE l = stop
      <3>1. s = {stop}
        <4>1. ASSUME NEW k \in s, k # stop PROVE FALSE
          <5>1. k.name # "stop"
            BY <4>1 DEF Distinct
          <5>2. IsRung(k, p.direction, p.entry)
            BY <5>1 DEF IsStop
          <5> QED
            BY <1>4, <1>6, <2>1, <2>3, <5>2, RungsInOrder
        <4> QED
          BY <2>2, <4>1
      <3>2. it[s] = BookLevel(d, stop, 0)
        <4>1. s \ {l} = {}
          BY <2>3, <3>1
        <4> QED
          BY <1>3, <2>1, <2>3, <4>1
      <3> DEFINE closed == p.remaining - 0
      <3>3. closed = p.remaining /\ closed > 0
        BY <1>4
      <3>4. Part(stop.name, closed) = closed
        BY DEF Part
      <3> HIDE DEF closed
      <3>5. closed = d.position.remaining - 0
        BY DEF closed
      <3>6. /\ it[s].position.remaining = p.remaining - closed
            /\ it[s].position.realised = p.realised + Pnl(p, stop.at, closed)
        <4>1. PICK held \in Int : held = 0
          BY <1>0
        <4>2. it[s] = BookLevel(d, stop, held) /\ closed = d.position.remaining - held
          BY <3>2, <3>5, <4>1
        <4>3. stop \in Levels
          OBVIOUS
        <4>4. /\ BookLevel(d, stop, held).position.remaining
                   = d.position.remaining - Part(stop.name, closed)
              /\ BookLevel(d, stop, held).position.realised
                   = d.position.realised + Pnl(d.position, stop.at, Part(stop.name, closed))
          BY ONLY <3>3, <4>1, <4>2, <4>3, d \in Ledgers, BookLevelFields
        <4> QED
          BY <3>4, <4>2, <4>4
      <3>7. stop.at - p.entry = p.direction * (-(StopTicks - 1))
        BY <1>4, <1>6, StopAway
      <3>8. Pnl(p, stop.at, closed) = Unit * (closed * (-(StopTicks - 1)))
        <4>1. stop.at \in Int /\ closed \in Int /\ -(StopTicks - 1) \in Int
          BY <1>4, <3>3, LevelType
        <4> QED
          BY <1>4, <3>7, <4>1, PnlOf
      <3>9. Unit * (closed * (-(StopTicks - 1))) = -lost /\ lost \in Int
        <4> DEFINE x == p.remaining * (StopTicks - 1)
        <4>1. x \in Int /\ closed * (-(StopTicks - 1)) = -x
          BY <1>4, <3>3
        <4> HIDE DEF x
        <4>2. Unit * (-x) = -(Unit * x) /\ Unit * x \in Int
          BY <1>4, <4>1
        <4> QED
          BY <4>1, <4>2 DEF x
      <3> HIDE DEF lost
      <3> QED
        BY <1>4, <3>3, <3>6, <3>8, <3>9
    <2>4. CASE l # stop
      <3>1. Booked(it[s \ {l}].position)
        BY <2>2, <2>4
      <3>2. it[s \ {l}] \in Ledgers /\ l \in Levels
        BY <1>2
      <3> DEFINE was == it[s \ {l}]
                 closed == was.position.remaining - 0
      <3>3. closed <= 0
        BY <3>1
      <3>4. BookLevel(was, l, 0) = was
        <4> HIDE DEF was
        <4>1. PICK c : c = was.position.remaining - 0 /\ c <= 0
          BY <3>3
        <4> QED
          BY <1>0, <3>2, <4>1, BookLevelFields DEF was
      <3> QED
        BY <2>1, <3>1, <3>4
    <2> QED
      BY <2>3, <2>4
  <1>8. \A s \in SUBSET gone : s \in Good
    <2> HIDE DEF Good
    <2> QED
      BY <1>5, <1>7, SubsetInduction
  <1>9. Booked(it[gone].position)
    BY <1>8
  <1> QED
    BY <1>3, <1>9

(***************************************************************************)
(* The end of a trade.                                                     *)
(***************************************************************************)

\* A desk whose trade is being booked.
Booked(d) ==
    /\ d \in Ledgers
    /\ IsFiniteSet(d.sim.levels)
    /\ \A l \in d.sim.levels : l.trade <= Trade(d)
    /\ d.sim.order.status # "open"
    /\ d.equity = Net(d.trades) - d.charged + (d.position.realised - d.position.fees)
    /\ Len(d.trades) + d.flattened + 2 <= 2 * d.filled
    /\ d.faithful

\* The simulator with what was observed of its trade reset.
Cleared(sim) == [sim EXCEPT !.cash = 0, !.strayed = FALSE]

LEMMA ClearedFields ==
  ASSUME NEW sim \in Simulators
  PROVE  /\ Cleared(sim) \in Simulators
         /\ Cleared(sim).pos = sim.pos /\ Cleared(sim).order = sim.order
         /\ Cleared(sim).levels = sim.levels /\ Cleared(sim).last = sim.last
         /\ Cleared(sim).cash = 0 /\ ~Cleared(sim).strayed
  <1> DEFINE none == [sim EXCEPT !.cash = 0]
             e == Cleared(sim)
  <1>1. /\ none \in Simulators
        /\ none.pos = sim.pos /\ none.order = sim.order /\ none.levels = sim.levels
        /\ none.last = sim.last /\ none.cash = 0
    BY DEF Simulators
  <1>2. e = [none EXCEPT !.strayed = FALSE]
    BY DEF Simulators, Cleared
  <1> HIDE DEF none, e
  <1>3. /\ e.pos = none.pos /\ e.order = none.order /\ e.levels = none.levels
        /\ e.last = none.last /\ e.cash = none.cash
    BY <1>1, <1>2 DEF Simulators
  <1>4. ~e.strayed
    BY <1>1, <1>2 DEF Simulators
  <1>5. e \in Simulators
    BY <1>1, <1>2 DEF Simulators
  <1> QED
    BY <1>1, <1>3, <1>4, <1>5 DEF e

LEMMA CloseTradeFields ==
  ASSUME NEW d \in Ledgers
  PROVE  LET e == CloseTrade(d)
         IN /\ e \in Desks /\ e.position = NoPosition
            /\ e.sim \in Simulators
            /\ e.sim.pos = d.sim.pos /\ e.sim.order = d.sim.order /\ e.sim.levels = d.sim.levels
            /\ e.equity = d.equity /\ e.filled = d.filled /\ e.flattened = d.flattened
            /\ e.charged = d.charged /\ e.unprotected = d.unprotected
            /\ e.unconfirmed = d.unconfirmed
            /\ Len(e.trades) = Len(d.trades) + 1
            /\ Net(e.trades) = Net(d.trades) + (d.position.realised - d.position.fees)
            /\ e.faithful
                 = (d.faithful /\ (d.sim.strayed \/ d.position.realised = d.sim.cash * Unit))
  <1> DEFINE p == d.position
             t == [net |-> p.realised - p.fees, risk |-> Risk(p),
                   gap |-> p.direction * (p.entry - p.stop)]
             more == Append(d.trades, t)
             true == d.faithful /\ (d.sim.strayed \/ p.realised = d.sim.cash * Unit)
             sim == Cleared(d.sim)
             e == CloseTrade(d)
  <1>1. p \in Parts /\ d.sim \in Simulators /\ d.trades \in TradesType
    BY DEF Ledgers
  <1>2. /\ p.direction \in {1, -1} /\ p.entry \in Int /\ p.stop \in Int /\ p.size \in Int
        /\ p.realised \in Int /\ p.fees \in Int
    BY <1>1, PartType, SizeType
  <1>3. t \in [net : Int, risk : Int, gap : Int]
    <2>1. Risk(p) \in Int
      <3>1. (StopTicks - 1) * p.size \in Int /\ Unit \in Int
        BY <1>2, SizeType
      <3> QED
        BY <3>1 DEF Risk
    <2>2. p.direction * (p.entry - p.stop) \in Int /\ p.realised - p.fees \in Int
      BY <1>2
    <2> QED
      BY <2>1, <2>2
  <1>4. t.net = p.realised - p.fees
    OBVIOUS
  <1>5. true \in BOOLEAN
    OBVIOUS
  <1>6. e = [d EXCEPT !.trades = more, !.faithful = true, !.sim.cash = 0,
                      !.sim.strayed = FALSE, !.position = NoPosition]
    BY Zenon DEF CloseTrade
  <1> HIDE DEF t, true, p, e
  <1>7. more \in TradesType /\ Len(more) = Len(d.trades) + 1 /\ Net(more) = Net(d.trades) + t.net
    BY <1>1, <1>3, NetAppend
  <1> HIDE DEF more
  <1>8. e = [d EXCEPT !.trades = more, !.faithful = true, !.sim = sim, !.position = NoPosition]
    BY <1>1, <1>6 DEF Ledgers, Simulators, Cleared
  <1>9. /\ sim \in Simulators /\ sim.pos = d.sim.pos /\ sim.order = d.sim.order
        /\ sim.levels = d.sim.levels
    BY <1>1, ClearedFields
  <1> HIDE DEF sim
  <1>10. e \in Desks
    BY <1>5, <1>7, <1>8, <1>9 DEF Ledgers, Desks
  <1>11. /\ e.position = NoPosition /\ e.sim = sim /\ e.trades = more /\ e.faithful = true
         /\ e.equity = d.equity /\ e.filled = d.filled /\ e.flattened = d.flattened
         /\ e.charged = d.charged /\ e.unprotected = d.unprotected
         /\ e.unconfirmed = d.unconfirmed
    BY <1>8 DEF Ledgers
  <1> QED
    BY <1>4, <1>7, <1>9, <1>10, <1>11 DEF e, p, true

\* A trade that was booked to its end, with nothing held, leaves a desk in order, with room
\* for a flatten to be counted.
LEMMA CloseTradeKeeps ==
  ASSUME NEW d, Booked(d), d.sim.pos = 0,
         d.sim.strayed \/ d.position.realised = d.sim.cash * Unit,
         NEW e, e = CloseTrade(d)
  PROVE  /\ DeskOK(e) /\ ~Tracked(e) /\ e.unprotected = d.unprotected
         /\ Trade(e) = Trade(d)
         /\ Len(e.trades) + e.flattened + 1 <= 2 * e.filled
  <1>1. d \in Ledgers
    BY DEF Booked
  <1>2. /\ e \in Desks /\ e.position = NoPosition
        /\ e.sim.pos = d.sim.pos /\ e.sim.order = d.sim.order /\ e.sim.levels = d.sim.levels
        /\ e.equity = d.equity /\ e.filled = d.filled /\ e.flattened = d.flattened
        /\ e.charged = d.charged /\ e.unprotected = d.unprotected
        /\ Len(e.trades) = Len(d.trades) + 1
        /\ Net(e.trades) = Net(d.trades) + (d.position.realised - d.position.fees)
        /\ e.faithful = (d.faithful /\ (d.sim.strayed \/ d.position.realised = d.sim.cash * Unit))
    BY <1>1, CloseTradeFields
  <1>3. /\ d.equity \in Int /\ d.charged \in Int /\ d.filled \in Nat /\ d.flattened \in Nat
        /\ Net(d.trades) \in Int /\ Len(d.trades) \in Nat
        /\ d.position.realised \in Int /\ d.position.fees \in Int
    BY <1>1, NetType DEF Ledgers, TradesType, Parts
  <1>0. /\ d.equity = Net(d.trades) - d.charged + (d.position.realised - d.position.fees)
        /\ Len(d.trades) + d.flattened + 2 <= 2 * d.filled
    BY DEF Booked
  <1>11. /\ e.equity = d.equity /\ e.filled = d.filled /\ e.flattened = d.flattened
         /\ e.charged = d.charged /\ Len(e.trades) = Len(d.trades) + 1
         /\ Net(e.trades) = Net(d.trades) + (d.position.realised - d.position.fees)
    BY ONLY <1>2, Zenon
  <1>4. ~Tracked(e) /\ Trade(e) = Trade(d)
    BY <1>2 DEF Tracked, Trade
  <1>5. Typed(e)
    BY <1>2, <1>4 DEF Typed, Booked
  <1>6. e.sim.order.status # "open" /\ Held(e) /\ Guarded(e)
    BY <1>2, <1>4 DEF Booked, Held, Guarded
  <1>7. Balanced(e)
    <2>1. e.equity = Net(e.trades) - e.charged
      BY ONLY <1>0, <1>3, <1>11
    <2>2. Net(e.trades) \in Int /\ e.charged \in Int
      BY ONLY <1>3, <1>11
    <2> QED
      BY ONLY <1>4, <2>1, <2>2 DEF Balanced
  <1>8. Len(e.trades) + e.flattened + 1 <= 2 * e.filled
    BY ONLY <1>0, <1>3, <1>11
  <1>9. Counted(e)
    <2>1. Len(e.trades) \in Nat /\ e.flattened \in Nat /\ e.filled \in Nat
      BY ONLY <1>3, <1>11
    <2> QED
      BY ONLY <1>4, <1>8, <2>1 DEF Counted
  <1>10. Faithful(e)
    BY <1>2, <1>4 DEF Faithful, Booked
  <1> QED
    BY <1>2, <1>4, <1>5, <1>6, <1>7, <1>8, <1>9, <1>10 DEF DeskOK, Kept

(***************************************************************************)
(* Settlement.                                                             *)
(***************************************************************************)

LEMMA LedgerOf ==
  ASSUME NEW d \in Desks, Tracked(d)
  PROVE  d \in Ledgers /\ d.position \in Positions /\ d.position \in Parts
  <1>1. d.position \in Positions
    BY DEF Desks, Tracked
  <1>2. d.position \in Parts
    <2>1. d.position.remaining \in Int
      BY <1>1, PositionType
    <2> QED
      BY <1>1, <2>1 DEF Positions, Parts
  <1>3. d \in Ledgers
    BY <1>1, <1>2 DEF Desks, Ledgers
  <1> QED
    BY <1>1, <1>2, <1>3

\* What the fired levels and the rest of what is missing book.
AllBooked(d, held, gone) == BookUnknown(Books(d, held, gone), held)

Remains(p, held) == [p EXCEPT !.remaining = held]

\* A desk with the account and the position of another, and so much left of it.
Rebooked(d, e, held) == [d EXCEPT !.equity = e.equity, !.position = Remains(e.position, held)]

LEMMA SettlesTo ==
  ASSUME NEW d
  PROVE  LET held == Magnitude(d.sim.pos)
             gone == Spent(d.sim, d.position)
             booked == Rebooked(d, AllBooked(d, held, gone), held)
         IN Settle(d) = IF ~Tracked(d) \/ held = d.position.remaining THEN d
                        ELSE IF held = 0 THEN CloseTrade(booked)
                        ELSE booked
  BY Zenon DEF Settle, Books, AllBooked, Rebooked, Remains, Spent, Tracked

LEMMA AllBookedKeeps ==
  ASSUME NEW d \in Ledgers, NEW held \in Int, NEW gone \in SUBSET Levels, IsFiniteSet(gone)
  PROVE  /\ Booking(AllBooked(d, held, gone), d)
         /\ Books(d, held, gone).position.remaining = held
               => AllBooked(d, held, gone) = Books(d, held, gone)
  <1> DEFINE e == Books(d, held, gone)
  <1>1. Booking(e, d)
    BY BooksBalance
  <1>2. e \in Ledgers /\ e.position.remaining \in Int /\ e.sim.last \in Int
    BY <1>1, PartType DEF Booking, Ledgers, Simulators
  <1> HIDE DEF e
  <1>3. CASE e.position.remaining > held
    <2>1. Booking(BookFill(e, e.sim.last, e.position.remaining - held), e)
      <3>1. e.position.remaining - held \in Int
        BY <1>2
      <3> QED
        BY <1>2, <3>1, BookFillFields
    <2>2. BookUnknown(e, held) = BookFill(e, e.sim.last, e.position.remaining - held)
      BY <1>3 DEF BookUnknown
    <2>3. Booking(BookUnknown(e, held), d)
      BY <1>1, <2>1, <2>2, BookingChain
    <2>4. e.position.remaining # held
      BY <1>2, <1>3
    <2> QED
      BY <2>3, <2>4 DEF AllBooked, e
  <1>4. CASE ~(e.position.remaining > held)
    <2>1. BookUnknown(e, held) = e
      BY <1>4 DEF BookUnknown
    <2> QED
      BY <1>1, <2>1 DEF AllBooked, e
  <1> QED
    BY <1>3, <1>4

LEMMA RemainsFields ==
  ASSUME NEW p \in Parts, NEW held \in Int
  PROVE  LET q == Remains(p, held)
         IN /\ q \in Parts /\ SamePosition(q, p) /\ q.levels = p.levels
            /\ q.realised = p.realised /\ q.fees = p.fees /\ q.remaining = held
            /\ held \in 1..Size => q \in Positions
  BY DEF Parts, Positions, SamePosition, Remains

LEMMA RebookedFields ==
  ASSUME NEW d \in Ledgers, NEW e \in Ledgers, NEW held \in Int
  PROVE  LET r == Rebooked(d, e, held)
         IN /\ r \in Ledgers
            /\ held \in 1..Size => r \in Desks /\ r.position \in Positions
            /\ SameReport(r, d) /\ r.equity = e.equity
            /\ SamePosition(r.position, e.position) /\ r.position.levels = e.position.levels
            /\ r.position.realised = e.position.realised
            /\ r.position.fees = e.position.fees
            /\ r.position.remaining = held
  <1> DEFINE q == Remains(e.position, held)
             r == Rebooked(d, e, held)
  <1>1. e.position \in Parts /\ e.equity \in Int
    BY DEF Ledgers
  <1>2. /\ q \in Parts /\ SamePosition(q, e.position) /\ q.levels = e.position.levels
        /\ q.realised = e.position.realised /\ q.fees = e.position.fees /\ q.remaining = held
        /\ held \in 1..Size => q \in Positions
    BY <1>1, RemainsFields
  <1>3. r = [d EXCEPT !.equity = e.equity, !.position = q]
    BY DEF Rebooked
  <1> HIDE DEF q, r
  <1>4. r.position = q /\ r.equity = e.equity /\ SameReport(r, d)
    BY <1>3 DEF Ledgers, SameReport
  <1>5. r \in Ledgers
    BY <1>1, <1>2, <1>3 DEF Ledgers
  <1>6. q \in Positions => r \in Desks
    BY <1>1, <1>3 DEF Ledgers, Desks
  <1> QED
    BY <1>2, <1>4, <1>5, <1>6 DEF r

\* Where no level strayed, rungs took what they are for, or the stop took it all.
Walked(d, worth) ==
    /\ d.position.realised = Unit * worth
    /\ OnLadder(d.sim, d.position)
    /\ IsLadder(d.position.levels, d.position)
    /\ Climbed(d.sim, d.position, worth) \/ Stopped(d.sim, d.position, worth)
    /\ ~d.position.protected => d.position.remaining = Size /\ d.position.levels = {}

\* A desk that tracks a position, once the market has moved.
Unsettled(d) ==
    /\ Typed(d) /\ Tracked(d) /\ d.sim.order.status # "open"
    /\ Held(d) /\ Guarded(d) /\ Balanced(d) /\ Counted(d)
    /\ d.faithful
    /\ ~d.sim.strayed => \E worth \in Int : Walked(d, worth)

Watched(d, sim) == [d EXCEPT !.sim = sim, !.unconfirmed = FALSE]

LEMMA WatchedFields ==
  ASSUME NEW d \in Desks, NEW sim \in Simulators
  PROVE  LET e == Watched(d, sim)
         IN /\ e \in Desks /\ e.sim = sim /\ e.position = d.position /\ e.equity = d.equity
            /\ e.filled = d.filled /\ e.flattened = d.flattened /\ e.charged = d.charged
            /\ e.unprotected = d.unprotected /\ e.trades = d.trades /\ e.faithful = d.faithful
  BY DEF Desks, Watched

LEMMA DeskType ==
  ASSUME NEW d \in Desks
  PROVE  /\ d.sim \in Simulators /\ d.sim.pos \in Int /\ d.sim.cash \in Int /\ d.sim.last \in Int
         /\ d.sim.levels \in SUBSET Levels /\ d.sim.order \in Entries
         /\ d.equity \in Int /\ d.filled \in Nat /\ d.flattened \in Nat /\ d.charged \in Int
         /\ d.trades \in TradesType /\ Len(d.trades) \in Nat /\ Net(d.trades) \in Int
  <1>1. /\ d.sim \in Simulators
        /\ d.equity \in Int /\ d.filled \in Nat /\ d.flattened \in Nat /\ d.charged \in Int
        /\ d.trades \in TradesType
    BY DEF Desks
  <1>2. /\ d.sim.pos \in Int /\ d.sim.cash \in Int /\ d.sim.last \in Int
        /\ d.sim.levels \in SUBSET Levels /\ d.sim.order \in Entries
    BY <1>1 DEF Simulators
  <1>3. Len(d.trades) \in Nat /\ Net(d.trades) \in Int
    BY <1>1, NetType DEF TradesType
  <1> QED
    BY <1>1, <1>2, <1>3

\* What closes a planned entry closes what is left of it.
LEMMA StopTakesAll ==
  ASSUME NEW direction \in {1, -1}, NEW remaining \in 1..Size, NEW pos \in Int,
         Toward(pos, direction * remaining), pos # 0
  PROVE  TakesAll(-direction * Size, pos)
  <1>1. Size \in Nat /\ remaining \in Int /\ 1 <= remaining /\ remaining <= Size
    BY SizeType
  <1>2. CASE direction = 1
    BY <1>1, <1>2 DEF Toward, TakesAll
  <1>3. CASE direction = -1
    BY <1>1, <1>3 DEF Toward, TakesAll
  <1> QED
    BY <1>2, <1>3

LEMMA TowardTrans ==
  ASSUME NEW a \in Int, NEW b \in Int, NEW c \in Int, Toward(a, b), Toward(b, c)
  PROVE  Toward(a, c)
  BY DEF Toward

\* The market moves: nothing is held that is not tracked, and the stop that rests keeps
\* resting while anything is held.
LEMMA WatchTracked ==
  ASSUME NEW d, DeskOK(d), Tracked(d), NEW b \in Bars
  PROVE  LET e == Watched(d, Walk(d.sim, Path(b, d)))
         IN Unsettled(e) /\ e.unprotected = d.unprotected /\ Trade(e) = Trade(d)
  <1> DEFINE p == d.position
             sim == Walk(d.sim, Path(b, d))
             e == Watched(d, sim)
  <1>1. /\ Typed(d) /\ d.sim.order.status # "open" /\ Held(d) /\ Balanced(d) /\ Counted(d)
        /\ Faithful(d) /\ Guarded(d) /\ d \in Desks
    BY DEF DeskOK, Kept, Typed
  <1>2. /\ d.sim \in Simulators /\ p \in Positions /\ p \in Parts
        /\ IsFiniteSet(d.sim.levels) /\ d.sim.pos \in Int /\ d.sim.cash \in Int
    BY <1>1, LedgerOf, DeskType DEF Typed
  <1>3. /\ p.direction \in {1, -1} /\ p.entry \in Int /\ p.remaining \in 1..Size
        /\ p.remaining \in Nat /\ p.direction * p.remaining \in Int
    BY <1>2, PositionType
  <1>4. PICK x, y, z \in Int :
           /\ Path(b, d) = <<x, y, z>>
           /\ p.direction * (y - x) >= 0 /\ p.direction * (z - x) >= 0
    BY <1>3, PathWorstFirst DEF Tracked
  <1>5. Moves(sim, d.sim) /\ IsFiniteSet(sim.levels)
    BY <1>1, <1>2, <1>4, WalkMoves
  <1>6. /\ sim \in Simulators /\ sim.pos \in Int /\ sim.order = d.sim.order
        /\ sim.levels \subseteq d.sim.levels /\ Toward(sim.pos, d.sim.pos)
    BY <1>5 DEF Moves, Simulators
  <1> HIDE DEF p, sim
  <1>7. /\ e \in Desks /\ e.sim = sim /\ e.position = p /\ e.equity = d.equity
        /\ e.filled = d.filled /\ e.flattened = d.flattened /\ e.charged = d.charged
        /\ e.unprotected = d.unprotected /\ e.trades = d.trades /\ e.faithful = d.faithful
    BY <1>1, <1>6, WatchedFields DEF p
  <1> HIDE DEF e
  <1>8. Tracked(e) /\ Trade(e) = Trade(d) /\ Direction(e) = p.direction
        /\ Direction(d) = p.direction
    BY <1>6, <1>7 DEF Tracked, Trade, Direction, p
  <1>9. Typed(e)
    BY <1>1, <1>5, <1>6, <1>7, <1>8 DEF Typed, p
  <1>10. Held(e)
    <2>1. Toward(d.sim.pos, p.direction * p.remaining)
      BY <1>1, <1>8 DEF Held, p
    <2>2. Toward(sim.pos, p.direction * p.remaining)
      BY <1>2, <1>3, <1>6, <2>1, TowardTrans
    <2> QED
      BY <1>7, <1>8, <2>2 DEF Held
  <1>11. Guarded(e)
    <2> SUFFICES ASSUME ~e.unprotected PROVE p.protected /\ (sim.pos = 0 \/ StopRests(sim, p.direction))
      BY <1>7, <1>8 DEF Guarded
    <2>1. p.protected /\ (d.sim.pos = 0 \/ StopRests(d.sim, p.direction))
      BY <1>1, <1>7, <1>8 DEF Guarded, p
    <2>2. CASE d.sim.pos = 0
      BY <1>2, <1>6, <2>1, <2>2 DEF Toward
    <2>3. CASE d.sim.pos # 0
      <3>1. PICK l \in d.sim.levels :
               l.name = "stop" /\ l.trade = d.sim.order.trade /\ l.size = -p.direction * Size
        BY <2>1, <2>3 DEF StopRests
      <3>2. TakesAll(-p.direction * Size, d.sim.pos)
        BY <1>1, <1>2, <1>3, <1>8, <2>3, StopTakesAll DEF Held, p
      <3>3. sim.pos = 0 \/ l \in sim.levels
        BY <1>5, <3>1, <3>2 DEF Moves
      <3> QED
        BY <1>6, <2>1, <3>1, <3>3 DEF StopRests
    <2> QED
      BY <2>2, <2>3
  <1>12. Balanced(e) /\ Counted(e) /\ e.faithful
    BY <1>1, <1>7, <1>8 DEF Balanced, Counted, Faithful, p
  <1>13. ASSUME ~sim.strayed PROVE \E worth \in Int : Walked(e, worth)
    <2>1. Faith(d)
      BY <1>1, <1>5, <1>13 DEF Moves, Faithful
    <2> DEFINE worth == d.sim.cash + d.sim.pos * p.entry
    <2>2. worth \in Int
      BY <1>2, <1>3
    <2>3. /\ d.sim.pos = p.direction * p.remaining
          /\ p.realised = Unit * worth
          /\ p.levels = Own(d.sim.levels, d.sim.order.trade)
          /\ IsLadder(p.levels, p)
          /\ ~p.protected => p.remaining = Size /\ p.levels = {}
      BY <2>1, <1>8 DEF Faith, Direction, Trade, p
    <2>4. p.levels \subseteq d.sim.levels /\ OnLadder(d.sim, p)
      BY <1>2, <2>3, DeskType DEF OnLadder, Own, Simulators
    <2> HIDE DEF worth
    <2>5. /\ OnLadder(sim, p)
          /\ Climbed(sim, p, worth) \/ Stopped(sim, p, worth)
      <3>1. worth = d.sim.cash + d.sim.pos * p.entry
        BY DEF worth
      <3>2. sim = Walk(d.sim, <<x, y, z>>)
        BY <1>4 DEF sim
      <3>3. ~Walk(d.sim, <<x, y, z>>).strayed
        BY <1>13, <3>2
      <3> QED
        BY ONLY <1>1, <1>2, <1>4, <2>2, <2>3, <2>4, <3>1, <3>2, <3>3, WalkLadder
    <2>6. Walked(e, worth)
      BY <1>7, <2>3, <2>5 DEF Walked
    <2> QED
      BY <2>2, <2>6
  <1>14. Unsettled(e)
    BY <1>1, <1>6, <1>7, <1>8, <1>9, <1>10, <1>11, <1>12, <1>13 DEF Unsettled
  <1> QED
    BY <1>7, <1>8, <1>14 DEF e, sim

LEMMA MagnitudeOf ==
  ASSUME NEW direction \in {1, -1}, NEW remaining \in Nat, NEW pos \in Int,
         Toward(pos, direction * remaining)
  PROVE  /\ Magnitude(pos) \in Nat /\ Magnitude(pos) <= remaining
         /\ pos = direction * Magnitude(pos)
         /\ Magnitude(pos) = 0 <=> pos = 0
  <1>1. CASE direction = 1
    BY <1>1 DEF Toward, Magnitude
  <1>2. CASE direction = -1
    BY <1>2 DEF Toward, Magnitude
  <1> QED
    BY <1>1, <1>2

LEMMA MagnitudeLeft ==
  ASSUME NEW direction \in {1, -1}, NEW remaining \in Nat, NEW taken \in Nat,
         taken <= remaining, NEW pos, pos = direction * (remaining - taken)
  PROVE  Magnitude(pos) = remaining - taken
  <1>1. CASE direction = 1
    BY <1>1 DEF Magnitude
  <1>2. CASE direction = -1
    BY <1>2 DEF Magnitude
  <1> QED
    BY <1>1, <1>2

\* The levels that are gone from a ladder whose stop rests are rungs, and what is held tells
\* how many contracts they were for.
LEMMA ClimbedGone ==
  ASSUME NEW d \in Desks, Tracked(d), NEW worth \in Int, Walked(d, worth),
         Climbed(d.sim, d.position, worth),
         NEW p, p = d.position, NEW gone, gone = Spent(d.sim, p), NEW held, held = Magnitude(d.sim.pos)
  PROVE  /\ \A l \in gone : IsRung(l, p.direction, p.entry)
         /\ Contracts(NamesOf(gone)) \in Nat
         /\ held = p.remaining - Contracts(NamesOf(gone))
         /\ gone # {} => held # p.remaining
  <1>1. /\ p \in Positions /\ p.direction \in {1, -1} /\ p.entry \in Int /\ p.remaining \in Nat
        /\ p.levels \in SUBSET Levels
    BY LedgerOf, PositionType
  <1>2. /\ IsLadder(p.levels, p)
        /\ \A l \in gone : l.name # "stop"
        /\ d.sim.pos = p.direction * (p.remaining - Contracts(NamesOf(gone)))
    BY DEF Walked, Climbed
  <1>3. gone \in SUBSET p.levels
    BY DEF Spent
  <1>4. \A l \in gone : IsRung(l, p.direction, p.entry)
    BY <1>2, <1>3 DEF IsLadder, IsStop
  <1>5. /\ Contracts(NamesOf(gone)) \in Nat
        /\ Contracts(NamesOf(gone)) <= p.remaining
    <2>1. NamesOf(gone) \subseteq NamesOf(p.levels)
      BY <1>3 DEF NamesOf
    <2>2. Contracts(NamesOf(gone)) <= Contracts(NamesOf(p.levels))
      BY <2>1, FewerRungs
    <2>3. Contracts(NamesOf(gone)) \in Nat /\ Contracts(NamesOf(p.levels)) \in Nat
      BY SumType
    <2> QED
      BY <1>1, <1>2, <2>2, <2>3 DEF IsLadder
  <1>6. held = p.remaining - Contracts(NamesOf(gone))
    BY <1>1, <1>2, <1>5, MagnitudeLeft
  <1>7. ASSUME gone # {} PROVE Contracts(NamesOf(gone)) > 0
    <2>1. PICK l \in gone : TRUE
      BY <1>7
    <2>2. l.size = -p.direction * Rung(l.name) /\ l.name \in RungNames /\ l.size # 0
      BY <1>1, <1>3, <1>4, LevelType DEF IsRung
    <2>3. Rung(l.name) \in Nat /\ Rung(l.name) # 0
      BY <1>1, <2>2, RungType
    <2>4. l.name \in NamesOf(gone)
      BY DEF NamesOf
    <2> QED
      BY <2>2, <2>3, <2>4, RungType DEF Contracts, RungNames
  <1> QED
    BY <1>1, <1>4, <1>5, <1>6, <1>7

\* What is known of a desk before it is settled.
LEMMA UnsettledFacts ==
  ASSUME NEW d, Unsettled(d), NEW p, p = d.position,
         NEW held, held = Magnitude(d.sim.pos), NEW gone, gone = Spent(d.sim, p)
  PROVE  /\ d \in Desks /\ d \in Ledgers /\ p \in Positions /\ p \in Parts
         /\ p.direction \in {1, -1} /\ p.entry \in Int /\ p.remaining \in Nat
         /\ 0 < p.remaining /\ p.remaining <= Size /\ p.realised \in Int /\ p.fees \in Int
         /\ held \in Nat /\ held <= p.remaining /\ d.sim.pos = p.direction * held
         /\ (held = 0 <=> d.sim.pos = 0)
         /\ gone \in SUBSET Levels /\ IsFiniteSet(gone) /\ gone \in SUBSET p.levels
  <1>1. d \in Desks /\ Tracked(d) /\ IsFiniteSet(p.levels) /\ Toward(d.sim.pos, p.direction * p.remaining)
    BY DEF Unsettled, Typed, Held, Direction
  <1>2. /\ d \in Ledgers /\ p \in Positions /\ p \in Parts /\ d.sim.pos \in Int
    BY <1>1, LedgerOf, DeskType
  <1>3. /\ p.direction \in {1, -1} /\ p.entry \in Int /\ p.remaining \in Nat
        /\ 0 < p.remaining /\ p.remaining <= Size /\ p.realised \in Int /\ p.fees \in Int
        /\ p.levels \in SUBSET Levels
    BY <1>2, PositionType
  <1>4. /\ held \in Nat /\ held <= p.remaining /\ d.sim.pos = p.direction * held
        /\ (held = 0 <=> d.sim.pos = 0)
    BY <1>1, <1>2, <1>3, MagnitudeOf
  <1>5. gone \in SUBSET p.levels
    BY DEF Spent
  <1>6. gone \in SUBSET Levels /\ IsFiniteSet(gone)
    BY <1>1, <1>3, <1>5, FS_Subset
  <1> QED
    BY <1>1, <1>2, <1>3, <1>4, <1>5, <1>6

\* Nothing is missing: the desk stays as it is.
LEMMA SettleStays ==
  ASSUME NEW d, Unsettled(d), Magnitude(d.sim.pos) = d.position.remaining
  PROVE  DeskOK(d)
  <1>1. PICK p : p = d.position
    OBVIOUS
  <1>2. PICK held : held = Magnitude(d.sim.pos)
    OBVIOUS
  <1>3. PICK gone : gone = Spent(d.sim, p)
    OBVIOUS
  <1>4. /\ d \in Desks /\ p \in Positions
        /\ p.direction \in {1, -1} /\ p.entry \in Int /\ p.remaining \in Nat
        /\ 0 < p.remaining /\ d.sim.pos = p.direction * held /\ held = p.remaining
        /\ d.sim.pos # 0
    BY <1>1, <1>2, <1>3, UnsettledFacts
  <1>5. ASSUME ~d.sim.strayed PROVE Faith(d)
    <2>1. PICK worth \in Int : Walked(d, worth)
      BY <1>5 DEF Unsettled
    <2>2. Climbed(d.sim, p, worth)
      BY <1>1, <1>4, <2>1 DEF Walked, Stopped
    <2>3. Tracked(d)
      BY DEF Unsettled
    <2>4. gone = {}
      BY <1>1, <1>2, <1>3, <1>4, <2>1, <2>2, <2>3, ClimbedGone
    <2>5. Worth(NamesOf(gone)) = 0
      BY <2>4 DEF NamesOf, Worth
    <2>6. d.sim.cash + d.sim.pos * p.entry = worth
      BY <1>3, <2>1, <2>2, <2>5 DEF Climbed
    <2>7. p.levels = Own(d.sim.levels, d.sim.order.trade)
      BY <1>1, <1>3, <2>1, <2>4 DEF Walked, OnLadder, Spent
    <2> QED
      BY <1>1, <1>4, <2>1, <2>6, <2>7 DEF Walked, Faith, Direction, Trade
  <1> QED
    BY <1>5 DEF Unsettled, DeskOK, Kept, Faithful

LEMMA RungsLeft ==
  ASSUME NEW p \in Positions, IsLadder(p.levels, p), NEW gone \in SUBSET p.levels,
         NEW q, q.levels = p.levels \ gone, q.direction = p.direction, q.entry = p.entry,
         q.remaining = p.remaining - Contracts(NamesOf(gone))
  PROVE  IsLadder(q.levels, q)
  <1>1. p.remaining \in Int
    BY PositionType
  <1>2. Distinct(p.levels) /\ Contracts(NamesOf(p.levels)) <= p.remaining
    BY DEF IsLadder
  <1>3. Distinct(q.levels)
    BY <1>2 DEF Distinct
  <1>4. Contracts(NamesOf(p.levels)) = Contracts(NamesOf(gone)) + Contracts(NamesOf(q.levels))
    BY <1>2, SplitLevels
  <1>5. Contracts(NamesOf(q.levels)) <= q.remaining
    BY <1>1, <1>2, <1>4, SumType
  <1> QED
    BY <1>3, <1>5 DEF IsLadder

\* Some is missing: it is booked, and less is tracked.
LEMMA SettlePart ==
  ASSUME NEW d, Unsettled(d), NEW held, held = Magnitude(d.sim.pos),
         held # 0, held # d.position.remaining,
         NEW e, e = Rebooked(d, AllBooked(d, held, Spent(d.sim, d.position)), held)
  PROVE  DeskOK(e) /\ e.unprotected = d.unprotected /\ Trade(e) = Trade(d)
  <1>1. PICK p : p = d.position
    OBVIOUS
  <1>2. PICK gone : gone = Spent(d.sim, p)
    OBVIOUS
  <1>3. PICK all : all = AllBooked(d, held, gone)
    OBVIOUS
  <1>4. /\ d \in Desks /\ d \in Ledgers /\ p \in Positions /\ p \in Parts
        /\ p.direction \in {1, -1} /\ p.entry \in Int /\ p.remaining \in Nat
        /\ 0 < p.remaining /\ p.remaining <= Size /\ p.realised \in Int /\ p.fees \in Int
        /\ held \in Nat /\ held <= p.remaining /\ d.sim.pos = p.direction * held
        /\ (held = 0 <=> d.sim.pos = 0)
        /\ gone \in SUBSET Levels /\ IsFiniteSet(gone) /\ gone \in SUBSET p.levels
    BY <1>1, <1>2, UnsettledFacts
  <1>5. /\ Booking(all, d)
        /\ Books(d, held, gone).position.remaining = held => all = Books(d, held, gone)
    BY <1>3, <1>4, AllBookedKeeps
  <1>6. /\ all \in Ledgers /\ SameReport(all, d) /\ SamePosition(all.position, p)
        /\ all.position.levels \subseteq p.levels /\ Margin(all) = Margin(d)
    BY <1>1, <1>5 DEF Booking
  <1>7. held \in 1..Size
    BY <1>4, SizeType
  <1>8. /\ e \in Desks /\ e.position \in Positions
        /\ SameReport(e, d) /\ e.equity = all.equity
        /\ SamePosition(e.position, all.position) /\ e.position.levels = all.position.levels
        /\ e.position.realised = all.position.realised
        /\ e.position.fees = all.position.fees
        /\ e.position.remaining = held
    <2>1. e = Rebooked(d, all, held)
      BY <1>1, <1>2, <1>3, Zenon
    <2>2. held \in Int
      BY <1>4
    <2> QED
      <3>1. d \in Ledgers /\ all \in Ledgers
        BY ONLY <1>4, <1>6
      <3>2. LET new == Rebooked(d, all, held)
            IN /\ new \in Ledgers
               /\ held \in 1..Size => new \in Desks /\ new.position \in Positions
               /\ SameReport(new, d) /\ new.equity = all.equity
               /\ SamePosition(new.position, all.position)
               /\ new.position.levels = all.position.levels
               /\ new.position.realised = all.position.realised
               /\ new.position.fees = all.position.fees
               /\ new.position.remaining = held
        BY ONLY <2>2, <3>1, RebookedFields
      <3> QED
        BY ONLY <1>7, <2>1, <3>2
  <1>9. /\ e.sim = d.sim /\ e.filled = d.filled /\ e.flattened = d.flattened
        /\ e.charged = d.charged /\ e.unprotected = d.unprotected
        /\ e.trades = d.trades /\ e.faithful = d.faithful
        /\ e.position.direction = p.direction /\ e.position.entry = p.entry
        /\ e.position.stop = p.stop /\ e.position.protected = p.protected
        /\ e.position.levels \subseteq p.levels
    BY <1>6, <1>8 DEF SameReport, SamePosition
  <1>10. Tracked(e) /\ Tracked(d) /\ Trade(e) = Trade(d) /\ Direction(e) = Direction(d)
         /\ Direction(d) = p.direction
    BY <1>1, <1>8, <1>9, PositionAssumption DEF Tracked, Trade, Direction, Unsettled
  <1>11. Typed(e)
    <2>1. IsFiniteSet(e.position.levels)
      BY <1>1, <1>9, FS_Subset DEF Unsettled, Typed
    <2> QED
      BY <1>1, <1>8, <1>9, <1>10, <2>1 DEF Typed, Unsettled
  <1>12. Held(e)
    <2>1. Toward(p.direction * held, p.direction * held)
      BY <1>4 DEF Toward
    <2> QED
      BY <1>4, <1>8, <1>9, <1>10, <2>1 DEF Held
  <1>13. Guarded(e)
    BY <1>1, <1>9, <1>10 DEF Guarded, Unsettled
  <1>14. Counted(e)
    BY <1>9, <1>10 DEF Counted, Unsettled
  <1>15. Balanced(e)
    <2>1. /\ all.equity \in Int /\ all.position.realised \in Int /\ all.position.fees \in Int
      BY <1>6, PartType DEF Ledgers
    <2>2. d.equity \in Int /\ Net(d.trades) \in Int /\ d.charged \in Int
      BY <1>4, DeskType
    <2>3. d.equity = Net(d.trades) - d.charged + (p.realised - p.fees)
      BY <1>1, <1>10 DEF Balanced, Unsettled
    <2>4. all.equity - (all.position.realised - all.position.fees)
            = d.equity - (p.realised - p.fees)
      BY <1>1, <1>6 DEF Margin
    <2>5. all.equity = Net(d.trades) - d.charged + (all.position.realised - all.position.fees)
      BY <1>4, <2>1, <2>2, <2>3, <2>4
    <2> QED
      BY <1>8, <1>9, <1>10, <2>5 DEF Balanced
  <1>16. ASSUME ~e.sim.strayed PROVE Faith(e)
    <2>1. PICK worth \in Int : Walked(d, worth)
      BY <1>9, <1>16 DEF Unsettled
    <2>2. Climbed(d.sim, p, worth)
      BY <1>1, <1>4, <2>1 DEF Walked, Stopped
    <2>3. /\ \A l \in gone : IsRung(l, p.direction, p.entry)
          /\ held = p.remaining - Contracts(NamesOf(gone))
      <3>1. d \in Desks /\ Tracked(d)
        BY ONLY <1>4, <1>10, Unsettled(d) DEF Unsettled
      <3>2. Climbed(d.sim, d.position, worth)
        BY ONLY <1>1, <2>2
      <3> QED
        BY ONLY <1>1, <1>2, <2>1, <3>1, <3>2, held = Magnitude(d.sim.pos), ClimbedGone
    <2>4. IsLadder(p.levels, p) /\ Distinct(gone)
      BY <1>1, <1>4, <2>1 DEF Walked, IsLadder, Distinct
    <2>5. /\ all.position.levels = p.levels \ gone
          /\ all.position.realised = p.realised + Unit * Worth(NamesOf(gone))
      <3>1. held \in Int
        BY <1>4
      <3> QED
        BY <1>1, <1>4, <1>5, <2>3, <2>4, <3>1, BookedRungs
    <2>6. e.position.realised = Unit * (d.sim.cash + d.sim.pos * p.entry)
      <3>1. d.sim.cash + d.sim.pos * p.entry = worth + Worth(NamesOf(gone))
        BY <1>2, <2>2 DEF Climbed
      <3>2. p.realised = Unit * worth
        BY <1>1, <2>1 DEF Walked
      <3>3. Worth(NamesOf(gone)) \in Int /\ Unit \in Int
        BY SumType, SizeType
      <3>4. ASSUME NEW u \in Int, NEW v \in Int, NEW w \in Int
            PROVE  u * v + u * w = u * (v + w)
        OBVIOUS
      <3> QED
        BY <1>8, <2>5, <3>1, <3>2, <3>3, <3>4
    <2>7. e.position.levels = Own(e.sim.levels, Trade(e))
      BY <1>1, <1>2, <1>8, <1>9, <2>1, <2>5 DEF Walked, OnLadder, Spent, Trade
    <2>8. IsLadder(e.position.levels, e.position)
      BY <1>4, <1>8, <1>9, <2>3, <2>4, <2>5, RungsLeft
    <2>9. p.protected
      <3> SUFFICES ASSUME ~p.protected PROVE FALSE
        OBVIOUS
      <3>1. gone = {}
        BY <1>1, <1>4, <2>1 DEF Walked
      <3>2. Contracts(NamesOf(gone)) = 0
        BY <3>1 DEF Contracts, NamesOf
      <3> QED
        BY <1>1, <1>4, <2>3, <3>2
    <2>10. /\ e.sim.pos = Direction(e) * e.position.remaining
           /\ e.position.realised = Unit * (e.sim.cash + e.sim.pos * e.position.entry)
      BY <1>4, <1>8, <1>9, <1>10, <2>6
    <2> QED
      BY <1>9, <2>7, <2>8, <2>9, <2>10, Zenon DEF Faith
  <1>17. Faithful(e)
    BY <1>9, <1>16 DEF Faithful, Unsettled
  <1>18. e.sim.order.status # "open"
    BY <1>9 DEF Unsettled
  <1> QED
    BY <1>9, <1>10, <1>11, <1>12, <1>13, <1>14, <1>15, <1>17, <1>18 DEF DeskOK, Kept

\* All is missing: the rest is booked, and the trade is closed.
LEMMA SettleClose ==
  ASSUME NEW d, Unsettled(d), NEW held, held = Magnitude(d.sim.pos), held = 0,
         NEW r, r = Rebooked(d, AllBooked(d, held, Spent(d.sim, d.position)), held),
         NEW e, e = CloseTrade(r)
  PROVE  DeskOK(e) /\ ~Tracked(e) /\ e.unprotected = d.unprotected /\ Trade(e) = Trade(d)
  <1>1. PICK p : p = d.position
    OBVIOUS
  <1>2. PICK gone : gone = Spent(d.sim, p)
    OBVIOUS
  <1>3. PICK all : all = AllBooked(d, held, gone)
    OBVIOUS
  <1>4. /\ d \in Desks /\ d \in Ledgers /\ p \in Positions /\ p \in Parts
        /\ p.direction \in {1, -1} /\ p.entry \in Int /\ p.remaining \in Nat
        /\ 0 < p.remaining /\ p.remaining <= Size /\ p.realised \in Int /\ p.fees \in Int
        /\ held \in Nat /\ d.sim.pos = 0
        /\ gone \in SUBSET Levels /\ IsFiniteSet(gone) /\ gone \in SUBSET p.levels
    <2>1. /\ d \in Desks /\ d \in Ledgers /\ p \in Positions /\ p \in Parts
          /\ p.direction \in {1, -1} /\ p.entry \in Int /\ p.remaining \in Nat
          /\ 0 < p.remaining /\ p.remaining <= Size /\ p.realised \in Int /\ p.fees \in Int
          /\ held \in Nat /\ held <= p.remaining /\ d.sim.pos = p.direction * held
          /\ (held = 0 <=> d.sim.pos = 0)
          /\ gone \in SUBSET Levels /\ IsFiniteSet(gone) /\ gone \in SUBSET p.levels
      BY ONLY Unsettled(d), held = Magnitude(d.sim.pos), <1>1, <1>2, UnsettledFacts
    <2> QED
      BY ONLY <2>1, held = 0
  <1>0. d \in Desks /\ held = Magnitude(d.sim.pos)
    BY <1>4
  <1>5. held \in Int
    BY <1>4
  <1>6. /\ Booking(all, d)
        /\ Books(d, held, gone).position.remaining = held => all = Books(d, held, gone)
    BY <1>3, <1>4, <1>5, AllBookedKeeps
  <1>7. /\ all \in Ledgers /\ SameReport(all, d) /\ Margin(all) = Margin(d)
    BY <1>6 DEF Booking
  <1>8. /\ r \in Ledgers /\ SameReport(r, d) /\ r.equity = all.equity
        /\ r.position.realised = all.position.realised
        /\ r.position.fees = all.position.fees
    <2>1. r = Rebooked(d, all, held)
      BY <1>1, <1>2, <1>3, Zenon
    <2> QED
      <3>1. d \in Ledgers /\ all \in Ledgers
        BY ONLY <1>4, <1>7
      <3>2. LET new == Rebooked(d, all, held)
            IN /\ new \in Ledgers
               /\ held \in 1..Size => new \in Desks /\ new.position \in Positions
               /\ SameReport(new, d) /\ new.equity = all.equity
               /\ SamePosition(new.position, all.position)
               /\ new.position.levels = all.position.levels
               /\ new.position.realised = all.position.realised
               /\ new.position.fees = all.position.fees
               /\ new.position.remaining = held
        BY ONLY <1>5, <3>1, RebookedFields
      <3> QED
        BY ONLY <2>1, <3>2
  <1>9. /\ r.sim = d.sim /\ r.filled = d.filled /\ r.flattened = d.flattened
        /\ r.charged = d.charged /\ r.unprotected = d.unprotected
        /\ r.trades = d.trades /\ r.faithful = d.faithful
    BY <1>8 DEF SameReport
  <1>10. Tracked(d) /\ Typed(d) /\ Balanced(d) /\ Counted(d) /\ d.faithful
         /\ d.sim.order.status # "open"
    BY DEF Unsettled
  <1>11. r.equity = Net(r.trades) - r.charged + (r.position.realised - r.position.fees)
    <2>1. /\ all.equity \in Int /\ all.position.realised \in Int /\ all.position.fees \in Int
      BY <1>7, PartType DEF Ledgers
    <2>2. d.equity \in Int /\ Net(d.trades) \in Int /\ d.charged \in Int
      BY <1>4, DeskType
    <2>3. d.equity = Net(d.trades) - d.charged + (p.realised - p.fees)
      BY <1>1, <1>10 DEF Balanced
    <2>4. all.equity - (all.position.realised - all.position.fees)
            = d.equity - (p.realised - p.fees)
      BY <1>1, <1>7 DEF Margin
    <2>5. all.equity = Net(d.trades) - d.charged + (all.position.realised - all.position.fees)
      BY <1>4, <2>1, <2>2, <2>3, <2>4
    <2> QED
      BY <1>8, <1>9, <2>5
  <1>12. Booked(r)
    <2>1. IsFiniteSet(r.sim.levels) /\ \A l \in r.sim.levels : l.trade <= Trade(r)
      BY <1>9, <1>10 DEF Typed, Trade
    <2>2. Len(r.trades) + r.flattened + 2 <= 2 * r.filled
      BY <1>9, <1>10 DEF Counted
    <2> QED
      BY <1>8, <1>9, <1>10, <1>11, <2>1, <2>2, Zenon DEF Booked
  <1>13. ASSUME ~r.sim.strayed PROVE r.position.realised = r.sim.cash * Unit
    <2>1. PICK worth \in Int : Walked(d, worth)
      BY <1>9, <1>13 DEF Unsettled
    <2>2. /\ IsLadder(p.levels, p) /\ Distinct(gone) /\ p.realised = Unit * worth
          /\ Climbed(d.sim, p, worth) \/ Stopped(d.sim, p, worth)
      BY <1>1, <1>4, <2>1 DEF Walked, IsLadder, Distinct
    <2>3. Unit \in Int /\ d.sim.cash \in Int
      BY <1>4, SizeType, DeskType
    <2>4. SUFFICES all.position.realised = Unit * d.sim.cash
      BY <1>8, <1>9, <2>3
    <2>5. CASE Climbed(d.sim, p, worth)
      <3>1. /\ \A l \in gone : IsRung(l, p.direction, p.entry)
            /\ held = p.remaining - Contracts(NamesOf(gone))
        BY ONLY <1>0, <1>1, <1>2, <1>10, <2>1, <2>5, ClimbedGone
      <3>2. all.position.realised = p.realised + Unit * Worth(NamesOf(gone))
        BY <1>1, <1>4, <1>5, <1>6, <2>2, <3>1, BookedRungs
      <3>3. d.sim.cash = worth + Worth(NamesOf(gone))
        <4>1. d.sim.cash + d.sim.pos * p.entry = worth + Worth(NamesOf(gone))
          BY <1>2, <2>5 DEF Climbed
        <4> QED
          BY <1>4, <2>3, <4>1
      <3>4. ASSUME NEW u \in Int, NEW v \in Int, NEW w \in Int
            PROVE  u * v + u * w = u * (v + w)
        OBVIOUS
      <3> QED
        BY <2>2, <2>3, <3>2, <3>3, <3>4, SumType
    <2>6. CASE Stopped(d.sim, p, worth)
      <3>1. PICK stop \in gone : stop.name = "stop"
        BY <1>2, <2>6 DEF Stopped
      <3>2. \A l \in gone : \/ IsStop(l, p.direction, p.entry)
                            \/ IsRung(l, p.direction, p.entry)
        BY <1>4, <2>2 DEF IsLadder
      <3>3. /\ Books(d, 0, gone).position.remaining = 0
            /\ Books(d, 0, gone).position.realised
                 = p.realised - Unit * (p.remaining * (StopTicks - 1))
        BY ONLY <1>1, <1>4, <2>2, <3>1, <3>2, BookedStop
      <3>4. all.position.realised = p.realised - Unit * (p.remaining * (StopTicks - 1))
        BY <1>6, <3>3
      <3>5. d.sim.cash = worth - p.remaining * (StopTicks - 1)
        BY <2>6 DEF Stopped
      <3>6. ASSUME NEW u \in Int, NEW v \in Int, NEW w \in Int
            PROVE  u * v - u * w = u * (v - w)
        OBVIOUS
      <3>7. p.remaining * (StopTicks - 1) \in Int
        BY <1>4, SizeType
      <3> QED
        BY <2>2, <2>3, <3>4, <3>5, <3>6, <3>7
    <2> QED
      BY <2>2, <2>5, <2>6
  <1>14. DeskOK(e) /\ ~Tracked(e) /\ e.unprotected = r.unprotected /\ Trade(e) = Trade(r)
    BY <1>4, <1>9, <1>12, <1>13, CloseTradeKeeps
  <1> QED
    BY <1>9, <1>14 DEF Trade

\* Whatever the protective orders did, the desk is in order once it is settled.
LEMMA SettleKeeps ==
  ASSUME NEW d, Unsettled(d)
  PROVE  DeskOK(Settle(d)) /\ Settle(d).unprotected = d.unprotected /\ Trade(Settle(d)) = Trade(d)
  <1>1. PICK held : held = Magnitude(d.sim.pos)
    OBVIOUS
  <1>2. PICK r : r = Rebooked(d, AllBooked(d, held, Spent(d.sim, d.position)), held)
    OBVIOUS
  <1>3. Tracked(d)
    BY DEF Unsettled
  <1>4. Settle(d) = IF held = d.position.remaining THEN d
                    ELSE IF held = 0 THEN CloseTrade(r) ELSE r
    BY <1>1, <1>2, <1>3, SettlesTo, Zenon
  <1>5. CASE held = d.position.remaining
    BY <1>1, <1>4, <1>5, SettleStays
  <1>6. CASE held # d.position.remaining /\ held = 0
    <2>1. Settle(d) = CloseTrade(r)
      BY <1>4, <1>6
    <2>2. DeskOK(CloseTrade(r)) /\ CloseTrade(r).unprotected = d.unprotected
          /\ Trade(CloseTrade(r)) = Trade(d)
      <3>1. held = 0 /\ held = Magnitude(d.sim.pos)
        BY ONLY <1>1, <1>6
      <3>2. PICK e : e = CloseTrade(r)
        OBVIOUS
      <3>3. DeskOK(e) /\ ~Tracked(e) /\ e.unprotected = d.unprotected /\ Trade(e) = Trade(d)
        BY ONLY Unsettled(d), <1>2, <3>1, <3>2, SettleClose
      <3> QED
        BY ONLY <3>2, <3>3
    <2> QED
      BY <2>1, <2>2
  <1>7. CASE held # d.position.remaining /\ held # 0
    BY <1>1, <1>2, <1>4, <1>7, SettlePart
  <1> QED
    BY <1>5, <1>6, <1>7

\* A step begins: the market moves and what is gone is booked.
LEMMA SeenKeeps ==
  ASSUME DeskOK(desk), NEW b \in Bars
  PROVE  /\ DeskOK(Seen(b)) /\ Seen(b).unprotected = desk.unprotected
         /\ Trade(Seen(b)) = Trade(desk)
  <1>1. PICK e : e = Watched(desk, Walk(desk.sim, Path(b, desk)))
    OBVIOUS
  <1>2. Seen(b) = Settle(e)
    BY <1>1, Zenon DEF Seen, Watched
  <1>3. CASE Tracked(desk)
    BY <1>1, <1>2, <1>3, WatchTracked, SettleKeeps
  <1>4. CASE ~Tracked(desk)
    <2>1. /\ Typed(desk) /\ desk.sim.order.status # "open" /\ Held(desk) /\ Balanced(desk)
          /\ Counted(desk) /\ Faithful(desk) /\ Guarded(desk) /\ desk \in Desks
      BY DEF DeskOK, Kept, Typed
    <2>2. desk.sim \in Simulators /\ IsFiniteSet(desk.sim.levels) /\ desk.sim.pos = 0
      BY <1>4, <2>1, DeskType DEF Typed, Held
    <2>3. PICK x, y, z \in Int : Path(b, desk) = <<x, y, z>>
      BY PathWorstFirst
    <2>4. PICK sim : sim = Walk(desk.sim, Path(b, desk))
      OBVIOUS
    <2>5. Moves(sim, desk.sim) /\ IsFiniteSet(sim.levels)
      BY <2>1, <2>2, <2>3, <2>4, WalkMoves
    <2>6. /\ sim \in Simulators /\ sim.order = desk.sim.order
          /\ sim.levels \subseteq desk.sim.levels /\ sim.pos = 0
      BY <2>2, <2>5 DEF Moves, Toward, Simulators
    <2>7. /\ e \in Desks /\ e.sim = sim /\ e.position = desk.position /\ e.equity = desk.equity
          /\ e.filled = desk.filled /\ e.flattened = desk.flattened /\ e.charged = desk.charged
          /\ e.unprotected = desk.unprotected /\ e.trades = desk.trades
          /\ e.faithful = desk.faithful
      BY <1>1, <2>1, <2>4, <2>6, WatchedFields
    <2>8. ~Tracked(e) /\ Trade(e) = Trade(desk)
      BY <1>4, <2>6, <2>7 DEF Tracked, Trade
    <2>9. Settle(e) = e
      BY <2>8, SettlesTo, Zenon
    <2>10. Typed(e)
      BY <2>1, <2>5, <2>6, <2>7, <2>8 DEF Typed
    <2>11. Held(e) /\ Guarded(e) /\ Balanced(e) /\ Counted(e) /\ Faithful(e)
           /\ e.sim.order.status # "open"
      BY <1>4, <2>1, <2>6, <2>7, <2>8 DEF Held, Guarded, Balanced, Counted, Faithful
    <2> QED
      BY <1>2, <2>7, <2>8, <2>9, <2>10, <2>11 DEF DeskOK, Kept
  <1> QED
    BY <1>3, <1>4

(***************************************************************************)
(* Closing at the market.                                                  *)
(***************************************************************************)

WithSim(d, sim) == [d EXCEPT !.sim = sim]

LEMMA WithSimFields ==
  ASSUME NEW d \in Desks, NEW sim \in Simulators
  PROVE  LET e == WithSim(d, sim)
         IN /\ e \in Desks /\ e.sim = sim /\ e.position = d.position /\ e.equity = d.equity
            /\ e.filled = d.filled /\ e.flattened = d.flattened /\ e.charged = d.charged
            /\ e.unprotected = d.unprotected /\ e.unconfirmed = d.unconfirmed
            /\ e.trades = d.trades /\ e.faithful = d.faithful
  BY DEF Desks, WithSim

LEMMA CloseAtMarketFields ==
  ASSUME NEW sim \in Simulators
  PROVE  LET after == CloseAtMarket(sim)
         IN /\ after \in Simulators /\ after.pos = 0
            /\ after.cash = sim.cash + sim.pos * sim.last
            /\ after.order = sim.order /\ after.levels = sim.levels /\ after.last = sim.last
            /\ after.strayed = sim.strayed
  <1> DEFINE pos == sim.pos + (-sim.pos)
             cash == sim.cash - (-sim.pos) * sim.last
             after == CloseAtMarket(sim)
  <1>1. sim.pos \in Int /\ sim.cash \in Int /\ sim.last \in Int
    BY DEF Simulators
  <1>2. pos = 0 /\ pos \in Int
    BY <1>1
  <1>3. cash = sim.cash + sim.pos * sim.last /\ cash \in Int
    <2>1. ASSUME NEW x \in Int, NEW y \in Int, NEW z \in Int
          PROVE  z - (-x) * y = z + x * y /\ z - (-x) * y \in Int
      OBVIOUS
    <2> QED
      BY <1>1, <2>1
  <1>4. after = [sim EXCEPT !.pos = pos, !.cash = cash]
    BY DEF CloseAtMarket, ApplyFill
  <1> HIDE DEF pos, cash, after
  <1>5. after \in Simulators
    BY <1>2, <1>3, <1>4 DEF Simulators
  <1>6. /\ after.pos = pos /\ after.cash = cash /\ after.order = sim.order
        /\ after.levels = sim.levels /\ after.last = sim.last /\ after.strayed = sim.strayed
    BY <1>4 DEF Simulators
  <1> QED
    BY <1>2, <1>3, <1>5, <1>6 DEF after

\* What closing the rest at the market would book is what it would exchange.
Settles(d) ==
    ~d.sim.strayed =>
        d.position.realised + Pnl(d.position, d.sim.last, d.position.remaining)
            = Unit * (d.sim.cash + d.sim.pos * d.sim.last)

\* A tracked position that may be closed.
Closable(d) ==
    /\ Typed(d) /\ Tracked(d) /\ d.sim.order.status # "open"
    /\ Balanced(d) /\ Counted(d)
    /\ d.faithful
    /\ Settles(d)

LEMMA FaithSettles ==
  ASSUME NEW d \in Desks, Tracked(d), Faith(d)
  PROVE  Settles(d)
  <1>1. PICK p : p = d.position
    OBVIOUS
  <1>2. p \in Positions /\ p \in Parts /\ d.sim.last \in Int /\ d.sim.cash \in Int
        /\ d.sim.pos \in Int
    BY <1>1, LedgerOf, DeskType
  <1>3. /\ p.direction \in {1, -1} /\ p.entry \in Int /\ p.remaining \in Int /\ Unit \in Int
    BY <1>2, PositionType, SizeType
  <1>4. /\ d.sim.pos = p.direction * p.remaining
        /\ p.realised = Unit * (d.sim.cash + d.sim.pos * p.entry)
    BY <1>1 DEF Faith, Direction
  <1>5. PICK far \in Int : far = p.direction * (d.sim.last - p.entry)
    BY <1>2, <1>3
  <1>6. d.sim.last - p.entry = p.direction * far
    BY <1>2, <1>3, <1>5
  <1>7. Pnl(p, d.sim.last, p.remaining) = Unit * (p.remaining * far)
    BY <1>2, <1>3, <1>6, PnlOf
  <1>8. p.remaining * far = d.sim.pos * (d.sim.last - p.entry)
    <2>1. CASE p.direction = 1
      BY <1>2, <1>3, <1>4, <1>5, <2>1
    <2>2. CASE p.direction = -1
      <3>1. d.sim.pos = -p.remaining /\ far = -(d.sim.last - p.entry)
        BY <1>2, <1>3, <1>4, <1>5, <2>2
      <3>2. ASSUME NEW r \in Int, NEW x \in Int PROVE r * (-x) = (-r) * x
        OBVIOUS
      <3>3. d.sim.last - p.entry \in Int
        BY <1>2, <1>3
      <3> QED
        BY <1>3, <3>1, <3>2, <3>3
    <2> QED
      BY <1>3, <2>1, <2>2
  <1>9. ASSUME NEW u \in Int, NEW c \in Int, NEW n \in Int, NEW e \in Int, NEW l \in Int
        PROVE  u * (c + n * e) + u * (n * (l - e)) = u * (c + n * l)
    <2>1. n * (l - e) = n * l - n * e /\ n * l \in Int /\ n * e \in Int
      OBVIOUS
    <2>2. u * (c + n * e) = u * c + u * (n * e)
      BY <2>1
    <2>3. u * (n * l - n * e) = u * (n * l) - u * (n * e)
      BY <2>1
    <2>4. u * (c + n * l) = u * c + u * (n * l)
      BY <2>1
    <2>5. u * c \in Int /\ u * (n * l) \in Int /\ u * (n * e) \in Int
      BY <2>1
    <2> QED
      BY <2>1, <2>2, <2>3, <2>4, <2>5
  <1>10. p.realised + Pnl(p, d.sim.last, p.remaining)
           = Unit * (d.sim.cash + d.sim.pos * d.sim.last)
    BY <1>2, <1>3, <1>4, <1>7, <1>8, <1>9
  <1> QED
    BY <1>1, <1>10 DEF Settles

LEMMA KeptCloses ==
  ASSUME NEW d, Kept(d), Tracked(d)
  PROVE  Closable(d)
  <1>1. d \in Desks
    BY DEF Kept, Typed
  <1>2. Settles(d)
    <2>1. CASE d.sim.strayed
      BY <2>1 DEF Settles
    <2>2. CASE ~d.sim.strayed
      BY <1>1, <2>2, FaithSettles DEF Kept, Faithful
    <2> QED
      BY <2>1, <2>2
  <1> QED
    BY <1>2 DEF Kept, Closable, Faithful

LEMMA CloseCallKeeps ==
  ASSUME NEW d, Closable(d), NEW works \in BOOLEAN, NEW e, e = CloseCall(d, works)
  PROVE  /\ Closable(e) /\ e.position = d.position /\ Trade(e) = Trade(d)
         /\ e.unprotected = d.unprotected
         /\ e.sim.last = d.sim.last
         /\ e.sim.pos # 0 => e = d /\ ~works
         /\ d.sim.pos = 0 => e.sim.pos = 0
         /\ works => e.sim.pos = 0
         /\ e.equity = d.equity /\ e.filled = d.filled /\ e.flattened = d.flattened
         /\ e.charged = d.charged /\ e.trades = d.trades /\ e.faithful = d.faithful
         /\ e.sim.levels = d.sim.levels
  <1>1. CASE works
    <2>1. PICK sim : sim = CloseAtMarket(d.sim)
      OBVIOUS
    <2>2. e = WithSim(d, sim)
      BY <1>1, <2>1 DEF CloseCall, WithSim
    <2>3. d \in Desks /\ d.sim \in Simulators
      BY DeskType DEF Closable, Typed
    <2>4. /\ sim \in Simulators /\ sim.pos = 0
          /\ sim.cash = d.sim.cash + d.sim.pos * d.sim.last
          /\ sim.order = d.sim.order /\ sim.levels = d.sim.levels /\ sim.last = d.sim.last
          /\ sim.strayed = d.sim.strayed
      BY <2>1, <2>3, CloseAtMarketFields
    <2>5. /\ e \in Desks /\ e.sim = sim /\ e.position = d.position /\ e.equity = d.equity
          /\ e.filled = d.filled /\ e.flattened = d.flattened /\ e.charged = d.charged
          /\ e.unprotected = d.unprotected /\ e.unconfirmed = d.unconfirmed
          /\ e.trades = d.trades /\ e.faithful = d.faithful
      BY <2>2, <2>3, <2>4, WithSimFields
    <2>6. Trade(e) = Trade(d) /\ Tracked(e) /\ Direction(e) = Direction(d)
      BY <2>4, <2>5 DEF Trade, Tracked, Closable, Direction
    <2>7. Typed(e)
      BY <2>4, <2>5, <2>6 DEF Typed, Closable
    <2>8. Balanced(e) /\ Counted(e) /\ e.faithful /\ e.sim.order.status # "open"
      BY <2>4, <2>5, <2>6 DEF Balanced, Counted, Closable
    <2>9. Settles(e)
      <3> SUFFICES ASSUME ~d.sim.strayed
                   PROVE  d.position.realised + Pnl(d.position, d.sim.last, d.position.remaining)
                            = Unit * (sim.cash + sim.pos * sim.last)
        BY <2>4, <2>5 DEF Settles
      <3>1. d.position.realised + Pnl(d.position, d.sim.last, d.position.remaining)
              = Unit * (d.sim.cash + d.sim.pos * d.sim.last)
        BY DEF Closable, Settles
      <3>2. sim.cash + sim.pos * sim.last = d.sim.cash + d.sim.pos * d.sim.last
        <4>1. sim.cash \in Int /\ sim.last \in Int
          BY <2>4 DEF Simulators
        <4>2. sim.pos * sim.last = 0
          BY <2>4, <4>1
        <4> QED
          BY <2>4, <4>1, <4>2
      <3> QED
        BY <3>1, <3>2
    <2> QED
      BY <1>1, <2>4, <2>5, <2>6, <2>7, <2>8, <2>9 DEF Closable
  <1>2. CASE ~works
    BY <1>2 DEF CloseCall
  <1> QED
    BY <1>1, <1>2

Unconfirmed(d) == [d EXCEPT !.unconfirmed = TRUE]
Admitted(d) == [d EXCEPT !.unprotected = TRUE]
FlattenedTo(d, n) == [d EXCEPT !.flattened = n]

LEMMA ReportFields ==
  ASSUME NEW d \in Desks
  PROVE  /\ LET e == Unconfirmed(d)
            IN /\ e \in Desks /\ e.sim = d.sim /\ e.position = d.position
               /\ e.equity = d.equity /\ e.filled = d.filled /\ e.flattened = d.flattened
               /\ e.charged = d.charged /\ e.unprotected = d.unprotected
               /\ e.trades = d.trades /\ e.faithful = d.faithful
         /\ LET e == Admitted(d)
            IN /\ e \in Desks /\ e.sim = d.sim /\ e.position = d.position
               /\ e.equity = d.equity /\ e.filled = d.filled /\ e.flattened = d.flattened
               /\ e.charged = d.charged /\ e.unprotected
               /\ e.trades = d.trades /\ e.faithful = d.faithful
  <1>1. LET e == Unconfirmed(d)
        IN /\ e \in Desks /\ e.sim = d.sim /\ e.position = d.position
           /\ e.equity = d.equity /\ e.filled = d.filled /\ e.flattened = d.flattened
           /\ e.charged = d.charged /\ e.unprotected = d.unprotected
           /\ e.trades = d.trades /\ e.faithful = d.faithful
    BY DEF Desks, Unconfirmed
  <1>2. LET e == Admitted(d)
        IN /\ e \in Desks /\ e.sim = d.sim /\ e.position = d.position
           /\ e.equity = d.equity /\ e.filled = d.filled /\ e.flattened = d.flattened
           /\ e.charged = d.charged /\ e.unprotected
           /\ e.trades = d.trades /\ e.faithful = d.faithful
    BY DEF Desks, Admitted
  <1> QED
    BY <1>1, <1>2

LEMMA FlattenedFields ==
  ASSUME NEW d \in Desks, NEW n \in Nat
  PROVE  LET e == FlattenedTo(d, n)
         IN /\ e \in Desks /\ e.sim = d.sim /\ e.position = d.position
            /\ e.equity = d.equity /\ e.filled = d.filled /\ e.flattened = n
            /\ e.charged = d.charged /\ e.unprotected = d.unprotected
            /\ e.trades = d.trades /\ e.faithful = d.faithful
  BY DEF Desks, FlattenedTo

\* What is known of a desk is known of one that differs only in what it admits to.
LEMMA KeptOf ==
  ASSUME NEW d, Kept(d), NEW e \in Desks, e.sim = d.sim, e.position = d.position,
         e.equity = d.equity, e.filled = d.filled, e.flattened = d.flattened,
         e.charged = d.charged, e.trades = d.trades, e.faithful = d.faithful
  PROVE  /\ Kept(e) /\ Tracked(e) = Tracked(d) /\ Trade(e) = Trade(d)
         /\ e.unprotected => DeskOK(e)
         /\ DeskOK(d) /\ e.unprotected = d.unprotected => DeskOK(e)
  <1>1. Tracked(e) = Tracked(d) /\ Trade(e) = Trade(d) /\ Direction(e) = Direction(d)
    BY DEF Tracked, Trade, Direction
  <1>2. Typed(e) /\ Held(e) /\ e.sim.order.status # "open"
    BY <1>1 DEF Typed, Held, Kept
  <1>3. Balanced(e) /\ Counted(e)
    BY <1>1 DEF Balanced, Counted, Kept
  <1>4. Faithful(e)
    BY <1>1 DEF Faithful, Faith, Kept
  <1>5. Kept(e)
    BY <1>2, <1>3, <1>4 DEF Kept
  <1>6. e.unprotected => Guarded(e)
    BY DEF Guarded
  <1>7. DeskOK(d) /\ e.unprotected = d.unprotected => Guarded(e)
    BY <1>1 DEF Guarded, DeskOK
  <1> QED
    BY <1>1, <1>5, <1>6, <1>7 DEF DeskOK

\* The position's levels are swept from the simulator.
Without(sim, levels) == [sim EXCEPT !.levels = @ \ levels]

LEMMA WithoutFields ==
  ASSUME NEW sim \in Simulators, NEW levels
  PROVE  LET after == Without(sim, levels)
         IN /\ after \in Simulators /\ after.pos = sim.pos /\ after.cash = sim.cash
            /\ after.order = sim.order /\ after.levels = sim.levels \ levels
            /\ after.last = sim.last /\ after.strayed = sim.strayed
  <1>1. sim.levels \ levels \in SUBSET Levels
    BY DEF Simulators
  <1> QED
    BY <1>1 DEF Simulators, Without

LEMMA FlattensTo ==
  ASSUME NEW d, d.position.remaining # 0, NEW works, NEW stage,
         NEW closed \in Desks, closed = CloseCall(d, works),
         NEW swept, swept = WithSim(closed, Without(closed.sim, d.position.levels)),
         NEW ended, ended = CloseTrade(BookFill(swept, d.sim.last, d.position.remaining))
  PROVE  /\ closed.sim.pos # 0 => Flatten(d, works, stage) = Unconfirmed(closed)
         /\ closed.sim.pos = 0 =>
               \/ Flatten(d, works, stage) = FlattenedTo(ended, ended.flattened + 1)
               \/ Flatten(d, works, stage) = FlattenedTo(ended, ended.flattened)
  <1>1. swept = [closed EXCEPT !.sim.levels = @ \ d.position.levels]
    BY DEF Desks, Simulators, WithSim, Without
  <1>2. Flatten(d, works, stage) =
          IF closed.sim.pos # 0 THEN [closed EXCEPT !.unconfirmed = TRUE]
          ELSE [ended EXCEPT !.flattened = IF stage = "protection" THEN @ + 1 ELSE @]
    BY <1>1, Zenon DEF Flatten
  <1> QED
    BY <1>2 DEF Unconfirmed, FlattenedTo

\* A flatten that is read back leaves nothing tracked and a desk in order; one that had no
\* effect leaves the position as it was.
LEMMA FlattenKeeps ==
  ASSUME NEW d, Closable(d), NEW works \in BOOLEAN, NEW stage,
         NEW e, e = Flatten(d, works, stage)
  PROVE  \/ e = Unconfirmed(d) /\ ~works /\ d.sim.pos # 0
         \/ DeskOK(e) /\ ~Tracked(e) /\ e.unprotected = d.unprotected
  <1>1. PICK p : p = d.position
    OBVIOUS
  <1>2. PICK closed : closed = CloseCall(d, works)
    OBVIOUS
  <1>3. /\ Closable(closed) /\ closed.position = p
        /\ closed.unprotected = d.unprotected /\ closed.sim.last = d.sim.last
        /\ closed.sim.pos # 0 => closed = d /\ ~works
    BY <1>1, <1>2, CloseCallKeeps
  <1>4. d \in Desks /\ closed \in Desks /\ Tracked(d)
    BY <1>3 DEF Closable, Typed
  <1>5. /\ p \in Positions /\ p \in Parts /\ p.remaining \in Int /\ p.remaining # 0
        /\ d.sim.last \in Int /\ closed.sim \in Simulators /\ p.realised \in Int /\ p.fees \in Int
    BY <1>1, <1>4, LedgerOf, PositionType, DeskType
  <1>6. PICK sim : sim = Without(closed.sim, p.levels)
    OBVIOUS
  <1>7. PICK swept : swept = WithSim(closed, sim)
    OBVIOUS
  <1>8. PICK booked : booked = BookFill(swept, d.sim.last, p.remaining)
    OBVIOUS
  <1>9. PICK ended : ended = CloseTrade(booked)
    OBVIOUS
  <1>10. /\ closed.sim.pos # 0 => e = Unconfirmed(closed)
         /\ closed.sim.pos = 0 => \/ e = FlattenedTo(ended, ended.flattened + 1)
                                  \/ e = FlattenedTo(ended, ended.flattened)
    BY <1>1, <1>2, <1>4, <1>5, <1>6, <1>7, <1>8, <1>9, FlattensTo
  <1>11. CASE closed.sim.pos # 0
    BY <1>3, <1>10, <1>11
  <1>12. CASE closed.sim.pos = 0
    <2>1. /\ sim \in Simulators /\ sim.pos = closed.sim.pos /\ sim.cash = closed.sim.cash
          /\ sim.order = closed.sim.order /\ sim.levels = closed.sim.levels \ p.levels
          /\ sim.last = closed.sim.last /\ sim.strayed = closed.sim.strayed
      BY <1>5, <1>6, WithoutFields
    <2>2. /\ swept \in Desks /\ swept.sim = sim /\ swept.position = p
          /\ swept.equity = closed.equity
          /\ swept.filled = closed.filled /\ swept.flattened = closed.flattened
          /\ swept.charged = closed.charged /\ swept.unprotected = closed.unprotected
          /\ swept.trades = closed.trades /\ swept.faithful = closed.faithful
      BY <1>3, <1>4, <1>7, <2>1, WithSimFields
    <2>3. swept \in Ledgers
      <3>1. Tracked(swept)
        BY <1>1, <1>4, <2>2 DEF Tracked
      <3> QED
        BY <2>2, <3>1, LedgerOf
    <2>4. /\ Booking(booked, swept)
          /\ booked.position.realised = p.realised + Pnl(p, d.sim.last, p.remaining)
      BY <1>5, <1>8, <2>2, <2>3, BookFillFields
    <2>5. /\ booked \in Ledgers /\ booked.sim = sim /\ booked.filled = closed.filled
          /\ booked.flattened = closed.flattened /\ booked.charged = closed.charged
          /\ booked.unprotected = closed.unprotected
          /\ booked.trades = closed.trades /\ booked.faithful = closed.faithful
          /\ Margin(booked) = Margin(swept)
      BY <2>2, <2>4 DEF Booking, SameReport
    <2>6. Tracked(closed) /\ Typed(closed) /\ Balanced(closed) /\ Counted(closed)
          /\ closed.faithful /\ closed.sim.order.status # "open" /\ Settles(closed)
      BY <1>3 DEF Closable
    <2>7. booked.equity
            = Net(booked.trades) - booked.charged + (booked.position.realised - booked.position.fees)
      <3>1. /\ booked.equity \in Int /\ booked.position.realised \in Int
            /\ booked.position.fees \in Int
        BY <2>5, PartType DEF Ledgers
      <3>2. closed.equity \in Int /\ Net(closed.trades) \in Int /\ closed.charged \in Int
        BY <1>4, DeskType
      <3>3. closed.equity = Net(closed.trades) - closed.charged + (p.realised - p.fees)
        BY <1>3, <2>6 DEF Balanced
      <3>4. booked.equity - (booked.position.realised - booked.position.fees)
              = closed.equity - (p.realised - p.fees)
        BY <2>2, <2>5 DEF Margin
      <3>5. booked.equity = Net(closed.trades) - closed.charged
                            + (booked.position.realised - booked.position.fees)
        BY <1>5, <3>1, <3>2, <3>3, <3>4
      <3> QED
        BY <2>5, <3>5
    <2>8. Booked(booked)
      <3>1. IsFiniteSet(sim.levels) /\ \A l \in sim.levels : l.trade <= sim.order.trade
        BY <2>1, <2>6, FS_Subset DEF Typed, Trade
      <3>3. /\ IsFiniteSet(booked.sim.levels)
            /\ \A l \in booked.sim.levels : l.trade <= Trade(booked)
            /\ booked.sim.order.status # "open" /\ booked.faithful
        BY <2>1, <2>5, <2>6, <3>1 DEF Trade
      <3>2. Len(booked.trades) + booked.flattened + 2 <= 2 * booked.filled
        BY <2>5, <2>6 DEF Counted
      <3> QED
        BY <2>5, <2>7, <3>2, <3>3, Zenon DEF Booked
    <2>9. booked.sim.pos = 0
      BY <1>12, <2>1, <2>5
    <2>10. ASSUME ~booked.sim.strayed
           PROVE  booked.position.realised = booked.sim.cash * Unit
      <3>1. p.realised + Pnl(p, d.sim.last, p.remaining)
              = Unit * (closed.sim.cash + closed.sim.pos * closed.sim.last)
        BY <1>3, <2>1, <2>5, <2>6, <2>10 DEF Settles
      <3>2. closed.sim.cash \in Int /\ closed.sim.last \in Int /\ Unit \in Int
        BY <1>4, DeskType, SizeType
      <3>3. closed.sim.pos * closed.sim.last = 0
        BY <1>12, <3>2
      <3>4. p.realised + Pnl(p, d.sim.last, p.remaining) = Unit * closed.sim.cash
        BY <3>1, <3>2, <3>3
      <3> QED
        BY <2>1, <2>4, <2>5, <3>2, <3>4
    <2>11. /\ DeskOK(ended) /\ ~Tracked(ended) /\ ended.unprotected = d.unprotected
           /\ Len(ended.trades) + ended.flattened + 1 <= 2 * ended.filled
      BY <1>3, <1>9, <2>5, <2>8, <2>9, <2>10, CloseTradeKeeps
    <2>12. ended \in Desks /\ ended.flattened \in Nat /\ ended.filled \in Nat
           /\ Len(ended.trades) \in Nat
      BY <2>11, DeskType DEF DeskOK, Kept, Typed
    <2>13. ASSUME NEW n \in {ended.flattened, ended.flattened + 1}, e = FlattenedTo(ended, n)
           PROVE  DeskOK(e) /\ ~Tracked(e) /\ e.unprotected = d.unprotected
      <3>1. n \in Nat
        BY <2>12
      <3>2. /\ e \in Desks /\ e.sim = ended.sim /\ e.position = ended.position
            /\ e.equity = ended.equity /\ e.filled = ended.filled /\ e.flattened = n
            /\ e.charged = ended.charged /\ e.unprotected = ended.unprotected
            /\ e.trades = ended.trades /\ e.faithful = ended.faithful
        <4>1. ended \in Desks
          BY <2>12
        <4> QED
          BY ONLY <2>13, <3>1, <4>1, FlattenedFields, Zenon
      <3>3. ~Tracked(e) /\ Trade(e) = Trade(ended)
        BY <2>11, <3>2 DEF Tracked, Trade
      <3>4. Typed(e) /\ Held(e) /\ Guarded(e) /\ Balanced(e) /\ Faithful(e)
            /\ e.sim.order.status # "open"
        BY <2>11, <3>2, <3>3
           DEF DeskOK, Kept, Typed, Held, Guarded, Balanced, Faithful
      <3>5. Counted(e)
        BY <2>11, <2>12, <3>2, <3>3 DEF Counted
      <3> QED
        BY <2>11, <3>2, <3>3, <3>4, <3>5 DEF DeskOK, Kept
    <2> QED
      BY <1>10, <1>12, <2>13
  <1> QED
    BY <1>11, <1>12

(***************************************************************************)
(* Placing the protection.                                                 *)
(***************************************************************************)

\* An order of the position's trade, as protect() places it.
IsPlaced(l, d, size) ==
    /\ l.trade = Trade(d) /\ l.size # 0
    /\ \/ /\ l.name = "stop" /\ l.size = -size /\ l.at = d.position.stop
          /\ l.rule = IF Direction(d) > 0 THEN "below" ELSE "above"
       \/ /\ l.name \in RungNames
          /\ l.size = -Direction(d) * RungSize(l.name, Magnitude(size))
          /\ l.at = d.position.entry + Direction(d) * Rank(l.name) * (StopTicks - 1)
          /\ l.rule = IF Direction(d) > 0 THEN "above" ELSE "below"
    /\ l = [trade |-> l.trade, name |-> l.name, size |-> l.size, at |-> l.at, rule |-> l.rule]

LEMMA PlacedLevels ==
  ASSUME NEW d, NEW size, -size # 0, NEW all, all = LevelsFor(d, size)
  PROVE  /\ \A l \in all : IsPlaced(l, d, size)
         /\ \E l \in all : l.name = "stop" /\ l.trade = Trade(d) /\ l.size = -size
         /\ Distinct(all) /\ IsFiniteSet(all)
         /\ NamesOf(all) \subseteq RungNames \cup {"stop"}
  <1> DEFINE losing == IF Direction(d) > 0 THEN "below" ELSE "above"
             winning == IF Direction(d) > 0 THEN "above" ELSE "below"
             stop == Level(d, "stop", -size, d.position.stop, losing)
             rung(name) == Level(d, name, -Direction(d) * RungSize(name, Magnitude(size)),
                                 d.position.entry + Direction(d) * Rank(name) * (StopTicks - 1),
                                 winning)
  <1>1. all = {stop} \cup {l \in {rung("tp1"), rung("tp2"), rung("tp3")} : l.size # 0}
    BY Zenon DEF LevelsFor, Placeable, Direction
  <1>2. /\ stop.trade = Trade(d) /\ stop.name = "stop" /\ stop.size = -size
        /\ stop.at = d.position.stop /\ stop.rule = losing
        /\ stop = [trade |-> stop.trade, name |-> stop.name, size |-> stop.size,
                   at |-> stop.at, rule |-> stop.rule]
    BY DEF Level, Trade
  <1>3. ASSUME NEW name \in RungNames
        PROVE  /\ rung(name).trade = Trade(d) /\ rung(name).name = name
               /\ rung(name).size = -Direction(d) * RungSize(name, Magnitude(size))
               /\ rung(name).at = d.position.entry + Direction(d) * Rank(name) * (StopTicks - 1)
               /\ rung(name).rule = winning
               /\ rung(name) = [trade |-> rung(name).trade, name |-> rung(name).name,
                                size |-> rung(name).size, at |-> rung(name).at,
                                rule |-> rung(name).rule]
    BY DEF Level, Trade
  <1> HIDE DEF stop, rung
  <1>4. \A l \in all : \/ l = stop
                       \/ \E name \in RungNames : l = rung(name) /\ l.size # 0
    BY <1>1 DEF RungNames
  <1>5. ASSUME NEW l \in all PROVE IsPlaced(l, d, size)
    <2>1. CASE l = stop
      BY <1>2, <2>1 DEF IsPlaced
    <2>2. ASSUME NEW name \in RungNames, l = rung(name), l.size # 0 PROVE IsPlaced(l, d, size)
      BY <1>3, <2>2 DEF IsPlaced
    <2> QED
      BY <1>4, <2>1, <2>2
  <1>6. stop \in all
    BY <1>1
  <1>7. Distinct(all)
    <2>1. \A l \in all : /\ l.name = "stop" => l = stop
                         /\ l.name \in RungNames => l = rung(l.name)
      BY <1>2, <1>3, <1>4 DEF RungNames
    <2>2. \A l \in all : l.name = "stop" \/ l.name \in RungNames
      BY <1>2, <1>3, <1>4
    <2> QED
      BY <2>1, <2>2 DEF Distinct
  <1>8. IsFiniteSet(all)
    <2>1. IsFiniteSet({stop, rung("tp1"), rung("tp2"), rung("tp3")})
      <3>1. IsFiniteSet({stop})
        BY FS_Singleton
      <3>2. IsFiniteSet({stop} \cup {rung("tp1")})
        BY <3>1, FS_AddElement
      <3>3. IsFiniteSet(({stop} \cup {rung("tp1")}) \cup {rung("tp2")})
        BY <3>2, FS_AddElement
      <3>4. IsFiniteSet((({stop} \cup {rung("tp1")}) \cup {rung("tp2")}) \cup {rung("tp3")})
        BY <3>3, FS_AddElement
      <3>5. {stop, rung("tp1"), rung("tp2"), rung("tp3")}
              = (({stop} \cup {rung("tp1")}) \cup {rung("tp2")}) \cup {rung("tp3")}
        OBVIOUS
      <3> QED
        BY <3>4, <3>5
    <2>2. all \subseteq {stop, rung("tp1"), rung("tp2"), rung("tp3")}
      BY <1>1
    <2> QED
      BY <2>1, <2>2, FS_Subset
  <1>9. NamesOf(all) \subseteq RungNames \cup {"stop"}
    BY <1>2, <1>3, <1>4 DEF NamesOf
  <1> QED
    BY <1>2, <1>5, <1>6, <1>7, <1>8, <1>9

\* What protect() places are orders of the simulator.
LEMMA PlacedType ==
  ASSUME NEW d \in Desks, Tracked(d), Trade(d) >= 1,
         NEW size \in Int, Magnitude(size) \in 1..Size, NEW l, IsPlaced(l, d, size)
  PROVE  l \in Levels
  <1>1. d.position \in Positions
    BY LedgerOf
  <1>2. Direction(d) \in {1, -1} /\ d.position.entry \in Int /\ d.position.stop \in Int
    BY <1>1, PositionType DEF Direction
  <1>3. Trade(d) \in 1..MaxTrades
    <2>1. Trade(d) \in 0..MaxTrades
      BY DeskType DEF Trade, Entries
    <2> QED
      BY <2>1, SizeType
  <1>4. CASE l.name = "stop" /\ l.size = -size /\ l.at = d.position.stop
             /\ l.rule = IF Direction(d) > 0 THEN "below" ELSE "above"
    <2>1. l.size \in (-Size..Size) \ {0}
      BY <1>4, SizeType DEF Magnitude, IsPlaced
    <2> QED
      BY <1>2, <1>3, <1>4, <2>1 DEF IsPlaced, Levels, LevelNames
  <1>5. CASE /\ l.name \in RungNames
             /\ l.size = -Direction(d) * RungSize(l.name, Magnitude(size))
             /\ l.at = d.position.entry + Direction(d) * Rank(l.name) * (StopTicks - 1)
             /\ l.rule = IF Direction(d) > 0 THEN "above" ELSE "below"
    <2>1. PICK m : m = Magnitude(size)
      OBVIOUS
    <2>2. m \in Nat /\ m <= Size
      BY <2>1, SizeType
    <2>3. RungSize(l.name, m) \in Nat /\ RungSize(l.name, m) <= m
      <3>1. /\ \A name \in RungNames : RungSize(name, m) \in Nat
            /\ RungSize("tp1", m) + RungSize("tp2", m) + RungSize("tp3", m) = m
        BY <2>2, LadderHolds
      <3> QED
        BY <1>5, <3>1 DEF RungNames
    <2>4. l.size \in (-Size..Size) \ {0}
      BY <1>2, <1>5, <2>1, <2>2, <2>3, SizeType DEF IsPlaced
    <2>5. l.at \in Int
      <3>1. Rank(l.name) \in Int
        BY <1>5 DEF Rank, RungNames
      <3>2. Direction(d) * Rank(l.name) \in Int
        BY <1>2, <3>1
      <3>3. Direction(d) * Rank(l.name) * (StopTicks - 1) \in Int
        BY <3>2, SizeType
      <3> QED
        BY <1>2, <1>5, <3>3
    <2>6. l.name \in LevelNames /\ l.rule \in {"above", "below"}
      BY <1>5 DEF LevelNames, RungNames
    <2> QED
      BY <1>3, <2>4, <2>5, <2>6 DEF IsPlaced, Levels
  <1> QED
    BY <1>4, <1>5 DEF IsPlaced

With(sim, levels) == [sim EXCEPT !.levels = @ \cup levels]
Shielded(p, levels) == [p EXCEPT !.levels = levels, !.protected = TRUE]
Holding(d, sim, p) == [d EXCEPT !.sim = sim, !.position = p]

LEMMA ShieldedFields ==
  ASSUME NEW d \in Desks, Tracked(d), NEW levels \in SUBSET Levels,
         NEW sim, sim = With(d.sim, levels),
         NEW p, p = Shielded(d.position, levels)
  PROVE  LET e == Holding(d, sim, p)
         IN /\ sim \in Simulators /\ sim.levels = d.sim.levels \cup levels
            /\ sim.pos = d.sim.pos /\ sim.cash = d.sim.cash /\ sim.order = d.sim.order
            /\ sim.last = d.sim.last /\ sim.strayed = d.sim.strayed
            /\ p \in Positions /\ p.levels = levels /\ p.protected
            /\ p.direction = d.position.direction /\ p.entry = d.position.entry
            /\ p.stop = d.position.stop /\ p.remaining = d.position.remaining
            /\ p.fees = d.position.fees /\ p.realised = d.position.realised
            /\ e \in Desks /\ e.sim = sim /\ e.position = p /\ e.equity = d.equity
            /\ e.filled = d.filled /\ e.flattened = d.flattened /\ e.charged = d.charged
            /\ e.unprotected = d.unprotected /\ e.trades = d.trades /\ e.faithful = d.faithful
  <1>1. d.sim \in Simulators /\ d.position \in Positions
    BY LedgerOf, DeskType
  <1>2. /\ sim \in Simulators /\ sim.levels = d.sim.levels \cup levels
        /\ sim.pos = d.sim.pos /\ sim.cash = d.sim.cash /\ sim.order = d.sim.order
        /\ sim.last = d.sim.last /\ sim.strayed = d.sim.strayed
    <2>1. d.sim.levels \cup levels \in SUBSET Levels
      BY <1>1 DEF Simulators
    <2> QED
      BY <1>1, <2>1 DEF Simulators, With
  <1>3. /\ p \in Positions /\ p.levels = levels /\ p.protected
        /\ p.direction = d.position.direction /\ p.entry = d.position.entry
        /\ p.stop = d.position.stop /\ p.remaining = d.position.remaining
        /\ p.fees = d.position.fees /\ p.realised = d.position.realised
    BY <1>1 DEF Positions, Shielded
  <1> DEFINE e == Holding(d, sim, p)
  <1>4. /\ e \in Desks /\ e.sim = sim /\ e.position = p /\ e.equity = d.equity
        /\ e.filled = d.filled /\ e.flattened = d.flattened /\ e.charged = d.charged
        /\ e.unprotected = d.unprotected /\ e.trades = d.trades /\ e.faithful = d.faithful
    BY ONLY <1>2, <1>3, d \in Desks DEF Desks, Holding
  <1> QED
    BY <1>2, <1>3, <1>4

LEMMA ProtectedAs ==
  ASSUME NEW d \in Desks, Tracked(d), NEW size
  PROVE  Protected(d, size) = Holding(d, With(d.sim, LevelsFor(d, size)),
                                      Shielded(d.position, LevelsFor(d, size)))
  <1> DEFINE levels == LevelsFor(d, size)
  <1>1. d.sim \in Simulators /\ d.position \in Positions
    BY LedgerOf, DeskType
  <1>2. Protected(d, size) = [d EXCEPT !.sim.levels = @ \cup levels, !.position.levels = levels,
                                       !.position.protected = TRUE]
    BY Zenon DEF Protected
  <1> HIDE DEF levels
  <1>3. Protected(d, size) = Holding(d, With(d.sim, levels), Shielded(d.position, levels))
    BY <1>1, <1>2 DEF Desks, Simulators, Positions, Holding, With, Shielded
  <1> QED
    BY <1>3 DEF levels

\* A position that had no protection is covered by the stop and the ladder placed for it;
\* the size is signed, or it is what remains of a position the report admits to.
LEMMA ProtectedKeeps ==
  ASSUME NEW d, Kept(d), Tracked(d), ~d.position.protected,
         NEW size \in Int,
         Magnitude(size) = d.position.remaining,
         d.unprotected \/ size = Direction(d) * Size,
         NEW e, e = Protected(d, size)
  PROVE  DeskOK(e) /\ e.unprotected = d.unprotected
  <1>1. d \in Desks /\ Typed(d)
    BY DEF Kept, Typed
  <1>2. PICK p : p = d.position
    OBVIOUS
  <1>3. /\ p \in Positions /\ d.sim \in Simulators /\ Direction(d) = p.direction
        /\ p.direction \in {1, -1} /\ p.entry \in Int /\ p.remaining \in 1..Size
        /\ p.remaining \in Int /\ p.remaining > 0 /\ Size \in Int
    BY <1>1, <1>2, LedgerOf, PositionType, DeskType, SizeType DEF Direction
  <1>4. -size # 0 /\ Magnitude(size) \in 1..Size
    BY <1>2, <1>3 DEF Magnitude
  <1>5. PICK levels : levels = LevelsFor(d, size)
    OBVIOUS
  <1>6. /\ \A l \in levels : IsPlaced(l, d, size)
        /\ \E l \in levels : l.name = "stop" /\ l.trade = Trade(d) /\ l.size = -size
        /\ Distinct(levels) /\ IsFiniteSet(levels)
        /\ NamesOf(levels) \subseteq RungNames \cup {"stop"}
    BY <1>4, <1>5, PlacedLevels
  <1>7. Trade(d) >= 1 /\ IsFiniteSet(d.sim.levels)
        /\ (\A l \in d.sim.levels : l.trade <= Trade(d))
        /\ p.stop = p.entry - p.direction * (StopTicks - 1)
    BY <1>1, <1>2, <1>3 DEF Typed
  <1>8. levels \in SUBSET Levels
    BY <1>1, <1>4, <1>6, <1>7, PlacedType
  <1>9. PICK sim : sim = With(d.sim, levels)
    OBVIOUS
  <1>10. PICK q : q = Shielded(d.position, levels)
    OBVIOUS
  <1>11. e = Holding(d, sim, q)
    BY <1>1, <1>5, <1>9, <1>10, ProtectedAs
  <1>12. /\ sim \in Simulators /\ sim.levels = d.sim.levels \cup levels
         /\ sim.pos = d.sim.pos /\ sim.cash = d.sim.cash /\ sim.order = d.sim.order
         /\ sim.last = d.sim.last /\ sim.strayed = d.sim.strayed
         /\ q \in Positions /\ q.levels = levels /\ q.protected
         /\ q.direction = p.direction /\ q.entry = p.entry
         /\ q.stop = p.stop /\ q.remaining = p.remaining
         /\ q.fees = p.fees /\ q.realised = p.realised
         /\ e \in Desks /\ e.sim = sim /\ e.position = q /\ e.equity = d.equity
         /\ e.filled = d.filled /\ e.flattened = d.flattened /\ e.charged = d.charged
         /\ e.unprotected = d.unprotected /\ e.trades = d.trades /\ e.faithful = d.faithful
    <2>1. d \in Desks /\ Tracked(d)
      BY <1>1
    <2>2. /\ sim \in Simulators /\ sim.levels = d.sim.levels \cup levels
          /\ sim.pos = d.sim.pos /\ sim.cash = d.sim.cash /\ sim.order = d.sim.order
          /\ sim.last = d.sim.last /\ sim.strayed = d.sim.strayed
          /\ q \in Positions /\ q.levels = levels /\ q.protected
          /\ q.direction = d.position.direction /\ q.entry = d.position.entry
          /\ q.stop = d.position.stop /\ q.remaining = d.position.remaining
          /\ q.fees = d.position.fees /\ q.realised = d.position.realised
      BY ONLY <1>8, <1>9, <1>10, <2>1, ShieldedFields
    <2>3. LET r == Holding(d, sim, q)
          IN /\ r \in Desks /\ r.sim = sim /\ r.position = q /\ r.equity = d.equity
             /\ r.filled = d.filled /\ r.flattened = d.flattened /\ r.charged = d.charged
             /\ r.unprotected = d.unprotected /\ r.trades = d.trades
             /\ r.faithful = d.faithful
      BY ONLY <1>8, <1>9, <1>10, <2>1, ShieldedFields
    <2> QED
      BY ONLY <1>2, <1>11, <2>2, <2>3
  <1>13. Tracked(e) /\ Trade(e) = Trade(d) /\ Direction(e) = p.direction
    BY <1>12, PositionAssumption DEF Tracked, Trade, Direction
  <1>14. Typed(e)
    <2>1. IsFiniteSet(sim.levels)
      <3>1. IsFiniteSet(d.sim.levels) /\ IsFiniteSet(levels)
        BY <1>6, <1>7
      <3>2. IsFiniteSet(d.sim.levels \cup levels)
        BY ONLY <3>1, FS_Union
      <3> QED
        BY <1>12, <3>2
    <2>2. \A l \in sim.levels : l.trade <= Trade(e)
      <3>1. \A l \in levels : l.trade = Trade(d)
        BY <1>6 DEF IsPlaced
      <3>2. Trade(d) \in Int
        BY <1>1, SizeType, DeskType DEF Trade, Entries
      <3> QED
        BY <1>7, <1>12, <1>13, <3>1, <3>2
    <2> QED
      BY <1>6, <1>7, <1>12, <1>13, <2>1, <2>2 DEF Typed
  <1>15. Held(e) /\ e.sim.order.status # "open"
    BY <1>2, <1>3, <1>12, <1>13 DEF Kept, Held
  <1>16. Balanced(e) /\ Counted(e)
    BY <1>2, <1>12, <1>13 DEF Kept, Balanced, Counted
  <1>17. ASSUME ~d.sim.strayed PROVE Faith(e)
    <2>1. /\ d.sim.pos = p.direction * p.remaining
          /\ p.realised = Unit * (d.sim.cash + d.sim.pos * p.entry)
          /\ Own(d.sim.levels, Trade(d)) = {}
          /\ p.remaining = Size
      BY <1>2, <1>3, <1>17 DEF Kept, Faithful, Faith
    <2>2. levels = Own(sim.levels, Trade(e))
      BY <1>6, <1>12, <1>13, <2>1 DEF Own, IsPlaced
    <2>3. IsLadder(levels, q)
      <3>1. ASSUME NEW l \in levels
            PROVE  IsStop(l, p.direction, p.entry) \/ IsRung(l, p.direction, p.entry)
        <4>1. Magnitude(size) = Size
          BY <1>2, <2>1
        <4>2. size \in {-Size, Size}
          BY <1>3, <4>1 DEF Magnitude
        <4>3. CASE l.name = "stop"
          <5>1. l.size = -size /\ l.at = p.stop
                /\ l.rule = IF p.direction > 0 THEN "below" ELSE "above"
            BY <1>2, <1>3, <1>6, <4>3 DEF IsPlaced, RungNames
          <5>2. l.size \in {-Size, Size}
            BY <1>3, <4>2, <5>1
          <5> QED
            BY <1>7, <4>3, <5>1, <5>2 DEF IsStop
        <4>4. CASE l.name # "stop"
          <5>1. /\ l.name \in RungNames
                /\ l.size = -p.direction * RungSize(l.name, Size)
                /\ l.at = p.entry + p.direction * Rank(l.name) * (StopTicks - 1)
                /\ l.rule = IF p.direction > 0 THEN "above" ELSE "below"
            BY <1>2, <1>3, <1>6, <4>1, <4>4 DEF IsPlaced
          <5> QED
            BY <5>1 DEF IsRung, Rung
        <4> QED
          BY <4>3, <4>4
      <3>2. Contracts(NamesOf(levels)) <= Size
        <4>1. Contracts(NamesOf(levels)) <= Contracts(RungNames \cup {"stop"})
          BY <1>6, FewerRungs
        <4>2. Contracts(RungNames \cup {"stop"}) = Contracts(RungNames)
          BY DEF Contracts, RungNames
        <4> QED
          BY <4>1, <4>2, RungType
      <3> QED
        BY <1>6, <1>12, <2>1, <3>1, <3>2 DEF IsLadder
    <2>4. /\ e.sim.pos = Direction(e) * e.position.remaining
          /\ e.position.realised = Unit * (e.sim.cash + e.sim.pos * e.position.entry)
      BY <1>12, <1>13, <2>1
    <2> QED
      BY <1>12, <2>2, <2>3, <2>4 DEF Faith
  <1>18. Faithful(e)
    BY <1>12, <1>17 DEF Faithful, Kept
  <1>19. Guarded(e)
    <2>1. CASE d.unprotected
      BY <1>12, <2>1 DEF Guarded
    <2>2. CASE size = Direction(d) * Size
      <3>1. PICK l \in levels : l.name = "stop" /\ l.trade = Trade(d) /\ l.size = -size
        BY <1>6
      <3>2. -size = -p.direction * Size
        BY <1>3, <2>2
      <3>3. StopRests(sim, p.direction)
        BY <1>12, <3>1, <3>2 DEF StopRests, Trade
      <3> QED
        BY <1>12, <1>13, <3>3 DEF Guarded
    <2> QED
      BY <2>1, <2>2
  <1> QED
    BY <1>12, <1>14, <1>15, <1>16, <1>18, <1>19 DEF DeskOK, Kept

(***************************************************************************)
(* Entering.                                                               *)
(***************************************************************************)

NewPosition(direction, entry) ==
    [direction |-> direction, entry |-> entry, size |-> Size,
     stop |-> entry - direction * (StopTicks - 1), remaining |-> Size,
     fees |-> Maker * Size, realised |-> 0, protected |-> FALSE, levels |-> {}]

LEMMA NewPositionFields ==
  ASSUME NEW direction \in {1, -1}, NEW entry \in Int
  PROVE  LET p == NewPosition(direction, entry)
         IN /\ p \in Positions
            /\ p.direction = direction /\ p.entry = entry /\ p.remaining = Size
            /\ p.stop = entry - direction * (StopTicks - 1)
            /\ p.fees = Maker * Size /\ p.realised = 0 /\ ~p.protected /\ p.levels = {}
  <1>1. /\ Size \in 1..Size /\ Maker * Size \in Int
        /\ entry - direction * (StopTicks - 1) \in Int
    <2>1. direction * (StopTicks - 1) \in Int /\ Maker \in Int
      BY SizeType, PaperAssumption
    <2> QED
      BY <2>1, SizeType
  <1>2. NewPosition(direction, entry) \in Positions
    BY <1>1 DEF NewPosition, Positions
  <1> QED
    BY <1>2 DEF NewPosition

EntryBooked(d, equity, p) == [d EXCEPT !.equity = equity, !.filled = @ + 1, !.position = p]

LEMMA OpenedFields ==
  ASSUME NEW d \in Desks, NEW direction \in {1, -1}, NEW entry \in Int
  PROVE  LET e == Opened(d, direction, entry)
         IN /\ e \in Desks /\ e.sim = d.sim /\ e.position = NewPosition(direction, entry)
            /\ e.equity = d.equity - Maker * Size
            /\ e.filled = d.filled + 1 /\ e.flattened = d.flattened /\ e.charged = d.charged
            /\ e.unprotected = d.unprotected /\ e.trades = d.trades /\ e.faithful = d.faithful
  <1> DEFINE equity == d.equity - Maker * Size
             p == NewPosition(direction, entry)
             e == EntryBooked(d, equity, p)
  <1>1. Opened(d, direction, entry) = e
    BY Zenon DEF Opened, NewPosition, EntryBooked
  <1>2. equity \in Int
    <2>1. Maker * Size \in Int
      BY PaperAssumption, SizeType
    <2> QED
      BY <2>1, DeskType
  <1>3. p \in Positions
    BY NewPositionFields
  <1>4. d.filled + 1 \in Nat
    BY DeskType
  <1> HIDE DEF equity, p
  <1>5. /\ e \in Desks /\ e.sim = d.sim /\ e.position = p
        /\ e.equity = equity
        /\ e.filled = d.filled + 1 /\ e.flattened = d.flattened /\ e.charged = d.charged
        /\ e.unprotected = d.unprotected /\ e.trades = d.trades /\ e.faithful = d.faithful
    BY ONLY <1>2, <1>3, <1>4, d \in Desks DEF Desks, EntryBooked
  <1> QED
    BY <1>1, <1>5 DEF equity, p

\* An entry that filled leaves a desk in order, but for the protection it still lacks.
LEMMA OpenedKeeps ==
  ASSUME NEW d, Waiting(d), d.sim.order.status = "filled",
         NEW direction, direction = (IF d.sim.order.size > 0 THEN 1 ELSE -1),
         NEW e, e = Opened(d, direction, d.sim.order.limit)
  PROVE  /\ Kept(e) /\ Tracked(e) /\ ~e.position.protected
         /\ e.position.remaining = Size /\ Direction(e) * Size = d.sim.order.size
         /\ Direction(e) \in {1, -1} /\ e.unprotected = d.unprotected
         /\ e.sim = d.sim
         /\ e.position.realised = 0 /\ e.position.fees = Maker * Size
  <1>1. d \in Desks /\ Typed(d) /\ ~Tracked(d) /\ Awaits(d.sim) /\ Balanced(d) /\ Counted(d)
        /\ d.faithful
    BY DEF Waiting, Typed
  <1>2. PICK order : order = d.sim.order
    OBVIOUS
  <1>3. /\ d.sim.pos \in Int /\ d.sim.cash \in Int /\ order.limit \in Int
        /\ order.size \in {-Size, Size} /\ order.trade >= 1
        /\ Toward(d.sim.pos, order.size)
        /\ ~d.sim.strayed => /\ d.sim.pos = order.size
                             /\ d.sim.cash = -(order.size * order.limit)
        /\ \A l \in d.sim.levels : l.trade < order.trade
    BY <1>1, <1>2, DeskType DEF Awaits, Entries
  <1>4. direction \in {1, -1} /\ direction * Size = order.size
    BY <1>2, <1>3, SizeType
  <1>5. PICK p : p = NewPosition(direction, order.limit)
    OBVIOUS
  <1>6. /\ p \in Positions
        /\ p.direction = direction /\ p.entry = order.limit /\ p.remaining = Size
        /\ p.stop = order.limit - direction * (StopTicks - 1)
        /\ p.fees = Maker * Size /\ p.realised = 0 /\ ~p.protected /\ p.levels = {}
    BY ONLY <1>3, <1>4, <1>5, NewPositionFields
  <1>7. /\ e \in Desks /\ e.sim = d.sim /\ e.position = p
        /\ e.equity = d.equity - Maker * Size
        /\ e.filled = d.filled + 1 /\ e.flattened = d.flattened /\ e.charged = d.charged
        /\ e.unprotected = d.unprotected /\ e.trades = d.trades /\ e.faithful = d.faithful
    <2>1. PICK limit \in Int : limit = order.limit
      BY <1>3
    <2>2. e = Opened(d, direction, limit) /\ p = NewPosition(direction, limit)
      BY <1>2, <1>5, <2>1
    <2>3. d \in Desks /\ direction \in {1, -1} /\ limit \in Int
      BY <1>1, <1>4
    <2>4. LET r == Opened(d, direction, limit)
          IN /\ r \in Desks /\ r.sim = d.sim /\ r.position = NewPosition(direction, limit)
             /\ r.equity = d.equity - Maker * Size
             /\ r.filled = d.filled + 1 /\ r.flattened = d.flattened /\ r.charged = d.charged
             /\ r.unprotected = d.unprotected /\ r.trades = d.trades
             /\ r.faithful = d.faithful
      BY ONLY <2>3, OpenedFields
    <2> QED
      BY ONLY <2>2, <2>4
  <1>8. Tracked(e) /\ Direction(e) = direction /\ Trade(e) = order.trade /\ Trade(d) = order.trade
    BY <1>2, <1>6, <1>7, PositionAssumption DEF Tracked, Direction, Trade
  <1>9. Typed(e)
    BY <1>1, <1>3, <1>6, <1>7, <1>8, FS_EmptySet DEF Typed
  <1>10. Held(e) /\ e.sim.order.status # "open"
    BY <1>2, <1>3, <1>4, <1>6, <1>7, <1>8 DEF Held
  <1>11. Balanced(e)
    <2>1. d.equity = Net(d.trades) - d.charged + 0
      BY <1>1 DEF Balanced
    <2>2. Maker * Size \in Int /\ d.equity \in Int /\ Net(d.trades) \in Int /\ d.charged \in Int
      BY <1>1, PaperAssumption, SizeType, DeskType
    <2>3. d.equity - Maker * Size = Net(d.trades) - d.charged + (0 - Maker * Size)
      BY <2>1, <2>2
    <2> QED
      BY <1>6, <1>7, <1>8, <2>3 DEF Balanced
  <1>12. Counted(e)
    <2>1. Len(d.trades) + d.flattened + 0 <= 2 * d.filled
      BY <1>1 DEF Counted
    <2>2. Len(d.trades) \in Nat /\ d.flattened \in Nat /\ d.filled \in Nat
      BY <1>1, DeskType
    <2>3. Len(d.trades) + d.flattened + 2 <= 2 * (d.filled + 1)
      BY <2>1, <2>2
    <2> QED
      BY <1>7, <1>8, <2>3 DEF Counted
  <1>13. ASSUME ~d.sim.strayed PROVE Faith(e)
    <2>1. d.sim.pos = order.size /\ d.sim.cash = -(order.size * order.limit)
      BY <1>3, <1>13
    <2>2. d.sim.cash + d.sim.pos * order.limit = 0
      <3>1. order.size \in Int
        BY <1>3, SizeType
      <3>2. order.size * order.limit \in Int
        BY <1>3, <3>1
      <3> QED
        BY <2>1, <3>2
    <2>3. p.realised = Unit * (d.sim.cash + d.sim.pos * p.entry)
      BY <1>6, <2>2, SizeType
    <2>4. Own(d.sim.levels, order.trade) = {}
      <3>1. order.trade \in Int
        BY <1>1, <1>2, DeskType, SizeType DEF Entries
      <3> QED
        BY <1>3, <3>1 DEF Own
    <2>5. IsLadder(p.levels, p)
      <3>1. Contracts(NamesOf(p.levels)) = 0
        BY <1>6 DEF Contracts, NamesOf
      <3> QED
        BY <1>6, <3>1, SizeType DEF IsLadder, Distinct
    <2>6. /\ e.sim.pos = Direction(e) * e.position.remaining
          /\ e.position.levels = Own(e.sim.levels, Trade(e))
      BY <1>4, <1>6, <1>7, <1>8, <2>1, <2>4
    <2> QED
      BY <1>6, <1>7, <2>3, <2>5, <2>6 DEF Faith
  <1>14. Faithful(e)
    BY <1>1, <1>7, <1>13 DEF Faithful
  <1>15. Kept(e)
    BY <1>9, <1>10, <1>11, <1>12, <1>14 DEF Kept
  <1> QED
    BY <1>2, <1>4, <1>6, <1>7, <1>8, <1>15

\* The entry that filled and was closed again because its stop could not be verified.
Undone(d, equity, charged, flattened, sim) ==
    [d EXCEPT !.equity = equity, !.position = NoPosition, !.flattened = flattened,
              !.charged = charged, !.sim = sim]

LEMMA UndoneFields ==
  ASSUME NEW d \in Desks, NEW equity \in Int, NEW charged \in Int, NEW flattened \in Nat,
         NEW sim \in Simulators
  PROVE  LET e == Undone(d, equity, charged, flattened, sim)
         IN /\ e \in Desks /\ e.sim = sim /\ e.position = NoPosition /\ e.equity = equity
            /\ e.filled = d.filled /\ e.flattened = flattened /\ e.charged = charged
            /\ e.unprotected = d.unprotected /\ e.trades = d.trades /\ e.faithful = d.faithful
  BY DEF Desks, Undone

LEMMA UndoneKeeps ==
  ASSUME NEW d, Closable(d), d.sim.pos = 0,
         d.position.realised = 0, d.position.fees = Maker * Size,
         NEW e, e = [d EXCEPT
                       !.equity = @ - Taker * Size, !.position = NoPosition,
                       !.flattened = @ + 1, !.charged = @ + (Maker + Taker) * Size,
                       !.sim.cash = 0, !.sim.strayed = FALSE]
  PROVE  DeskOK(e) /\ ~Tracked(e) /\ e.unprotected = d.unprotected
  <1>1. d \in Desks /\ Typed(d) /\ Tracked(d) /\ d.sim.order.status # "open" /\ Balanced(d)
        /\ Counted(d) /\ d.faithful
    BY DEF Closable, Typed
  <1>2. /\ d.sim \in Simulators /\ d.equity \in Int /\ d.charged \in Int /\ d.flattened \in Nat
        /\ d.filled \in Nat /\ Len(d.trades) \in Nat /\ Net(d.trades) \in Int
    BY <1>1, DeskType
  <1>3. PICK sim : sim = Cleared(d.sim)
    OBVIOUS
  <1>4. /\ sim \in Simulators /\ sim.pos = d.sim.pos /\ sim.order = d.sim.order
        /\ sim.levels = d.sim.levels
    BY <1>2, <1>3, ClearedFields
  <1> DEFINE maker == Maker * Size
             taker == Taker * Size
             both == (Maker + Taker) * Size
             equity == d.equity - taker
             charged == d.charged + both
             flattened == d.flattened + 1
  <1>5. maker \in Int /\ taker \in Int /\ both = maker + taker /\ both \in Int
    <2>1. Maker \in Int /\ Taker \in Int /\ Size \in Int
      BY PaperAssumption, SizeType
    <2> QED
      BY <2>1
  <1>6. e = [d EXCEPT !.equity = equity, !.position = NoPosition, !.flattened = flattened,
                      !.charged = charged, !.sim.cash = 0, !.sim.strayed = FALSE]
    BY Zenon
  <1> HIDE DEF maker, taker, both
  <1>7. equity \in Int /\ charged \in Int /\ flattened \in Nat
    BY <1>2, <1>5
  <1> HIDE DEF equity, charged, flattened
  <1>8. e = Undone(d, equity, charged, flattened, sim)
    BY <1>1, <1>2, <1>3, <1>6 DEF Desks, Simulators, Undone, Cleared
  <1>9. /\ e \in Desks /\ e.sim = sim /\ e.position = NoPosition /\ e.equity = equity
        /\ e.filled = d.filled /\ e.flattened = flattened /\ e.charged = charged
        /\ e.unprotected = d.unprotected /\ e.trades = d.trades /\ e.faithful = d.faithful
    <2>1. LET r == Undone(d, equity, charged, flattened, sim)
          IN /\ r \in Desks /\ r.sim = sim /\ r.position = NoPosition /\ r.equity = equity
             /\ r.filled = d.filled /\ r.flattened = flattened /\ r.charged = charged
             /\ r.unprotected = d.unprotected /\ r.trades = d.trades /\ r.faithful = d.faithful
      BY ONLY <1>1, <1>4, <1>7, UndoneFields
    <2> QED
      BY ONLY <1>8, <2>1
  <1>10. ~Tracked(e) /\ Trade(e) = Trade(d)
    BY <1>4, <1>9 DEF Tracked, Trade
  <1>11. Typed(e) /\ e.sim.order.status # "open"
    BY <1>1, <1>4, <1>9, <1>10 DEF Typed
  <1>12. Held(e) /\ Guarded(e) /\ Faithful(e)
    BY <1>1, <1>4, <1>9, <1>10 DEF Held, Guarded, Faithful
  <1>13. Balanced(e)
    <2>1. d.equity = Net(d.trades) - d.charged + (0 - maker)
      BY <1>1 DEF Balanced, maker
    <2>2. equity = Net(d.trades) - charged + 0
      BY <1>2, <1>5, <2>1 DEF equity, charged
    <2> QED
      BY <1>9, <1>10, <2>2 DEF Balanced
  <1>14. Counted(e)
    <2>1. Len(d.trades) + d.flattened + 2 <= 2 * d.filled
      BY <1>1 DEF Counted
    <2>2. Len(d.trades) + flattened + 0 <= 2 * d.filled
      BY <1>2, <2>1 DEF flattened
    <2> QED
      BY <1>9, <1>10, <2>2 DEF Counted
  <1> QED
    BY <1>9, <1>10, <1>11, <1>12, <1>13, <1>14 DEF DeskOK, Kept

\* An entry is placed: an order of a new trade rests, and nothing is held.
Ordered(sim, order) == [sim EXCEPT !.order = order, !.cash = 0, !.strayed = FALSE]

LEMMA OrderedFields ==
  ASSUME NEW sim \in Simulators, NEW order \in Entries
  PROVE  LET after == Ordered(sim, order)
         IN /\ after \in Simulators /\ after.pos = sim.pos /\ after.order = order
            /\ after.levels = sim.levels /\ after.last = sim.last
            /\ after.cash = 0 /\ ~after.strayed
  <1> DEFINE placed == [sim EXCEPT !.order = order]
             after == Ordered(sim, order)
  <1>1. /\ placed \in Simulators
        /\ placed.pos = sim.pos /\ placed.order = order /\ placed.levels = sim.levels
        /\ placed.last = sim.last
    BY DEF Simulators
  <1>2. after = Cleared(placed)
    BY DEF Simulators, Ordered, Cleared
  <1> HIDE DEF placed
  <1> QED
    BY <1>1, <1>2, ClearedFields

LEMMA EnterWaits ==
  ASSUME NEW d, DeskOK(d), ~Tracked(d), Trade(d) < MaxTrades,
         NEW direction \in {1, -1}, NEW limit \in Int,
         NEW e, e = WithSim(d, PlaceOrder(d.sim, direction * Size, limit))
  PROVE  Waiting(e) /\ e.unprotected = d.unprotected
  <1>1. d \in Desks /\ Typed(d) /\ Held(d) /\ Balanced(d) /\ Counted(d) /\ Faithful(d)
    BY DEF DeskOK, Kept, Typed
  <1>2. d.sim \in Simulators /\ d.sim.order \in Entries /\ d.sim.pos = 0
    BY <1>1, DeskType DEF Held
  <1>3. PICK order : order = [status |-> "open", trade |-> d.sim.order.trade + 1,
                              size |-> direction * Size, limit |-> limit]
    OBVIOUS
  <1>4. Trade(d) \in 0..MaxTrades /\ Trade(d) + 1 \in 1..MaxTrades
    BY <1>2, SizeType DEF Entries, Trade
  <1>5. /\ order \in Entries /\ order.status = "open" /\ order.trade = Trade(d) + 1
        /\ order.size \in {-Size, Size}
    <2>1. direction * Size \in {-Size, Size}
      BY SizeType
    <2> QED
      BY <1>3, <1>4, <2>1 DEF Entries, Trade
  <1>6. PICK sim : sim = Ordered(d.sim, order)
    OBVIOUS
  <1>7. e = WithSim(d, sim)
    BY <1>2, <1>3, <1>6 DEF PlaceOrder, Ordered
  <1>8. /\ sim \in Simulators /\ sim.pos = 0 /\ sim.order = order /\ sim.levels = d.sim.levels
        /\ sim.cash = 0 /\ ~sim.strayed
    <2>1. LET after == Ordered(d.sim, order)
          IN /\ after \in Simulators /\ after.pos = d.sim.pos /\ after.order = order
             /\ after.levels = d.sim.levels /\ after.last = d.sim.last
             /\ after.cash = 0 /\ ~after.strayed
      BY ONLY <1>2, <1>5, OrderedFields
    <2> QED
      BY <1>2, <1>6, <2>1
  <1>9. /\ e \in Desks /\ e.sim = sim /\ e.position = d.position /\ e.equity = d.equity
        /\ e.filled = d.filled /\ e.flattened = d.flattened /\ e.charged = d.charged
        /\ e.unprotected = d.unprotected
        /\ e.trades = d.trades /\ e.faithful = d.faithful
    BY <1>1, <1>7, <1>8, WithSimFields
  <1>10. ~Tracked(e) /\ Trade(e) = Trade(d) + 1
    BY <1>5, <1>8, <1>9 DEF Tracked, Trade
  <1>11. \A l \in e.sim.levels : l.trade <= Trade(d) /\ l.trade \in Int
    BY <1>1, <1>2, <1>8, <1>9, LevelType DEF Typed, Simulators
  <1>12. Typed(e)
    BY <1>1, <1>4, <1>8, <1>9, <1>10, <1>11 DEF Typed
  <1>13. Awaits(e.sim)
    <2>1. \A l \in sim.levels : l.trade < order.trade
      BY <1>4, <1>5, <1>8, <1>9, <1>11
    <2>2. order.trade >= 1
      BY <1>4, <1>5
    <2> QED
      BY <1>5, <1>8, <1>9, <2>1, <2>2 DEF Awaits
  <1>14. Balanced(e) /\ Counted(e) /\ e.faithful
    BY <1>1, <1>9, <1>10 DEF Balanced, Counted, Faithful
  <1> QED
    BY <1>9, <1>10, <1>12, <1>13, <1>14 DEF Waiting

\* While it rests the market may fill it, and levels of earlier trades may touch it.
LEMMA WaitWaits ==
  ASSUME NEW d, Waiting(d), NEW b \in Bars,
         NEW e, e = WithSim(d, Walk(d.sim, Path(b, d)))
  PROVE  Waiting(e) /\ e.unprotected = d.unprotected
  <1>1. d \in Desks /\ Typed(d) /\ ~Tracked(d) /\ Awaits(d.sim) /\ Balanced(d) /\ Counted(d)
        /\ d.faithful
    BY DEF Waiting, Typed
  <1>2. PICK x, y, z \in Int : Path(b, d) = <<x, y, z>>
    BY PathWorstFirst
  <1>3. PICK sim : sim = Walk(d.sim, <<x, y, z>>)
    OBVIOUS
  <1>4. d.sim \in Simulators /\ IsFiniteSet(d.sim.levels)
    BY <1>1, DeskType DEF Typed
  <1>5. /\ sim \in Simulators /\ IsFiniteSet(sim.levels) /\ Awaits(sim)
        /\ sim.levels \subseteq d.sim.levels
        /\ sim.order.trade = d.sim.order.trade
    BY <1>1, <1>3, <1>4, WalkAwaits
  <1>6. e = WithSim(d, sim)
    BY <1>2, <1>3
  <1>7. /\ e \in Desks /\ e.sim = sim /\ e.position = d.position /\ e.equity = d.equity
        /\ e.filled = d.filled /\ e.flattened = d.flattened /\ e.charged = d.charged
        /\ e.unprotected = d.unprotected
        /\ e.trades = d.trades /\ e.faithful = d.faithful
    <2>1. d \in Desks /\ sim \in Simulators
      BY <1>1, <1>5
    <2> QED
      BY ONLY <1>6, <2>1, WithSimFields
  <1>8. ~Tracked(e) /\ Trade(e) = Trade(d)
    BY <1>1, <1>5, <1>7 DEF Tracked, Trade
  <1>9. Typed(e)
    BY <1>1, <1>5, <1>7, <1>8 DEF Typed
  <1>10. Balanced(e) /\ Counted(e)
    BY <1>1, <1>7, <1>8 DEF Balanced, Counted
  <1> QED
    BY <1>1, <1>5, <1>7, <1>8, <1>9, <1>10 DEF Waiting

\* An entry that never filled is cancelled, and nothing is held.
LEMMA ExpiredKeeps ==
  ASSUME NEW d, Waiting(d), d.sim.order.status = "open",
         NEW e, e = WithSim(d, CancelOrder(d.sim))
  PROVE  DeskOK(e) /\ ~Tracked(e) /\ e.unprotected = d.unprotected
  <1>1. d \in Desks /\ Typed(d) /\ ~Tracked(d) /\ Awaits(d.sim) /\ Balanced(d) /\ Counted(d)
        /\ d.faithful
    BY DEF Waiting, Typed
  <1>2. d.sim \in Simulators /\ d.sim.order \in Entries /\ d.sim.pos = 0
    BY <1>1, DeskType DEF Awaits
  <1>3. PICK order : order = [d.sim.order EXCEPT !.status = "cancelled"]
    OBVIOUS
  <1>4. order \in Entries /\ order.status = "cancelled" /\ order.trade = d.sim.order.trade
    BY <1>2, <1>3 DEF Entries
  <1>5. PICK sim : sim = CancelOrder(d.sim)
    OBVIOUS
  <1>6. sim = [d.sim EXCEPT !.order = order]
    BY <1>2, <1>3, <1>5 DEF CancelOrder, Simulators, Entries
  <1>7. /\ sim \in Simulators /\ sim.pos = 0 /\ sim.order = order /\ sim.levels = d.sim.levels
    BY <1>2, <1>4, <1>6 DEF Simulators
  <1>8. /\ e \in Desks /\ e.sim = sim /\ e.position = d.position /\ e.equity = d.equity
        /\ e.filled = d.filled /\ e.flattened = d.flattened /\ e.charged = d.charged
        /\ e.unprotected = d.unprotected
        /\ e.trades = d.trades /\ e.faithful = d.faithful
    <2>1. e = WithSim(d, sim)
      BY ONLY <1>5, e = WithSim(d, CancelOrder(d.sim))
    <2>2. d \in Desks /\ sim \in Simulators
      BY <1>1, <1>7
    <2> QED
      BY ONLY <2>1, <2>2, WithSimFields
  <1>9. ~Tracked(e) /\ Trade(e) = Trade(d)
    BY <1>1, <1>4, <1>7, <1>8 DEF Tracked, Trade
  <1>10. Typed(e) /\ e.sim.order.status # "open"
    BY <1>1, <1>4, <1>7, <1>8, <1>9 DEF Typed
  <1>11. Held(e) /\ Guarded(e) /\ Balanced(e) /\ Counted(e) /\ Faithful(e)
    BY <1>1, <1>7, <1>8, <1>9 DEF Held, Guarded, Balanced, Counted, Faithful
  <1> QED
    BY <1>8, <1>9, <1>10, <1>11 DEF DeskOK, Kept

\* Exposure that no stop covers is one the report admits to.
LEMMA CoveredOrAdmitted ==
  ASSUME NEW d, DeskOK(d)
  PROVE  Covered(d) \/ d.unprotected
  <1> SUFFICES ASSUME ~d.unprotected, d.sim.pos # 0
               PROVE  Covered(d)
    BY DEF Covered
  <1>1. d \in Desks /\ Held(d) /\ Guarded(d)
    BY DEF DeskOK, Kept, Typed
  <1>2. Tracked(d) /\ d.sim.pos \in Int
    BY <1>1, DeskType DEF Held
  <1>3. Direction(d) \in {1, -1} /\ d.position.remaining \in 1..Size
    BY <1>1, <1>2, LedgerOf, PositionType DEF Direction
  <1>4. PICK l \in d.sim.levels :
           l.name = "stop" /\ l.trade = d.sim.order.trade /\ l.size = -Direction(d) * Size
    BY <1>1, <1>2 DEF Guarded, StopRests
  <1>5. l.size \in Int /\ l.size # 0
    BY <1>1, LevelType, DeskType
  <1>6. TakesAll(l.size, d.sim.pos)
    BY <1>1, <1>2, <1>3, <1>4, StopTakesAll DEF Held
  <1>7. ClampReduceOnly(d.sim.pos, l.size) = -d.sim.pos
    BY <1>2, <1>5, <1>6, ClampReduces
  <1> QED
    BY <1>4, <1>7 DEF Covered

(***************************************************************************)
(* The run.                                                                *)
(***************************************************************************)

\* Between two steps the desk is in order; while an entry rests it waits for the market; and
\* exposure without a stop is never hidden from the report.
RunInv ==
    /\ pc = "resting" => Waiting(desk)
    /\ pc # "resting" => DeskOK(desk)
    /\ bare \in BOOLEAN /\ (bare => desk.unprotected)

LEMMA NewDeskOK ==
  DeskOK(NewDesk) /\ ~NewDesk.unprotected
  <1> DEFINE d == NewDesk
  <1>1. /\ d.sim = NewSimulator /\ d.position = NoPosition /\ d.equity = 0 /\ d.filled = 0
        /\ d.flattened = 0 /\ d.charged = 0 /\ ~d.unprotected /\ d.trades = <<>> /\ d.faithful
        /\ d.unconfirmed = FALSE
    BY DEF NewDesk
  <1>2. NewSimulator \in Simulators /\ NewSimulator.pos = 0 /\ NewSimulator.levels = {}
        /\ NewSimulator.order.status # "open"
    BY SizeType DEF NewSimulator, NoEntry, Simulators, Entries
  <1>3. <<>> \in TradesType /\ Len(<<>>) = 0
    BY DEF TradesType
  <1>4. Net(<<>>) = 0
    <2>1. PICK s \in TradesType : s = <<>>
      BY <1>3
    <2>2. PICK it : Net(s) = it[1..Len(s)] /\ it[{}] = 0
      BY <2>1, NetOneByOne
    <2>3. 1..Len(s) = {}
      BY <1>3, <2>1
    <2> QED
      BY <2>1, <2>2, <2>3
  <1>5. d \in Desks
    BY <1>2, <1>3 DEF Desks, NewDesk
  <1> HIDE DEF d
  <1>6. ~Tracked(d)
    BY <1>1 DEF Tracked
  <1>7. Typed(d) /\ Held(d) /\ Guarded(d) /\ d.sim.order.status # "open"
    BY <1>1, <1>2, <1>5, <1>6, FS_EmptySet DEF Typed, Held, Guarded
  <1>8. Balanced(d) /\ Counted(d) /\ Faithful(d)
    BY <1>1, <1>3, <1>4, <1>6 DEF Balanced, Counted, Faithful
  <1> QED
    BY <1>1, <1>7, <1>8 DEF DeskOK, Kept, d

\* The last thing a step does.
LEMMA StepEndsKeeps ==
  ASSUME RunInv, NEW d, DeskOK(d), desk.unprotected => d.unprotected, StepEnds(d)
  PROVE  RunInv'
  <1>1. desk' = d /\ bare' = (bare \/ ~Covered(d)) /\ pc' # "resting"
    BY DEF StepEnds
  <1>2. Covered(d) \/ d.unprotected
    BY CoveredOrAdmitted
  <1>3. bare' \in BOOLEAN /\ (bare' => desk'.unprotected)
    BY <1>1, <1>2 DEF RunInv
  <1> QED
    BY <1>1, <1>3 DEF RunInv

LEMMA WorksType == Works \subseteq BOOLEAN /\ TRUE \in BOOLEAN
  BY DEF Works

\* A position that is tracked is flattened, or stays as it was and the report says so.
LEMMA FlattenOK ==
  ASSUME NEW d, DeskOK(d), Tracked(d), NEW works \in BOOLEAN, NEW stage
  PROVE  DeskOK(Flatten(d, works, stage)) /\ Flatten(d, works, stage).unprotected = d.unprotected
  <1>1. PICK e : e = Flatten(d, works, stage)
    OBVIOUS
  <1>2. Kept(d) /\ Closable(d) /\ d \in Desks
    BY KeptCloses DEF DeskOK, Kept, Typed
  <1>3. \/ e = Unconfirmed(d)
        \/ DeskOK(e) /\ e.unprotected = d.unprotected
    BY <1>1, <1>2, FlattenKeeps
  <1>4. CASE e = Unconfirmed(d)
    <2>1. /\ e \in Desks /\ e.sim = d.sim /\ e.position = d.position
          /\ e.equity = d.equity /\ e.filled = d.filled /\ e.flattened = d.flattened
          /\ e.charged = d.charged /\ e.unprotected = d.unprotected
          /\ e.trades = d.trades /\ e.faithful = d.faithful
      BY <1>2, <1>4, ReportFields
    <2> QED
      BY <1>1, <1>2, <2>1, KeptOf
  <1> QED
    BY <1>1, <1>3, <1>4

LEMMA ReprotectKeeps ==
  ASSUME RunInv, Reprotect
  PROVE  RunInv'
  <1>1. pc = "step" /\ DeskOK(desk)
    BY DEF Reprotect, RunInv
  <1>2. PICK b \in Bars, works \in Works :
           LET d == Seen(b)
               closed == CloseCall(d, works)
           IN /\ d.position # NoPosition /\ ~d.position.protected
              /\ \/ StepEnds(Protected(d, d.position.remaining))
                 \/ "receipt" \in Faults /\ closed.sim.pos # 0 /\ StepEnds(closed)
                 \/ /\ "receipt" \in Faults /\ closed.sim.pos = 0
                    /\ StepEnds(Flatten(closed, TRUE, "protection"))
    BY DEF Reprotect
  <1>3. PICK d : d = Seen(b)
    OBVIOUS
  <1>4. PICK closed : closed = CloseCall(d, works)
    OBVIOUS
  <1>5. /\ Tracked(d) /\ ~d.position.protected
        /\ \/ StepEnds(Protected(d, d.position.remaining))
           \/ closed.sim.pos # 0 /\ StepEnds(closed)
           \/ closed.sim.pos = 0 /\ StepEnds(Flatten(closed, TRUE, "protection"))
    BY <1>2, <1>3, <1>4, Zenon DEF Tracked
  <1>6. DeskOK(d) /\ d.unprotected = desk.unprotected
    BY <1>1, <1>3, SeenKeeps
  <1>7. Kept(d) /\ Closable(d) /\ d.unprotected /\ works \in BOOLEAN /\ d \in Desks
    BY <1>5, <1>6, KeptCloses, WorksType DEF DeskOK, Guarded, Kept, Typed
  <1>8. /\ Closable(closed) /\ closed.unprotected = d.unprotected
        /\ closed.sim.pos # 0 => closed = d
    <2>1. Closable(d) /\ works \in BOOLEAN
      BY <1>7
    <2>2. Closable(closed) /\ closed.unprotected = d.unprotected
      BY ONLY <1>4, <2>1, CloseCallKeeps
    <2>3. closed.sim.pos # 0 => closed = d
      BY ONLY <1>4, <2>1, CloseCallKeeps
    <2> QED
      BY <2>2, <2>3
  <1>9. CASE StepEnds(Protected(d, d.position.remaining))
    <2>1. PICK size : size = d.position.remaining
      OBVIOUS
    <2>2. size \in Int /\ Magnitude(size) = d.position.remaining
      BY <1>5, <1>7, <2>1, LedgerOf, PositionType DEF Magnitude
    <2>3. PICK e : e = Protected(d, size)
      OBVIOUS
    <2>4. DeskOK(e) /\ e.unprotected = d.unprotected
      BY <1>5, <1>7, <2>2, <2>3, ProtectedKeeps
    <2>5. StepEnds(e)
      BY <1>9, <2>1, <2>3
    <2> QED
      BY <1>6, <2>4, <2>5, StepEndsKeeps
  <1>10. CASE closed.sim.pos # 0 /\ StepEnds(closed)
    BY <1>6, <1>8, <1>10, StepEndsKeeps
  <1>11. CASE closed.sim.pos = 0 /\ StepEnds(Flatten(closed, TRUE, "protection"))
    <2>1. PICK e : e = Flatten(closed, TRUE, "protection")
      OBVIOUS
    <2>2. PICK always \in BOOLEAN : always
      OBVIOUS
    <2>3. e = Flatten(closed, always, "protection")
      BY <2>1, <2>2
    <2>4. DeskOK(e) /\ e.unprotected = closed.unprotected
      BY <1>8, <1>11, <2>3, FlattenKeeps
    <2> QED
      BY <1>6, <1>8, <1>11, <2>1, <2>4, StepEndsKeeps
  <1> QED
    BY <1>5, <1>9, <1>10, <1>11

LEMMA EntryFilledKeeps ==
  ASSUME RunInv, EntryFilled
  PROVE  RunInv'
  <1>1. pc = "resting" /\ desk.sim.order.status = "filled" /\ Waiting(desk)
    BY DEF EntryFilled, RunInv
  <1>2. PICK order : order = desk.sim.order
    OBVIOUS
  <1>3. PICK direction : direction = (IF order.size > 0 THEN 1 ELSE -1)
    OBVIOUS
  <1>4. PICK opened : opened = Opened(desk, direction, order.limit)
    OBVIOUS
  <1>5. PICK fees : fees = (Maker + Taker) * Size
    OBVIOUS
  <1>6. PICK works \in Works :
          LET closed == CloseCall(opened, works)
          IN \/ StepEnds(Protected(opened, order.size))
             \/ /\ closed.sim.pos = 0
                /\ StepEnds([closed EXCEPT
                      !.equity = @ - Taker * Size, !.position = NoPosition,
                      !.flattened = @ + 1, !.charged = @ + fees,
                      !.sim.cash = 0, !.sim.strayed = FALSE])
             \/ /\ closed.sim.pos # 0
                /\ \E again \in Works :
                      StepEnds(Flatten([closed EXCEPT !.unprotected = TRUE], again,
                                       "protection"))
    BY ONLY EntryFilled, <1>2, <1>3, <1>4, <1>5, ZenonT(60) DEF EntryFilled
  <1>7. PICK closed : closed = CloseCall(opened, works)
    OBVIOUS
  <1>8. \/ StepEnds(Protected(opened, order.size))
        \/ /\ closed.sim.pos = 0
           /\ StepEnds([closed EXCEPT
                 !.equity = @ - Taker * Size, !.position = NoPosition,
                 !.flattened = @ + 1, !.charged = @ + (Maker + Taker) * Size,
                 !.sim.cash = 0, !.sim.strayed = FALSE])
        \/ /\ closed.sim.pos # 0
           /\ \E again \in Works : StepEnds(Flatten(Admitted(closed), again, "protection"))
    BY <1>5, <1>6, <1>7, Zenon DEF Admitted
  <1>9. /\ Kept(opened) /\ Tracked(opened) /\ ~opened.position.protected
        /\ opened.position.remaining = Size /\ Direction(opened) * Size = order.size
        /\ Direction(opened) \in {1, -1} /\ opened.unprotected = desk.unprotected
        /\ opened.position.realised = 0 /\ opened.position.fees = Maker * Size
    BY <1>1, <1>2, <1>3, <1>4, OpenedKeeps
  <1>10. Closable(opened) /\ opened \in Desks /\ works \in BOOLEAN
    BY <1>9, KeptCloses, WorksType DEF Kept, Typed
  <1>11. /\ Closable(closed) /\ closed.unprotected = desk.unprotected
         /\ closed.position = opened.position
         /\ closed.sim.pos # 0 => closed = opened
    BY <1>7, <1>9, <1>10, CloseCallKeeps
  <1>12. CASE StepEnds(Protected(opened, order.size))
    <2>1. order.size \in Int /\ Magnitude(order.size) = Size
      BY <1>9, SizeType DEF Magnitude
    <2>2. DeskOK(Protected(opened, order.size))
          /\ Protected(opened, order.size).unprotected = opened.unprotected
      BY <1>9, <2>1, ProtectedKeeps
    <2> QED
      BY <1>9, <1>12, <2>2, StepEndsKeeps
  <1>13. CASE /\ closed.sim.pos = 0
              /\ StepEnds([closed EXCEPT
                    !.equity = @ - Taker * Size, !.position = NoPosition,
                    !.flattened = @ + 1, !.charged = @ + (Maker + Taker) * Size,
                    !.sim.cash = 0, !.sim.strayed = FALSE])
    <2>1. PICK e : e = [closed EXCEPT
                          !.equity = @ - Taker * Size, !.position = NoPosition,
                          !.flattened = @ + 1, !.charged = @ + (Maker + Taker) * Size,
                          !.sim.cash = 0, !.sim.strayed = FALSE]
      OBVIOUS
    <2>2. closed.position.realised = 0 /\ closed.position.fees = Maker * Size
      BY <1>9, <1>11
    <2>3. DeskOK(e) /\ e.unprotected = closed.unprotected
      BY <1>11, <1>13, <2>1, <2>2, UndoneKeeps
    <2> QED
      BY <1>11, <1>13, <2>1, <2>3, StepEndsKeeps
  <1>14. CASE /\ closed.sim.pos # 0
              /\ \E again \in Works : StepEnds(Flatten(Admitted(closed), again, "protection"))
    <2>1. PICK again \in Works : StepEnds(Flatten(Admitted(closed), again, "protection"))
      BY <1>14
    <2>2. PICK d : d = Admitted(opened)
      OBVIOUS
    <2>3. /\ d \in Desks /\ d.sim = opened.sim /\ d.position = opened.position
          /\ d.equity = opened.equity /\ d.filled = opened.filled
          /\ d.flattened = opened.flattened
          /\ d.charged = opened.charged /\ d.unprotected
          /\ d.trades = opened.trades /\ d.faithful = opened.faithful
      BY <1>10, <2>2, ReportFields
    <2>4. DeskOK(d) /\ Tracked(d)
      BY <1>9, <2>3, KeptOf
    <2>5. PICK e : e = Flatten(d, again, "protection")
      OBVIOUS
    <2>6. DeskOK(e) /\ e.unprotected = d.unprotected
      BY <2>1, <2>4, <2>5, FlattenOK, WorksType
    <2>7. StepEnds(e)
      BY <1>11, <1>14, <2>1, <2>2, <2>5
    <2> QED
      BY <2>3, <2>6, <2>7, StepEndsKeeps
  <1> QED
    BY <1>8, <1>12, <1>13, <1>14

LEMMA EnterKeeps ==
  ASSUME RunInv, Enter
  PROVE  RunInv'
  <1>1. pc = "step" /\ DeskOK(desk) /\ desk.sim.order.trade < MaxTrades
    BY DEF Enter, RunInv
  <1>2. PICK b \in Bars :
           LET d == Seen(b)
           IN /\ d.position = NoPosition
              /\ \E direction \in {1, -1} :
                    /\ b.mark - direction * StopTicks \in Prices
                    /\ desk' = [d EXCEPT
                          !.sim = PlaceOrder(@, direction * Size, b.mark - direction)]
    BY DEF Enter
  <1>3. PICK d : d = Seen(b)
    OBVIOUS
  <1>4. PICK direction \in {1, -1} :
           desk' = WithSim(d, PlaceOrder(d.sim, direction * Size, b.mark - direction))
    BY <1>2, <1>3, Zenon DEF WithSim
  <1>5. ~Tracked(d) /\ DeskOK(d) /\ d.unprotected = desk.unprotected /\ Trade(d) < MaxTrades
    BY <1>1, <1>2, <1>3, SeenKeeps DEF Tracked, Trade
  <1>6. PICK limit \in Int : limit = b.mark - direction
    BY PathWorstFirst
  <1>7. PICK e : e = WithSim(d, PlaceOrder(d.sim, direction * Size, limit))
    OBVIOUS
  <1>8. Waiting(e) /\ e.unprotected = d.unprotected
    BY ONLY <1>5, <1>7, EnterWaits
  <1>9. desk' = e /\ pc' = "resting" /\ bare' = bare
    BY <1>4, <1>6, <1>7 DEF Enter
  <1> QED
    BY <1>5, <1>8, <1>9 DEF RunInv

\* Every step of the run keeps the desk in order.
LEMMA RunKeeps ==
  ASSUME RunInv, Run
  PROVE  RunInv'
  <1>1. ASSUME NEW b \in Bars, pc = "step"
        PROVE  DeskOK(Seen(b)) /\ Seen(b).unprotected = desk.unprotected
    BY <1>1, SeenKeeps DEF RunInv
  <1>2. CASE HoldPosition \/ StandAside
    <2>1. PICK b \in Bars : pc = "step" /\ StepEnds(Seen(b))
      BY <1>2 DEF HoldPosition, StandAside
    <2> QED
      BY <1>1, <2>1, StepEndsKeeps
  <1>3. CASE FlattenForSession
    <2>1. PICK b \in Bars, works \in Works :
             pc = "step" /\ Tracked(Seen(b)) /\ StepEnds(Flatten(Seen(b), works, "session"))
      BY <1>3 DEF FlattenForSession, Tracked
    <2>2. DeskOK(Seen(b)) /\ Seen(b).unprotected = desk.unprotected
      BY <1>1, <2>1
    <2>3. PICK e : e = Flatten(Seen(b), works, "session")
      OBVIOUS
    <2>4. DeskOK(e) /\ e.unprotected = Seen(b).unprotected
      BY <2>1, <2>2, <2>3, FlattenOK, WorksType
    <2> QED
      BY <2>1, <2>2, <2>3, <2>4, StepEndsKeeps
  <1>4. CASE WaitForMarket
    <2>1. pc = "resting" /\ Waiting(desk) /\ pc' = pc /\ bare' = bare
      BY <1>4 DEF WaitForMarket, Resting, RunInv
    <2>2. PICK b \in Bars : desk' = WithSim(desk, Walk(desk.sim, Path(b, desk)))
      BY <1>4 DEF WaitForMarket, WithSim
    <2>3. Waiting(desk') /\ desk'.unprotected = desk.unprotected
      BY <2>1, <2>2, WaitWaits
    <2> QED
      BY <2>1, <2>3 DEF RunInv
  <1>5. CASE WaitForNothing
    <2>1. pc' = pc /\ desk' = desk /\ bare' = bare
      BY <1>5 DEF WaitForNothing
    <2> QED
      BY <2>1 DEF RunInv
  <1>6. CASE EntryExpired
    <2>1. /\ Waiting(desk) /\ desk.sim.order.status = "open"
          /\ StepEnds(WithSim(desk, CancelOrder(desk.sim)))
      BY <1>6 DEF EntryExpired, Resting, RunInv, WithSim
    <2>2. PICK e : e = WithSim(desk, CancelOrder(desk.sim))
      OBVIOUS
    <2>3. DeskOK(e) /\ e.unprotected = desk.unprotected
      BY <2>1, <2>2, ExpiredKeeps
    <2> QED
      BY <2>1, <2>2, <2>3, StepEndsKeeps
  <1> QED
    BY <1>2, <1>3, <1>4, <1>5, <1>6, ReprotectKeeps, EnterKeeps, EntryFilledKeeps DEF Run
================================================================================
