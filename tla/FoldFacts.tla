-------------------------------- MODULE FoldFacts ------------------------------
(***************************************************************************)
(* Lemmas about least elements, and about folds and sums over finite sets, *)
(* that the proofs about several components rest on.                       *)
(***************************************************************************)
EXTENDS Integers, FiniteSetsExt, FiniteSetTheorems, WellFoundedInduction, TLAPS

(***************************************************************************)
(* Folds over finite sets.                                                 *)
(***************************************************************************)

\* A set of naturals has a least element.
LEMMA LeastNatural ==
  ASSUME NEW S \in SUBSET Nat, S # {}
  PROVE  \E n \in S : \A m \in S : n <= m
  <1> DEFINE R == OpToRel(<, Nat)
  <1>1. IsWellFoundedOn(R, Nat)
    BY ONLY NatLessThanWellFounded
  <1>2. \A x, y \in Nat : <<y, x>> \in R <=> y < x
    BY ONLY DEF OpToRel, R
  <1> HIDE DEF R
  <1>3. PICK n \in S : \A m \in S : ~(<<m, n>> \in R)
    BY ONLY <1>1, WFMin, S \in SUBSET Nat, S # {}
  <1>4. \A m \in S : ~(m < n)
    BY ONLY <1>2, <1>3, S \in SUBSET Nat
  <1> QED
    BY ONLY <1>3, <1>4, S \in SUBSET Nat

\* Counting up to n.
LEMMA CountingUp ==
  ASSUME NEW n \in Nat, NEW Good, 0 \in Good, \A k \in 0..(n - 1) : k \in Good => k + 1 \in Good
  PROVE  \A k \in 0..n : k \in Good
  <1> DEFINE bad == {k \in Nat : k <= n /\ k \notin Good}
  <1> SUFFICES ASSUME bad # {} PROVE FALSE
    BY SMT
  <1>1. PICK k \in bad : \A j \in bad : k <= j
    <2>1. bad \in SUBSET Nat
      OBVIOUS
    <2> HIDE DEF bad
    <2> QED
      BY <2>1, LeastNatural
  <1>2. k \in Nat /\ k <= n /\ k \notin Good /\ k # 0
    OBVIOUS
  <1>3. k - 1 \in Nat /\ k - 1 <= n /\ ~(k <= k - 1) /\ k - 1 \in 0..(n - 1) /\ (k - 1) + 1 = k
    BY <1>2
  <1>4. k - 1 \in Good
    BY <1>1, <1>3
  <1> QED
    BY <1>2, <1>3, <1>4

LEMMA SubsetSize ==
  ASSUME NEW F, IsFiniteSet(F), NEW s \in SUBSET F
  PROVE  /\ IsFiniteSet(s) /\ Cardinality(s) \in Nat
         /\ Cardinality(s) = 0 <=> s = {}
         /\ Cardinality(s) <= Cardinality(F)
         /\ \A x \in s : Cardinality(s \ {x}) = Cardinality(s) - 1
  BY FS_Subset, FS_CardinalityType, FS_EmptySet, FS_RemoveElement

\* A property of subsets, given as the set of those that have it, holds of all when each
\* inherits it from itself with some element taken away.
LEMMA SubsetInduction ==
  ASSUME NEW F, IsFiniteSet(F), NEW Good, {} \in Good,
         \A s \in SUBSET F : s # {} => \E x \in s : s \ {x} \in Good => s \in Good
  PROVE  \A s \in SUBSET F : s \in Good
  <1> DEFINE bad == {n \in Nat : \E s \in SUBSET F : Cardinality(s) = n /\ s \notin Good}
  <1>1. bad = {}
    <2> SUFFICES ASSUME bad # {} PROVE FALSE
      OBVIOUS
    <2>1. PICK n \in bad : \A j \in bad : n <= j
      <3>1. bad \in SUBSET Nat
        OBVIOUS
      <3> HIDE DEF bad
      <3> QED
        BY <3>1, LeastNatural
    <2>2. PICK s \in SUBSET F : Cardinality(s) = n /\ s \notin Good
      OBVIOUS
    <2>3. PICK x \in s : s \ {x} \in Good => s \in Good
      BY <2>2
    <2>4. s \ {x} \notin Good
      BY <2>2, <2>3
    <2>5. Cardinality(s \ {x}) = n - 1 /\ n - 1 \in Nat /\ n \in Nat
      <3>1. Cardinality(s \ {x}) = n - 1
        BY <2>2, SubsetSize
      <3>2. s \ {x} \in SUBSET F
        OBVIOUS
      <3>3. Cardinality(s \ {x}) \in Nat
        BY <3>2, SubsetSize
      <3> QED
        BY <3>1, <3>3
    <2>6. n - 1 \in bad
      <3>1. s \ {x} \in SUBSET F
        OBVIOUS
      <3> QED
        BY <2>4, <2>5, <3>1
    <2> HIDE DEF bad
    <2> QED
      BY <2>1, <2>5, <2>6
  <1>2. ASSUME NEW s \in SUBSET F PROVE s \in Good
    <2>1. Cardinality(s) \in Nat /\ Cardinality(s) \notin bad
      BY <1>1, SubsetSize
    <2> QED
      BY <2>1
  <1> QED
    BY <1>2

\* A finite set has an element on which a function is greatest.
LEMMA GreatestElement ==
  ASSUME NEW F, IsFiniteSet(F), NEW key, \A x \in F : key[x] \in Int
  PROVE  \A s \in SUBSET F : s # {} => \E x \in s : \A y \in s : key[y] <= key[x]
  <1> DEFINE Good == {s \in SUBSET F : s # {} => \E x \in s : \A y \in s : key[y] <= key[x]}
  <1>1. {} \in Good
    OBVIOUS
  <1>2. ASSUME NEW s \in SUBSET F, NEW x \in s, s \ {x} \in Good
        PROVE  s \in Good
    <2>1. CASE s \ {x} = {}
      <3>1. \A y \in s : y = x /\ key[y] \in Int
        BY <2>1
      <3>2. \A y \in s : key[y] <= key[x]
        BY <3>1
      <3> QED
        BY <3>2
    <2>2. CASE s \ {x} # {}
      <3>1. PICK z \in s \ {x} : \A y \in s \ {x} : key[y] <= key[z]
        BY <1>2, <2>2
      <3>2. key[x] \in Int /\ key[z] \in Int /\ \A y \in s : key[y] \in Int
        BY <3>1
      <3>3. CASE key[x] <= key[z]
        <4>1. \A y \in s : key[y] <= key[z]
          BY <3>1, <3>3
        <4> QED
          BY <4>1
      <3>4. CASE key[z] <= key[x]
        <4>1. \A y \in s : key[y] <= key[x]
          BY <3>1, <3>2, <3>4
        <4> QED
          BY <4>1
      <3> QED
        BY <3>2, <3>3, <3>4
    <2> QED
      BY <2>1, <2>2
  <1>3. \A s \in SUBSET F : s # {} => \E x \in s : s \ {x} \in Good => s \in Good
    <2> HIDE DEF Good
    <2> QED
      BY <1>2
  <1>4. \A s \in SUBSET F : s \in Good
    <2> HIDE DEF Good
    <2> QED
      BY <1>1, <1>3, SubsetInduction
  <1> QED
    BY <1>4

\* The subsets of at most n elements.
Small(F, n) == {s \in SUBSET F : Cardinality(s) <= n}

\* it folds step from base over every subset of F of at most n elements, the picked last.
Folds(it, F, n, base, step, pick) ==
    it = [s \in Small(F, n) |->
            IF s = {} THEN base ELSE step[<<pick[s], it[s \ {pick[s]}]>>]]

\* The recursion of a fold over a finite set has a solution.
LEMMA FoldExists ==
  ASSUME NEW F, IsFiniteSet(F), NEW base, NEW step, NEW pick,
         \A s \in SUBSET F : s # {} => pick[s] \in s,
         NEW m \in Nat
  PROVE  \E it : Folds(it, F, m, base, step, pick)
  <1> DEFINE bad == {k \in Nat : ~ \E it : Folds(it, F, k, base, step, pick)}
  <1> SUFFICES ASSUME bad # {} PROVE FALSE
    OBVIOUS
  <1>1. PICK k \in bad : \A j \in bad : k <= j
    <2>1. bad \in SUBSET Nat
      OBVIOUS
    <2> HIDE DEF bad
    <2> QED
      BY <2>1, LeastNatural
  <1>2. k \in Nat /\ ~ \E it : Folds(it, F, k, base, step, pick)
    OBVIOUS
  <1>3. CASE k = 0
    <2> DEFINE g == [s \in Small(F, 0) |-> base]
    <2>1. \A s \in Small(F, 0) : s = {}
      BY SubsetSize DEF Small
    <2>2. Folds(g, F, 0, base, step, pick)
      BY <2>1 DEF Folds
    <2> QED
      BY <1>2, <1>3, <2>2
  <1>4. CASE k > 0
    <2>1. k - 1 \in Nat /\ k - 1 \notin bad
      <3>1. k - 1 \in Nat /\ ~(k <= k - 1)
        BY <1>2, <1>4
      <3> HIDE DEF bad
      <3> QED
        BY <1>1, <3>1
    <2>2. PICK f : Folds(f, F, k - 1, base, step, pick)
      BY <2>1
    <2> DEFINE g == [s \in Small(F, k) |->
                       IF s = {} THEN base ELSE step[<<pick[s], f[s \ {pick[s]}]>>]]
    <2>3. ASSUME NEW s \in Small(F, k), s # {}
          PROVE  s \ {pick[s]} \in Small(F, k - 1)
      <3>1. s \in SUBSET F /\ Cardinality(s) <= k
        BY DEF Small
      <3>2. pick[s] \in s
        BY <2>3, <3>1
      <3>3. Cardinality(s \ {pick[s]}) = Cardinality(s) - 1 /\ Cardinality(s) \in Nat
        BY <3>1, <3>2, SubsetSize
      <3>4. Cardinality(s \ {pick[s]}) <= k - 1
        BY <1>2, <3>1, <3>3
      <3> QED
        BY <3>1, <3>4 DEF Small
    <2>4. ASSUME NEW s \in Small(F, k - 1)
          PROVE  s \in Small(F, k) /\ f[s] = g[s]
      <3>1. s \in Small(F, k)
        BY <1>2, SubsetSize DEF Small
      <3>2. f[s] = IF s = {} THEN base ELSE step[<<pick[s], f[s \ {pick[s]}]>>]
        <4> HIDE DEF g
        <4> QED
          BY <2>2 DEF Folds
      <3> QED
        BY <3>1, <3>2
    <2>5. \A s \in Small(F, k) :
             g[s] = IF s = {} THEN base ELSE step[<<pick[s], g[s \ {pick[s]}]>>]
      BY <2>3, <2>4
    <2>6. Folds(g, F, k, base, step, pick)
      <3>1. g = [s \in Small(F, k) |-> g[s]]
        OBVIOUS
      <3> HIDE DEF g
      <3> QED
        BY <2>5, <3>1 DEF Folds
    <2> QED
      BY <1>2, <2>6
  <1> QED
    BY <1>2, <1>3, <1>4

\* The same over all subsets.
FoldsAll(it, F, base, step, pick) ==
    it = [s \in SUBSET F |-> IF s = {} THEN base ELSE step[<<pick[s], it[s \ {pick[s]}]>>]]

StaysIn(it, F, W) == \A s \in SUBSET F : it[s] \in W

\* What a fold needs: an element to pick of every set, and a step that stays in W.
Steps(F, W, step, pick) ==
    /\ \A s \in SUBSET F : s # {} => pick[s] \in s
    /\ \A x \in F, w \in W : step[<<x, w>>] \in W

\* It has a solution whose values stay in a set on which step is defined.
LEMMA FoldStays ==
  ASSUME NEW F, IsFiniteSet(F), NEW W, NEW base \in W, NEW step, NEW pick,
         Steps(F, W, step, pick)
  PROVE  \E it : FoldsAll(it, F, base, step, pick) /\ StaysIn(it, F, W)
  <1> USE DEF Steps
  <1> DEFINE m == Cardinality(F)
  <1>1. m \in Nat /\ Small(F, m) = SUBSET F
    BY SubsetSize DEF Small
  <1>2. PICK it : Folds(it, F, m, base, step, pick)
    <2> HIDE DEF m
    <2> QED
      BY <1>1, FoldExists
  <1>3. it = [s \in SUBSET F |->
                IF s = {} THEN base ELSE step[<<pick[s], it[s \ {pick[s]}]>>]]
    BY <1>1, <1>2, Zenon DEF Folds
  <1> DEFINE Good == {s \in SUBSET F : it[s] \in W}
  <1>4. {} \in Good
    BY <1>3
  <1>5. ASSUME NEW s \in SUBSET F, s # {}
        PROVE  \E x \in s : s \ {x} \in Good => s \in Good
    <2>1. pick[s] \in s /\ it[s] = step[<<pick[s], it[s \ {pick[s]}]>>]
      BY <1>3, <1>5
    <2> QED
      BY <2>1
  <1>6. \A s \in SUBSET F : s \in Good
    <2> HIDE DEF Good
    <2> QED
      BY <1>4, <1>5, SubsetInduction
  <1> QED
    BY <1>3, <1>6 DEF FoldsAll, StaysIn

(***************************************************************************)
(* Sums over finite sets.                                                  *)
(***************************************************************************)

Chosen(s) == CHOOSE x \in s : TRUE

\* The sum of what w gives the elements of a set, as the library adds it up.
SumOf(w, s) == MapThenSumSet(LAMBDA x : w[x], s)

\* it adds up every subset of F, the chosen element last.
Sums(it, F, w) ==
    it = [s \in SUBSET F |-> IF s = {} THEN 0 ELSE w[Chosen(s)] + it[s \ {Chosen(s)}]]

LEMMA SumsExist ==
  ASSUME NEW F, IsFiniteSet(F), NEW w, \A x \in F : w[x] \in Int
  PROVE  \E it : Sums(it, F, w)
  <1> DEFINE pick == [s \in SUBSET F |-> Chosen(s)]
             step == [p \in F \X Int |-> w[p[1]] + p[2]]
  <1>1. \A s \in SUBSET F : s # {} => pick[s] \in s /\ pick[s] = Chosen(s)
    BY DEF Chosen
  <1>2. \A x \in F, n \in Int : step[<<x, n>>] = w[x] + n /\ step[<<x, n>>] \in Int
    OBVIOUS
  <1> HIDE DEF pick, step
  <1>3. PICK it : FoldsAll(it, F, 0, step, pick) /\ StaysIn(it, F, Int)
    <2>1. Steps(F, Int, step, pick)
      BY <1>1, <1>2 DEF Steps
    <2>2. 0 \in Int
      OBVIOUS
    <2> QED
      BY <2>1, <2>2, FoldStays
  <1>4. ASSUME NEW s \in SUBSET F, s # {}
        PROVE  step[<<pick[s], it[s \ {pick[s]}]>>] = w[Chosen(s)] + it[s \ {Chosen(s)}]
    <2>1. pick[s] \in F /\ pick[s] = Chosen(s)
      BY <1>1, <1>4
    <2>2. it[s \ {Chosen(s)}] \in Int
      BY <1>3 DEF StaysIn
    <2> QED
      BY <1>2, <2>1, <2>2
  <1>5. Sums(it, F, w)
    BY <1>3, <1>4 DEF FoldsAll, Sums
  <1> QED
    BY <1>5

\* Whatever element is taken away, the sum loses what it has, and no more.
LEMMA SumWithout ==
  ASSUME NEW F, IsFiniteSet(F), NEW w, \A x \in F : w[x] \in Int, NEW it, Sums(it, F, w)
  PROVE  /\ it[{}] = 0
         /\ \A s \in SUBSET F : it[s] \in Int
         /\ \A s \in SUBSET F : \A x \in s : it[s] = it[s \ {x}] + w[x]
  <1>1. it[{}] = 0
    BY DEF Sums
  <1>2. \A s \in SUBSET F : s # {} =>
           Chosen(s) \in s /\ it[s] = w[Chosen(s)] + it[s \ {Chosen(s)}]
    BY DEF Sums, Chosen
  <1> DEFINE Good == {s \in SUBSET F : it[s] \in Int}
  <1>3. ASSUME NEW s \in SUBSET F, s # {}
        PROVE  \E x \in s : s \ {x} \in Good => s \in Good
    <2>1. Chosen(s) \in s /\ it[s] = w[Chosen(s)] + it[s \ {Chosen(s)}]
      BY <1>2, <1>3
    <2>2. w[Chosen(s)] \in Int
      BY <2>1
    <2> QED
      BY <2>1, <2>2
  <1>4. {} \in Good
    BY <1>1
  <1>5. \A s \in SUBSET F : s \in Good
    <2> HIDE DEF Good
    <2> QED
      BY <1>3, <1>4, SubsetInduction
  <1>6. \A s \in SUBSET F : it[s] \in Int
    BY <1>5
  <1> HIDE DEF Good
  <1> DEFINE Fair(s) == \A x \in s : it[s] = it[s \ {x}] + w[x]
             bad == {n \in Nat : \E s \in SUBSET F : Cardinality(s) = n /\ ~Fair(s)}
  <1>7. bad = {}
    <2> SUFFICES ASSUME bad # {} PROVE FALSE
      OBVIOUS
    <2>1. PICK n \in bad : \A j \in bad : n <= j
      <3>1. bad \in SUBSET Nat
        OBVIOUS
      <3> HIDE DEF bad
      <3> QED
        BY <3>1, LeastNatural
    <2>2. PICK s \in SUBSET F : Cardinality(s) = n /\ ~Fair(s)
      OBVIOUS
    <2>3. PICK x \in s : it[s] # it[s \ {x}] + w[x]
      BY <2>2
    <2>4. PICK c \in s : c = Chosen(s)
      BY <1>2, <2>3
    <2>5. it[s] = w[c] + it[s \ {c}]
      BY <1>2, <2>3, <2>4
    <2>6. c # x
      <3>1. it[s \ {c}] \in Int /\ w[c] \in Int
        BY <1>6
      <3>2. it[s] = it[s \ {c}] + w[c]
        BY <2>5, <3>1
      <3> HIDE DEF Fair, bad
      <3> QED
        BY ONLY <2>3, <3>2
    <2>7. ASSUME NEW y \in s PROVE Fair(s \ {y})
      <3>1. Cardinality(s \ {y}) = n - 1 /\ n - 1 \in Nat /\ n \in Nat
        <4>1. Cardinality(s \ {y}) = Cardinality(s) - 1
          BY SubsetSize
        <4>2. s \ {y} \in SUBSET F
          OBVIOUS
        <4>3. Cardinality(s \ {y}) \in Nat
          BY <4>2, SubsetSize
        <4> QED
          BY <2>2, <4>1, <4>3
      <3>2. n - 1 \notin bad
        <4>1. ~(n <= n - 1)
          BY <3>1
        <4> HIDE DEF bad
        <4> QED
          BY <2>1, <4>1
      <3>3. s \ {y} \in SUBSET F
        OBVIOUS
      <3> HIDE DEF Fair
      <3> QED
        BY <3>1, <3>2, <3>3
    <2>8. it[s \ {c}] = it[(s \ {c}) \ {x}] + w[x]
      BY <2>6, <2>7
    <2>9. it[s \ {x}] = it[(s \ {x}) \ {c}] + w[c]
      BY <2>6, <2>7
    <2>10. (s \ {c}) \ {x} = (s \ {x}) \ {c}
      OBVIOUS
    <2>11. w[c] \in Int /\ w[x] \in Int /\ it[(s \ {x}) \ {c}] \in Int
      BY <1>6
    <2> QED
      BY <2>3, <2>5, <2>8, <2>9, <2>10, <2>11
  <1>8. ASSUME NEW s \in SUBSET F PROVE Fair(s)
    <2>1. Cardinality(s) \in Nat /\ Cardinality(s) \notin bad
      BY <1>7, SubsetSize
    <2> HIDE DEF Fair
    <2> QED
      BY <2>1
  <1> QED
    BY <1>1, <1>6, <1>8

\* The library's sum over a set agrees with the sum of any larger set there.
LEMMA SumOfSub ==
  ASSUME NEW F, IsFiniteSet(F), NEW w, \A x \in F : w[x] \in Int, NEW it, Sums(it, F, w)
  PROVE  \A s \in SUBSET F : SumOf(w, s) = it[s]
  <1> SUFFICES ASSUME NEW s \in SUBSET F PROVE SumOf(w, s) = it[s]
    OBVIOUS
  <1>1. IsFiniteSet(s) /\ \A x \in s : w[x] \in Int
    BY SubsetSize
  <1> DEFINE jt == CHOOSE jt : Sums(jt, s, w)
  <1>2. SumOf(w, s) = jt[s]
    BY DEF SumOf, MapThenSumSet, MapThenFoldSet, Sums, Chosen
  <1>3. Sums(jt, s, w)
    BY <1>1, SumsExist
  <1> HIDE DEF jt
  <1> DEFINE Good == {t \in SUBSET s : jt[t] = it[t]}
  <1>4. {} \in Good
    BY <1>3 DEF Sums
  <1>5. ASSUME NEW t \in SUBSET s, t # {}
        PROVE  \E x \in t : t \ {x} \in Good => t \in Good
    <2>1. Chosen(t) \in t
      BY <1>5 DEF Chosen
    <2>2. jt[t] = w[Chosen(t)] + jt[t \ {Chosen(t)}]
      BY <1>3, <1>5 DEF Sums
    <2>3. it[t] = w[Chosen(t)] + it[t \ {Chosen(t)}]
      BY <1>5 DEF Sums
    <2> QED
      BY <2>1, <2>2, <2>3
  <1>6. \A t \in SUBSET s : t \in Good
    <2> HIDE DEF Good
    <2> QED
      BY <1>1, <1>4, <1>5, SubsetInduction
  <1> QED
    BY <1>2, <1>6

\* A sum over a finite set is a number, and the sum of the rest and what is taken away.
LEMMA SumFacts ==
  ASSUME NEW F, IsFiniteSet(F), NEW w, \A x \in F : w[x] \in Int
  PROVE  /\ SumOf(w, F) \in Int
         /\ F = {} => SumOf(w, F) = 0
         /\ \A x \in F : SumOf(w, F) = SumOf(w, F \ {x}) + w[x]
  <1>1. PICK it : Sums(it, F, w)
    BY SumsExist
  <1>2. /\ it[{}] = 0 /\ \A s \in SUBSET F : it[s] \in Int
        /\ \A s \in SUBSET F : \A x \in s : it[s] = it[s \ {x}] + w[x]
    BY <1>1, SumWithout
  <1>3. \A s \in SUBSET F : SumOf(w, s) = it[s]
    BY <1>1, SumOfSub
  <1>4. F \in SUBSET F /\ \A x \in F : F \ {x} \in SUBSET F
    OBVIOUS
  <1> QED
    BY <1>2, <1>3, <1>4
================================================================================
