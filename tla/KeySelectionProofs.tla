-------------------------- MODULE KeySelectionProofs --------------------------
(***************************************************************************)
(* The order of the keys, for any keys, policies, models of a name and     *)
(* number of concurrent requests: a request's list holds every key with    *)
(* room in its windows, keys that take turns do so evenly over those the   *)
(* cursor reaches, and calls are spread as far as what a policy counts     *)
(* allows.                                                                 *)
(***************************************************************************)
EXTENDS KeySelection, FiniteSetTheorems, FunctionTheorems, SequenceTheorems,
        WellFoundedInduction, TLAPS

-----------------------------------------------------------------------------
(* Tuples in their order.                                                  *)

(* A set that InOrder can put in a sequence: no two tuples are level.      *)
Sortable(S) ==
  /\ IsFiniteSet(S)
  /\ \A x \in S : x[1] \in Int /\ x[2] \in Int
  /\ \A x, y \in S : x[1] = y[1] /\ x[2] = y[2] => x = y

(* The tuples that come before one.                                        *)
Ahead(S, x) == {y \in S : Before(y, x)}

(* Who comes later has more in front of it.                                *)
LEMMA AheadGrows ==
  ASSUME NEW S, Sortable(S), NEW x \in S, NEW y \in S, Before(x, y)
  PROVE  Cardinality(Ahead(S, x)) < Cardinality(Ahead(S, y))
<1> DEFINE A == Ahead(S, x)
           B == Ahead(S, y)
<1>1. A \subseteq B /\ x \in B /\ x \notin A
  BY DEF Ahead, Before, Sortable
<1>2. IsFiniteSet(B) /\ IsFiniteSet(A)
  BY FS_Subset DEF Ahead, Sortable
<1>3. Cardinality(A) <= Cardinality(B) /\ Cardinality(A) # Cardinality(B)
  <2> HIDE DEF A, B
  <2> QED
    BY <1>1, <1>2, FS_Subset
<1>4. Cardinality(A) \in Nat /\ Cardinality(B) \in Nat
  BY <1>2, FS_CardinalityType
<1> QED
  BY <1>3, <1>4

(* Each place from 0 to the last is that of exactly one tuple.             *)
LEMMA PlacesFilled ==
  ASSUME NEW S, Sortable(S)
  PROVE  /\ Cardinality(S) \in Nat
         /\ \A x \in S : Cardinality(Ahead(S, x)) \in 0..(Cardinality(S) - 1)
         /\ \A x, y \in S : Cardinality(Ahead(S, x)) = Cardinality(Ahead(S, y)) => x = y
         /\ \A p \in 1..Cardinality(S) : \E x \in S : Cardinality(Ahead(S, x)) = p - 1
<1> DEFINE n == Cardinality(S)
           f == [x \in S |-> Cardinality(Ahead(S, x)) + 1]
<1>1. n \in Nat
  BY FS_CardinalityType DEF Sortable
<1>2. ASSUME NEW x \in S PROVE Cardinality(Ahead(S, x)) \in 0..(n - 1)
  <2> DEFINE A == Ahead(S, x)
  <2>1. A \in SUBSET S /\ x \notin A
    BY DEF Ahead, Before, Sortable
  <2>2. IsFiniteSet(S)
    BY DEF Sortable
  <2> HIDE DEF A
  <2>3. Cardinality(A) <= n /\ Cardinality(A) # n /\ IsFiniteSet(A)
    BY <2>1, <2>2, FS_Subset
  <2>4. Cardinality(A) \in Nat
    BY <2>3, FS_CardinalityType
  <2>5. Cardinality(A) \in 0..(n - 1)
    BY <1>1, <2>3, <2>4
  <2> QED
    BY <2>5 DEF A
<1>3. ASSUME NEW x \in S, NEW y \in S,
             Cardinality(Ahead(S, x)) = Cardinality(Ahead(S, y))
      PROVE  x = y
  <2>1. Cardinality(Ahead(S, x)) \in Int /\ Cardinality(Ahead(S, y)) \in Int
    BY <1>2
  <2>2. ~Before(x, y) /\ ~Before(y, x)
    BY <2>1, <1>3, AheadGrows
  <2> QED
    BY <2>2 DEF Before, Sortable
<1>4. f \in Injection(S, 1..n)
  <2>1. f \in [S -> 1..n]
    BY <1>1, <1>2
  <2>2. \A x, y \in S : f[x] = f[y] => x = y
    <3> SUFFICES ASSUME NEW x \in S, NEW y \in S, f[x] = f[y] PROVE x = y
      OBVIOUS
    <3>1. Cardinality(Ahead(S, x)) \in Int /\ Cardinality(Ahead(S, y)) \in Int
      BY <1>2
    <3>2. Cardinality(Ahead(S, x)) = Cardinality(Ahead(S, y))
      BY <3>1
    <3> QED
      BY <3>2, <1>3
  <2> HIDE DEF f
  <2> QED
    BY <2>1, <2>2, Fun_IsInj
<1>5. IsFiniteSet(1..n) /\ Cardinality(1..n) = n
  <2> HIDE DEF n
  <2> QED
    BY <1>1, FS_Interval
<1>6. f \in Surjection(S, 1..n)
  <2> HIDE DEF f
  <2> QED
    BY <1>4, <1>5, FS_Injection
<1>7. ASSUME NEW p \in 1..n PROVE \E x \in S : Cardinality(Ahead(S, x)) = p - 1
  <2>1. PICK x \in S : f[x] = p
    <3> HIDE DEF f, n
    <3> QED
      BY <1>6 DEF Surjection
  <2>2. Cardinality(Ahead(S, x)) \in Int
    BY <1>2
  <2> QED
    BY <2>1, <2>2, <1>1
<1> QED
  BY <1>1, <1>2, <1>3, <1>7

(* InOrder lists each tuple once, in its order.                            *)
LEMMA InOrderLists ==
  ASSUME NEW S, Sortable(S)
  PROVE  /\ Cardinality(S) \in Nat
         /\ InOrder(S) \in [1..Cardinality(S) -> S]
         /\ \A p, q \in 1..Cardinality(S) :
              p < q => Before(InOrder(S)[p], InOrder(S)[q])
         /\ \A p, q \in 1..Cardinality(S) : InOrder(S)[p] = InOrder(S)[q] => p = q
         /\ \A x \in S : \E p \in 1..Cardinality(S) : InOrder(S)[p] = x
<1> DEFINE n == Cardinality(S)
           rank(x) == Cardinality(Ahead(S, x))
           list == InOrder(S)
<1>1. /\ n \in Nat
      /\ \A x \in S : rank(x) \in 0..(n - 1)
      /\ \A x, y \in S : rank(x) = rank(y) => x = y
      /\ \A p \in 1..n : \E x \in S : rank(x) = p - 1
  BY PlacesFilled
<1>2. list = [p \in 1..n |-> CHOOSE x \in S : rank(x) = p - 1]
  BY DEF InOrder, Ahead
<1> HIDE DEF n, list
<1>3. ASSUME NEW p \in 1..n PROVE list[p] \in S /\ rank(list[p]) = p - 1
  BY <1>1, <1>2
<1>4. list \in [1..n -> S]
  BY <1>2, <1>3
<1>5. ASSUME NEW p \in 1..n, NEW q \in 1..n, p < q
      PROVE  Before(list[p], list[q])
  <2>1. list[p] \in S /\ list[q] \in S /\ rank(list[p]) = p - 1 /\ rank(list[q]) = q - 1
    BY <1>3
  <2>2. p - 1 < q - 1 /\ p - 1 # q - 1 /\ ~ (q - 1 < p - 1)
    BY <1>1, <1>5
  <2>3. ~Before(list[q], list[p])
    <3> SUFFICES ASSUME Before(list[q], list[p]) PROVE FALSE
      OBVIOUS
    <3>1. rank(list[q]) < rank(list[p])
      BY <2>1, AheadGrows
    <3> QED
      BY <3>1, <2>1, <2>2
  <2>4. list[p] # list[q]
    BY <2>1, <2>2
  <2> HIDE DEF rank
  <2> QED
    BY <2>1, <2>3, <2>4 DEF Before, Sortable
<1>6. ASSUME NEW p \in 1..n, NEW q \in 1..n, list[p] = list[q] PROVE p = q
  <2>1. p - 1 = q - 1
    BY <1>3, <1>6
  <2> QED
    BY <2>1, <1>1
<1>7. ASSUME NEW x \in S PROVE \E p \in 1..n : list[p] = x
  <2>1. rank(x) \in 0..(n - 1)
    BY <1>1
  <2>2. rank(x) + 1 \in 1..n /\ (rank(x) + 1) - 1 = rank(x)
    BY <2>1, <1>1
  <2>3. list[rank(x) + 1] \in S /\ rank(list[rank(x) + 1]) = rank(x)
    BY <2>2, <1>3
  <2> QED
    BY <2>2, <2>3, <1>1
<1> QED
  BY <1>1, <1>4, <1>5, <1>6, <1>7 DEF n, list

-----------------------------------------------------------------------------
(* Orders of the keys.                                                     *)

LEMMA ConstantsTyped ==
  /\ N \in Nat \ {0}
  /\ KeyList \in [1..N -> Keys]
  /\ \A i, j \in 1..N : KeyList[i] = KeyList[j] => i = j
  /\ \A k \in Keys : \E i \in 1..N : KeyList[i] = k
  /\ MaxWindow \in Nat \ {0} /\ Unit \in Nat \ {0} /\ MaxModels \in Nat \ {0}
  /\ MaxAttempts \in Nat \ {0} /\ IsFiniteSet(Requests)
  /\ Estimate \in Nat /\ Costs \subseteq Nat
<1>1. KeyList \in Seq(Keys) /\ N > 0 /\ IsInjective(KeyList)
  BY KeySelectionConstants DEF Keys, N
<1>2. N \in Nat /\ KeyList \in [1..N -> Keys] /\ DOMAIN KeyList = 1..N
  BY <1>1, LenProperties DEF N
<1>3. MaxWindow \in Nat \ {0} /\ Unit \in Nat \ {0} /\ MaxModels \in Nat \ {0}
      /\ MaxAttempts \in Nat \ {0} /\ IsFiniteSet(Requests)
  BY KeySelectionConstants
<1>4. Estimate \in Nat /\ Costs \subseteq Nat
  BY KeySelectionConstants
<1>5. \A i, j \in 1..N : KeyList[i] = KeyList[j] => i = j
  BY <1>1, <1>2 DEF IsInjective
<1>6. \A k \in Keys : \E i \in 1..N : KeyList[i] = k
  BY <1>2 DEF Keys, ToSet
<1> QED
  BY <1>1, <1>2, <1>3, <1>4, <1>5, <1>6

(* Every key, none twice.                                                  *)
IsOrder(keys) ==
  /\ keys \in [1..N -> Keys]
  /\ \A i, j \in 1..N : keys[i] = keys[j] => i = j
  /\ \A k \in Keys : \E i \in 1..N : keys[i] = k

LEMMA KeyListIsOrder == IsOrder(KeyList)
BY ConstantsTyped DEF IsOrder

(* Numbers less than N apart have different remainders.                    *)
LEMMA ResiduesDiffer ==
  ASSUME NEW s \in Int, NEW t \in Int, s < t, t - s < N
  PROVE  s % N # t % N
<1>1. N \in Nat \ {0}
  BY ConstantsTyped
<1>2. /\ s = N * (s \div N) + (s % N)
      /\ t = N * (t \div N) + (t % N)
  BY <1>1
<1>3. SUFFICES ASSUME s % N = t % N PROVE FALSE
  OBVIOUS
<1> DEFINE z == (t \div N) - (s \div N)
<1>4. z \in Int /\ t - s = N * z
  BY <1>1, <1>2, <1>3
<1> HIDE DEF z
<1>5. CASE z <= 0
  BY <1>1, <1>4, <1>5
<1>6. CASE z >= 1
  BY <1>1, <1>4, <1>6
<1> QED
  BY <1>4, <1>5, <1>6

LEMMA RemainderTyped == \A n \in Int : n % N \in 0..(N - 1)
BY ConstantsTyped

(* The keys from any place on, and those before it behind them.            *)
LEMMA RotatedIsOrder ==
  ASSUME NEW c \in Nat
  PROVE  /\ IsOrder(Rotated(c))
         /\ Rotated(c)[1] = KeyList[(c % N) + 1]
<1> DEFINE f == [i \in 1..N |-> ((c + i - 1) % N) + 1]
<1>1. N \in Nat \ {0}
  BY ConstantsTyped
<1>2. \A i \in 1..N : c + i - 1 \in Int /\ (c + i - 1) % N \in 0..(N - 1)
  BY <1>1, RemainderTyped
<1>3. f \in [1..N -> 1..N]
  BY <1>1, <1>2
<1>4. \A i, j \in 1..N : f[i] = f[j] => i = j
  <2> SUFFICES ASSUME NEW i \in 1..N, NEW j \in 1..N, f[i] = f[j], i # j PROVE FALSE
    OBVIOUS
  <2>1. (c + i - 1) % N = (c + j - 1) % N
    BY <1>2
  <2>2. CASE i < j
    <3>1. c + i - 1 < c + j - 1 /\ (c + j - 1) - (c + i - 1) < N
      BY <1>1, <2>2
    <3> QED
      BY ONLY <1>2, <2>1, <3>1, ResiduesDiffer
  <2>3. CASE j < i
    <3>1. c + j - 1 < c + i - 1 /\ (c + i - 1) - (c + j - 1) < N
      BY <1>1, <2>3
    <3> QED
      BY ONLY <1>2, <2>1, <3>1, ResiduesDiffer
  <2> QED
    BY <2>2, <2>3
<1>5. \A j \in 1..N : \E i \in 1..N : f[i] = j
  <2> HIDE DEF f
  <2>1. f \in Injection(1..N, 1..N)
    BY <1>3, <1>4, Fun_IsInj
  <2>2. IsFiniteSet(1..N)
    BY <1>1, FS_Interval
  <2>3. f \in Surjection(1..N, 1..N)
    BY <2>1, <2>2, FS_Injection
  <2> QED
    BY <2>3 DEF Surjection
<1>6. \A i \in 1..N : Rotated(c)[i] = KeyList[f[i]]
  BY DEF Rotated
<1>7. Rotated(c) \in [1..N -> Keys]
  BY <1>3, ConstantsTyped DEF Rotated
<1>8. Rotated(c)[1] = KeyList[(c % N) + 1]
  BY <1>1 DEF Rotated
<1> HIDE DEF f
<1>9. \A i, j \in 1..N : Rotated(c)[i] = Rotated(c)[j] => i = j
  BY <1>3, <1>4, <1>6, ConstantsTyped
<1>10. ASSUME NEW k \in Keys PROVE \E i \in 1..N : Rotated(c)[i] = k
  <2>1. PICK j \in 1..N : KeyList[j] = k
    BY ConstantsTyped
  <2>2. PICK i \in 1..N : f[i] = j
    BY <1>5
  <2> QED
    BY <1>6, <2>1, <2>2
<1> QED
  BY <1>7, <1>8, <1>9, <1>10 DEF IsOrder

(* Sorting keeps all keys, none stands behind a dearer one, and the first  *)
(* stays in front if none is cheaper.                                      *)
LEMMA SortedIsOrder ==
  ASSUME NEW keys, IsOrder(keys), NEW cost \in [Keys -> Int]
  PROVE  /\ IsOrder(SortedBy(keys, cost))
         /\ \A p, q \in 1..N :
              p < q => cost[SortedBy(keys, cost)[p]] <= cost[SortedBy(keys, cost)[q]]
         /\ (\A k \in Keys : cost[keys[1]] <= cost[k]) =>
              SortedBy(keys, cost)[1] = keys[1]
<1> DEFINE S == {<<cost[keys[i]], i>> : i \in 1..N}
           f == [i \in 1..N |-> <<cost[keys[i]], i>>]
           ranked == InOrder(S)
           sorted == SortedBy(keys, cost)
<1>1. N \in Nat \ {0} /\ keys \in [1..N -> Keys]
  BY ConstantsTyped DEF IsOrder
<1>2. \A i \in 1..N : cost[keys[i]] \in Int
  BY <1>1
<1>3. IsFiniteSet(S) /\ Cardinality(S) = N
  <2>1. f \in [1..N -> S] /\ \A x \in S : \E i \in 1..N : f[i] = x
    OBVIOUS
  <2>2. \A i, j \in 1..N : f[i] = f[j] => i = j
    OBVIOUS
  <2>3. IsFiniteSet(1..N) /\ Cardinality(1..N) = N
    BY <1>1, FS_Interval
  <2> HIDE DEF f, S
  <2>4. f \in Surjection(1..N, S) /\ f \in Injection(1..N, S)
    BY <2>1, <2>2, Fun_IsInj, Fun_IsSurj
  <2>5. IsFiniteSet(S) /\ Cardinality(S) = Cardinality(1..N)
    BY <2>3, <2>4, FS_Surjection
  <2> QED
    BY <2>3, <2>5
<1>4. Sortable(S)
  BY <1>2, <1>3 DEF Sortable
<1>5. sorted = [p \in 1..N |-> keys[ranked[p][2]]]
  BY DEF SortedBy
<1>6. /\ ranked \in [1..N -> S]
      /\ \A p, q \in 1..N : p < q => Before(ranked[p], ranked[q])
      /\ \A p, q \in 1..N : ranked[p] = ranked[q] => p = q
      /\ \A x \in S : \E p \in 1..N : ranked[p] = x
  <2> HIDE DEF S
  <2> QED
    BY <1>3, <1>4, InOrderLists
<1>7. \A x \in S : x[2] \in 1..N /\ x = <<cost[keys[x[2]]], x[2]>>
  OBVIOUS
<1>8. \A p \in 1..N : /\ ranked[p] \in S /\ ranked[p][2] \in 1..N
                      /\ sorted[p] = keys[ranked[p][2]]
                      /\ ranked[p] = <<cost[sorted[p]], ranked[p][2]>>
  <2> HIDE DEF S, ranked, sorted
  <2> QED
    BY <1>5, <1>6, <1>7
<1>9. sorted \in [1..N -> Keys]
  <2> HIDE DEF S, ranked
  <2> QED
    BY <1>1, <1>5, <1>8
<1>10. \A p, q \in 1..N : sorted[p] = sorted[q] => p = q
  <2> SUFFICES ASSUME NEW p \in 1..N, NEW q \in 1..N, sorted[p] = sorted[q]
               PROVE  p = q
    OBVIOUS
  <2> HIDE DEF S, ranked, sorted
  <2>1. keys[ranked[p][2]] = keys[ranked[q][2]]
    BY <1>8
  <2>2. ranked[p][2] = ranked[q][2]
    BY <2>1, <1>8 DEF IsOrder
  <2>3. ranked[p] = ranked[q]
    BY <2>2, <1>8
  <2> QED
    BY <2>3, <1>6
<1>11. \A k \in Keys : \E p \in 1..N : sorted[p] = k
  <2> SUFFICES ASSUME NEW k \in Keys PROVE \E p \in 1..N : sorted[p] = k
    OBVIOUS
  <2>1. PICK i \in 1..N : keys[i] = k
    BY DEF IsOrder
  <2>2. <<cost[k], i>> \in S
    BY <2>1
  <2>3. PICK p \in 1..N : ranked[p] = <<cost[k], i>>
    <3> HIDE DEF S, ranked
    <3> QED
      BY <2>2, <1>6
  <2> HIDE DEF S, ranked, sorted
  <2>4. ranked[p][2] = i
    BY <2>3
  <2> QED
    BY <2>1, <2>4, <1>8
<1>12. \A p, q \in 1..N : p < q => cost[sorted[p]] <= cost[sorted[q]]
  <2> SUFFICES ASSUME NEW p \in 1..N, NEW q \in 1..N, p < q
               PROVE  cost[sorted[p]] <= cost[sorted[q]]
    OBVIOUS
  <2> HIDE DEF S, ranked, sorted
  <2>1. Before(ranked[p], ranked[q])
    BY <1>6
  <2>2. ranked[p][1] = cost[sorted[p]] /\ ranked[q][1] = cost[sorted[q]]
    BY <1>8
  <2>3. cost[sorted[p]] \in Int /\ cost[sorted[q]] \in Int
    BY <1>9
  <2> QED
    BY <2>1, <2>2, <2>3 DEF Before
<1>13. ASSUME \A k \in Keys : cost[keys[1]] <= cost[k] PROVE sorted[1] = keys[1]
  <2>1. 1 \in 1..N /\ keys[1] \in Keys /\ sorted[1] \in Keys
    <3> HIDE DEF sorted
    <3> QED
      BY <1>1, <1>9
  <2>2. <<cost[keys[1]], 1>> \in S
    BY <2>1
  <2>3. PICK p \in 1..N : ranked[p] = <<cost[keys[1]], 1>>
    <3> HIDE DEF S, ranked
    <3> QED
      BY <2>2, <1>6
  <2> HIDE DEF S, ranked, sorted
  <2>4. CASE p = 1
    BY <1>8, <2>1, <2>3, <2>4
  <2>5. CASE p # 1
    <3>1. Before(ranked[1], ranked[p])
      BY <1>6, <2>1, <2>5
    <3>2. ranked[1][1] = cost[sorted[1]] /\ ranked[1][2] \in 1..N
      BY <1>8, <2>1
    <3>3. cost[sorted[1]] \in Int /\ cost[keys[1]] \in Int /\ cost[keys[1]] <= cost[sorted[1]]
      BY <1>13, <2>1
    <3> QED
      BY <2>3, <3>1, <3>2, <3>3 DEF Before
  <2> QED
    BY <2>4, <2>5
<1> QED
  BY <1>9, <1>10, <1>11, <1>12, <1>13 DEF IsOrder

-----------------------------------------------------------------------------
(* What the keys are ordered by.                                           *)

LEMMA MaxOfTwo ==
  ASSUME NEW a \in Int, NEW b \in Int
  PROVE  Max({a, b}) = IF a >= b THEN a ELSE b
<1>1. CASE a >= b
  <2>1. \A x \in {a, b} : (\A y \in {a, b} : x >= y) => x = a
    BY <1>1
  <2>2. \E x \in {a, b} : \A y \in {a, b} : x >= y
    BY <1>1
  <2> QED
    BY <1>1, <2>1, <2>2 DEF Max
<1>2. CASE ~(a >= b)
  <2>1. \A x \in {a, b} : (\A y \in {a, b} : x >= y) => x = b
    BY <1>2
  <2>2. \E x \in {a, b} : \A y \in {a, b} : x >= y
    BY <1>2
  <2> QED
    BY <1>2, <2>1, <2>2 DEF Max
<1> QED
  BY <1>1, <1>2

(* A set with a least number, and one number more or none.                 *)
HasLeast(S) == S \subseteq Int /\ \E x \in S : \A y \in S : x <= y
Few(B) == B = {} \/ \E b \in Int : B = {b}

LEMMA LeastJoined ==
  ASSUME NEW S, HasLeast(S), NEW B, Few(B)
  PROVE  HasLeast(S \union B)
<1>1. CASE B = {}
  <2>1. S \union B = S
    BY <1>1
  <2> QED
    BY <2>1
<1>2. CASE \E b \in Int : B = {b}
  <2>1. PICK b \in Int : B = {b}
    BY <1>2
  <2>2. PICK x \in S : \A y \in S : x <= y
    BY DEF HasLeast
  <2>3. S \union B \subseteq Int /\ x \in Int
    BY <2>1 DEF HasLeast
  <2>4. CASE x <= b
    BY <2>1, <2>2, <2>3, <2>4 DEF HasLeast
  <2>5. CASE b <= x
    <3>1. \A y \in S \union B : b <= y
      BY <2>1, <2>2, <2>3, <2>5
    <3> QED
      BY <2>1, <2>3, <3>1 DEF HasLeast
  <2> QED
    BY <2>3, <2>4, <2>5
<1> QED
  BY <1>1, <1>2 DEF Few

LEMMA MinIsLeast ==
  ASSUME NEW S, HasLeast(S)
  PROVE  Min(S) \in S /\ Min(S) \in Int /\ \A y \in S : Min(S) <= y
<1>1. Min(S) \in S /\ \A y \in S : Min(S) <= y
  BY DEF Min, HasLeast
<1> QED
  BY <1>1 DEF HasLeast

LEMMA FractionTyped ==
  ASSUME NEW part \in Int, NEW whole \in Nat, whole > 0
  PROVE  Fraction(part, whole) \in Int
<1>1. part * Unit \in Int
  BY ConstantsTyped
<1> QED
  BY <1>1 DEF Fraction

(* What a key's headroom is the least of.                                  *)
Windows(k) == {Unit} \union RequestWindow(k) \union TokenWindow(k) \union Upstream(k)

LEMMA WindowsTyped ==
  ASSUME TypeOK, NEW k \in Keys
  PROVE  HasLeast(Windows(k))
<1>1. /\ charged[k] \in Nat /\ tokens[k] \in Nat /\ limit[k] \in Nat /\ budget[k] \in Nat
      /\ remaining[k] \in Int /\ top[k] \in Nat /\ Unit \in Int
  BY ConstantsTyped DEF TypeOK, Unknown
<1>2. Few(RequestWindow(k))
  <2>1. limit[k] > 0 => Fraction(limit[k] - charged[k], limit[k]) \in Int
    BY <1>1, FractionTyped
  <2> QED
    BY <2>1 DEF RequestWindow, Few
<1>3. Few(TokenWindow(k))
  <2>1. budget[k] > 0 => Fraction(budget[k] - tokens[k], budget[k]) \in Int
    BY <1>1, FractionTyped
  <2> QED
    BY <2>1 DEF TokenWindow, Few
<1>4. Few(Upstream(k))
  <2>1. top[k] > 0 => Fraction(remaining[k], top[k]) \in Int
    BY <1>1, FractionTyped
  <2> QED
    BY <2>1 DEF Upstream, Few
<1>5. HasLeast({Unit})
  BY <1>1 DEF HasLeast
<1>6. HasLeast({Unit} \union RequestWindow(k))
  BY <1>2, <1>5, LeastJoined
<1>7. HasLeast({Unit} \union RequestWindow(k) \union TokenWindow(k))
  BY <1>3, <1>6, LeastJoined
<1> QED
  BY <1>4, <1>7, LeastJoined DEF Windows

LEMMA HeadroomTyped ==
  ASSUME TypeOK, NEW k \in Keys
  PROVE  /\ Headroom(k) \in Int /\ Min(Windows(k)) \in Int
         /\ Headroom(k) = IF 0 >= Min(Windows(k)) THEN 0 ELSE Min(Windows(k))
<1> DEFINE least == Min(Windows(k))
<1>1. least \in Int
  BY WindowsTyped, MinIsLeast
<1>2. Headroom(k) = Max({0, least})
  BY DEF Headroom, Windows
<1> HIDE DEF least
<1>3. Max({0, least}) = IF 0 >= least THEN 0 ELSE least
  BY <1>1, MaxOfTwo
<1> QED
  BY <1>1, <1>2, <1>3 DEF least

(* Without windows and announcements, all that a key has is left.          *)
LEMMA HeadroomOfNone ==
  ASSUME TypeOK, NEW k \in Keys, limit[k] = 0, budget[k] = 0, remaining[k] = Unknown
  PROVE  Headroom(k) = Unit
<1>1. Windows(k) = {Unit} /\ Unit \in Nat
  BY ConstantsTyped DEF Windows, RequestWindow, TokenWindow, Upstream
<1>2. Min(Windows(k)) = Unit
  <2>1. Min(Windows(k)) \in Windows(k)
    BY WindowsTyped, MinIsLeast
  <2> QED
    BY <1>1, <2>1
<1> QED
  BY <1>1, <1>2, HeadroomTyped

(* The costs by which smart selection and least_used sort.                 *)
SmartCost == [k \in Keys |-> -Headroom(k)]

(* Every policy gives an order, and what it puts first.                    *)
LEMMA OrderKeysIsOrder ==
  ASSUME TypeOK, NEW c \in Nat
  PROVE  /\ IsOrder(OrderKeys(c))
         /\ policy = "round_robin" /\ N > 1 =>
              OrderKeys(c)[1] = KeyList[(c % N) + 1]
         /\ policy = "smart" /\ N > 1 => \A p, q \in 1..N :
              p < q => Headroom(OrderKeys(c)[p]) >= Headroom(OrderKeys(c)[q])
         /\ policy = "smart" /\ N > 1 /\ (\A k, l \in Keys : Headroom(k) = Headroom(l)) =>
              OrderKeys(c)[1] = KeyList[(c % N) + 1]
         /\ policy = "least_used" /\ N > 1 => \A p, q \in 1..N :
              p < q => used[OrderKeys(c)[p]] <= used[OrderKeys(c)[q]]
<1>1. N \in Nat \ {0} /\ policy \in {"smart", "priority", "least_used", "round_robin"}
  BY ConstantsTyped DEF TypeOK, Policies
<1>2. CASE N = 1 \/ policy = "priority"
  <2>1. OrderKeys(c) = KeyList
    BY <1>1, <1>2 DEF OrderKeys
  <2> QED
    BY <1>1, <1>2, <2>1, KeyListIsOrder
<1>3. CASE N > 1 /\ policy = "smart"
  <2>1. OrderKeys(c) = SortedBy(Rotated(c), SmartCost)
    BY <1>1, <1>3 DEF OrderKeys, SmartCost
  <2>2. SmartCost \in [Keys -> Int] /\ \A k \in Keys : Headroom(k) \in Int
    BY HeadroomTyped DEF SmartCost
  <2>3. /\ IsOrder(OrderKeys(c))
        /\ \A p, q \in 1..N : p < q =>
             SmartCost[OrderKeys(c)[p]] <= SmartCost[OrderKeys(c)[q]]
        /\ (\A k \in Keys : SmartCost[Rotated(c)[1]] <= SmartCost[k]) =>
             OrderKeys(c)[1] = Rotated(c)[1]
    BY <2>1, <2>2, RotatedIsOrder, SortedIsOrder
  <2>4. ASSUME NEW p \in 1..N, NEW q \in 1..N, p < q
        PROVE  Headroom(OrderKeys(c)[p]) >= Headroom(OrderKeys(c)[q])
    <3>1. OrderKeys(c)[p] \in Keys /\ OrderKeys(c)[q] \in Keys
      BY <2>3 DEF IsOrder
    <3>2. /\ SmartCost[OrderKeys(c)[p]] = -Headroom(OrderKeys(c)[p])
          /\ SmartCost[OrderKeys(c)[q]] = -Headroom(OrderKeys(c)[q])
      BY <3>1 DEF SmartCost
    <3>3. -Headroom(OrderKeys(c)[p]) <= -Headroom(OrderKeys(c)[q])
      BY <2>3, <2>4, <3>2
    <3>4. Headroom(OrderKeys(c)[p]) \in Int /\ Headroom(OrderKeys(c)[q]) \in Int
      BY <2>2, <3>1
    <3> QED
      BY <3>3, <3>4
  <2>5. ASSUME \A k, l \in Keys : Headroom(k) = Headroom(l)
        PROVE  OrderKeys(c)[1] = KeyList[(c % N) + 1]
    <3>1. Rotated(c)[1] \in Keys /\ Rotated(c)[1] = KeyList[(c % N) + 1]
      <4>1. 1 \in 1..N
        BY <1>1
      <4>2. Rotated(c) \in [1..N -> Keys] /\ Rotated(c)[1] = KeyList[(c % N) + 1]
        BY RotatedIsOrder DEF IsOrder
      <4> QED
        BY <4>1, <4>2
    <3>2. \A k \in Keys : SmartCost[Rotated(c)[1]] <= SmartCost[k]
      BY <2>2, <2>5, <3>1 DEF SmartCost
    <3> QED
      BY <2>3, <3>1, <3>2
  <2> QED
    BY <1>3, <2>3, <2>4, <2>5
<1>4. CASE N > 1 /\ policy = "least_used"
  <2>1. OrderKeys(c) = SortedBy(KeyList, used)
    BY <1>1, <1>4 DEF OrderKeys
  <2>2. used \in [Keys -> Int]
    BY DEF TypeOK
  <2>3. /\ IsOrder(OrderKeys(c))
        /\ \A p, q \in 1..N :
             p < q => used[OrderKeys(c)[p]] <= used[OrderKeys(c)[q]]
    BY <2>1, <2>2, KeyListIsOrder, SortedIsOrder
  <2> QED
    BY <1>4, <2>3
<1>5. CASE N > 1 /\ policy = "round_robin"
  <2>1. OrderKeys(c) = Rotated(c)
    BY <1>1, <1>5 DEF OrderKeys
  <2> QED
    BY <1>5, <2>1, RotatedIsOrder
<1> QED
  BY <1>1, <1>2, <1>3, <1>4, <1>5

-----------------------------------------------------------------------------
(* The list of a request.                                                  *)

(* A function on the first n places is a sequence of its values.           *)
LEMMA TableIsSeq ==
  ASSUME NEW n \in Nat, NEW S, NEW f \in [1..n -> S]
  PROVE  f \in Seq(S) /\ Len(f) = n
BY ONLY SeqDef

LEMMA LeastNat ==
  ASSUME NEW S \in SUBSET Nat, S # {}
  PROVE  \E m \in S : \A n \in S : m <= n
<1> DEFINE T == {0..n : n \in S}
<1> DEFINE R == StrictSubsetOrdering(Nat)
<1>1. IsWellFoundedOn(R, FiniteSubsetsOf(Nat))
  BY FS_StrictSubsetOrderingWellFounded
<1>2. \A n \in S : 0..n \in FiniteSubsetsOf(Nat)
  <2>1. \A n \in Nat : IsFiniteSet(0..n)
    BY FS_Interval
  <2>2. \A n \in Nat : 0..n \in SUBSET Nat
    OBVIOUS
  <2> QED
    BY <2>1, <2>2 DEF FiniteSubsetsOf
<1>3. T \subseteq FiniteSubsetsOf(Nat) /\ T # {}
  BY <1>2
<1>4. \E x \in T : \A y \in T : ~ (<<y, x>> \in R)
  <2> HIDE DEF T, R
  <2> QED
    BY <1>1, <1>3, WFMin
<1>5. PICK m \in S : \A n \in S : ~ (<<0..n, 0..m>> \in R)
  BY <1>4
<1>6. ASSUME NEW n \in S, n < m PROVE FALSE
  <2>1. /\ (0..n) \subseteq (0..m) /\ 0..n # 0..m
        /\ (0..n) \in SUBSET Nat /\ (0..m) \in SUBSET Nat
    BY <1>6
  <2> QED
    BY <2>1, <1>5 DEF StrictSubsetOrdering
<1> QED
  BY <1>5, <1>6

LEMMA CursorTyped ==
  ASSUME TypeOK, NEW n \in Nat
  PROVE  CursorAt(n) \in 0..(N - 1) /\ CursorAt(n) \in Nat
<1>1. cursor \in 0..(N - 1) /\ cursor + n \in Int /\ N \in Nat \ {0}
  BY ConstantsTyped DEF TypeOK
<1>2. (cursor + n) % N \in 0..(N - 1)
  BY <1>1, RemainderTyped
<1>3. CursorAt(n) \in 0..(N - 1)
  BY <1>1, <1>2 DEF CursorAt
<1> QED
  BY <1>1, <1>3

LEMMA OpenTyped ==
  ASSUME TypeOK
  PROVE  /\ Open \subseteq 1..models /\ Open \subseteq Nat /\ models \in Nat
         /\ IsFiniteSet(Open) /\ Cardinality(Open) \in Nat
         /\ \A m : Cardinality({o \in Open : o < m}) \in Nat
<1>1. models \in Nat /\ Open \subseteq 1..models
  BY DEF TypeOK, Open
<1>2. Open \subseteq Nat
  BY <1>1
<1>3. IsFiniteSet(1..models)
  BY <1>1, FS_Interval
<1>4. \A S \in SUBSET Open : IsFiniteSet(S) /\ Cardinality(S) \in Nat
  BY <1>1, <1>3, FS_Subset, FS_CardinalityType
<1>5. \A m : {o \in Open : o < m} \in SUBSET Open
  OBVIOUS
<1> QED
  BY <1>1, <1>2, <1>4, <1>5

LEMMA OrderForModel ==
  ASSUME TypeOK, NEW m
  PROVE  IsOrder(OrderFor(m))
<1>1. Cardinality({o \in Open : o < m}) \in Nat
  BY OpenTyped
<1>2. CursorAt(Cardinality({o \in Open : o < m})) \in Nat
  BY <1>1, CursorTyped
<1> QED
  BY <1>2, OrderKeysIsOrder DEF OrderFor

LEMMA CursorHere == TypeOK => CursorAt(0) = cursor
<1> SUFFICES ASSUME TypeOK PROVE CursorAt(0) = cursor
  OBVIOUS
<1>1. cursor \in 0..(N - 1) /\ N \in Nat \ {0}
  BY ConstantsTyped DEF TypeOK
<1>2. (cursor + 0) % N = cursor
  BY <1>1
<1> QED
  BY <1>2 DEF CursorAt

(* For the first model that is not passed over, the cursor is where the    *)
(* request found it.                                                       *)
LEMMA FirstModel ==
  ASSUME TypeOK, Open # {}
  PROVE  \E f \in Open : (\A o \in Open : f <= o) /\ OrderFor(f) = OrderKeys(cursor)
<1>1. PICK f \in Open : \A o \in Open : f <= o
  BY OpenTyped, LeastNat
<1>2. {o \in Open : o < f} = {}
  BY <1>1, OpenTyped
<1>3. Cardinality({o \in Open : o < f}) = 0
  BY <1>2, FS_EmptySet
<1> QED
  BY <1>1, <1>3, CursorHere DEF OrderFor

(* The offers that nothing rules out.                                      *)
OpenOffers == {offer \in Offers : Available(offer[3])}

LEMMA OffersSortable ==
  ASSUME TypeOK
  PROVE  /\ Sortable(OpenOffers)
         /\ \A x \in OpenOffers :
              /\ x[1] \in Open /\ x[2] \in 1..N /\ x[3] \in Keys
              /\ x = <<x[1], x[2], x[3]>> /\ x[3] = OrderFor(x[1])[x[2]]
              /\ Available(x[3])
         /\ \A m \in Open, i \in 1..N :
              Available(OrderFor(m)[i]) => <<m, i, OrderFor(m)[i]>> \in OpenOffers
<1> DEFINE P == Open \X (1..N)
           f == [x \in P |-> <<x[1], x[2], OrderFor(x[1])[x[2]]>>]
<1>1. Open \subseteq Nat /\ IsFiniteSet(Open) /\ N \in Nat
  BY ConstantsTyped, OpenTyped
<1>2. Offers = {<<m, i, OrderFor(m)[i]>> : m \in Open, i \in 1..N}
  BY DEF Offers
<1>3. \A m \in Open, i \in 1..N : OrderFor(m)[i] \in Keys
  BY OrderForModel DEF IsOrder
<1>4. IsFiniteSet(Offers)
  <2>1. IsFiniteSet(P)
    <3>1. IsFiniteSet(Open) /\ IsFiniteSet(1..N)
      BY <1>1, FS_Interval
    <3> QED
      BY <3>1, FS_Product
  <2>2. f \in [P -> Offers]
    BY <1>2
  <2>3. \A y \in Offers : \E x \in P : f[x] = y
    <3> SUFFICES ASSUME NEW y \in Offers PROVE \E x \in P : f[x] = y
      OBVIOUS
    <3>1. PICK m \in Open, i \in 1..N : y = <<m, i, OrderFor(m)[i]>>
      BY <1>2
    <3>2. <<m, i>> \in P /\ f[<<m, i>>] = y
      BY <3>1
    <3> QED
      BY <3>2
  <2> HIDE DEF P, f
  <2> QED
    <3>1. f \in Surjection(P, Offers)
      BY ONLY <2>2, <2>3, Fun_IsSurj
    <3> QED
      BY ONLY <2>1, <3>1, FS_Surjection
<1>5. IsFiniteSet(OpenOffers)
  <2>1. OpenOffers \in SUBSET Offers
    BY DEF OpenOffers
  <2> QED
    BY <2>1, <1>4, FS_Subset
<1>6. \A x \in OpenOffers :
        /\ x[1] \in Open /\ x[2] \in 1..N /\ x[3] \in Keys
        /\ x = <<x[1], x[2], x[3]>> /\ x[3] = OrderFor(x[1])[x[2]]
        /\ Available(x[3])
  <2> SUFFICES ASSUME NEW x \in OpenOffers
               PROVE  /\ x[1] \in Open /\ x[2] \in 1..N /\ x[3] \in Keys
                      /\ x = <<x[1], x[2], x[3]>> /\ x[3] = OrderFor(x[1])[x[2]]
                      /\ Available(x[3])
    OBVIOUS
  <2>1. x \in Offers /\ Available(x[3])
    BY DEF OpenOffers
  <2>2. PICK m \in Open, i \in 1..N : x = <<m, i, OrderFor(m)[i]>>
    BY <2>1, <1>2
  <2>3. x[1] = m /\ x[2] = i /\ x[3] = OrderFor(m)[i]
    BY <2>2
  <2> QED
    BY <2>1, <2>2, <2>3, <1>3
<1>7. Sortable(OpenOffers)
  <2>1. \A x \in OpenOffers : x[1] \in Int /\ x[2] \in Int
    BY <1>1, <1>6
  <2>2. ASSUME NEW x \in OpenOffers, NEW y \in OpenOffers, x[1] = y[1], x[2] = y[2]
        PROVE  x = y
    <3>1. x[3] = y[3]
      BY <1>6, <2>2
    <3> QED
      BY <1>6, <2>2, <3>1
  <2> QED
    BY <1>5, <2>1, <2>2 DEF Sortable
<1>8. ASSUME NEW m \in Open, NEW i \in 1..N, Available(OrderFor(m)[i])
      PROVE  <<m, i, OrderFor(m)[i]>> \in OpenOffers
  <2> DEFINE x == <<m, i, OrderFor(m)[i]>>
  <2>1. x \in Offers /\ x[3] = OrderFor(m)[i]
    BY <1>2
  <2> QED
    BY <2>1, <1>8 DEF OpenOffers
<1> QED
  BY <1>6, <1>7, <1>8

(* The list holds every key that is free for every model that is not       *)
(* passed over, none twice, and begins with the first free key of the      *)
(* order with which the request found the cursor.                          *)
LEMMA ResolutionLists ==
  ASSUME TypeOK
  PROVE  /\ Resolution \in Seq(Candidate)
         /\ \A i, j \in 1..Len(Resolution) : Resolution[i] = Resolution[j] => i = j
         /\ \A m \in Open, k \in Keys : Available(k) =>
              \E i \in 1..Len(Resolution) : Resolution[i] = <<m, k>>
         /\ Resolution # <<>> => \E i \in 1..N :
              /\ Resolution[1][2] = OrderKeys(cursor)[i]
              /\ Available(OrderKeys(cursor)[i])
              /\ \A j \in 1..N : j < i => ~Available(OrderKeys(cursor)[j])
<1> DEFINE S == OpenOffers
           n == Cardinality(S)
           listed == InOrder(S)
           res == Resolution
<1>1. /\ n \in Nat /\ listed \in [1..n -> S]
      /\ \A p, q \in 1..n : p < q => Before(listed[p], listed[q])
      /\ \A p, q \in 1..n : listed[p] = listed[q] => p = q
      /\ \A x \in S : \E p \in 1..n : listed[p] = x
  BY OffersSortable, InOrderLists
<1>2. res = [i \in 1..n |-> <<listed[i][1], listed[i][3]>>]
  BY <1>1 DEF Resolution, OpenOffers
<1>3. Open \subseteq 1..MaxModels /\ Open \subseteq Nat
  <2>1. models \in 1..MaxModels /\ MaxModels \in Nat
    BY ConstantsTyped DEF TypeOK
  <2> QED
    BY <2>1, OpenTyped
<1>4. \A p \in 1..n :
        /\ listed[p][1] \in Open /\ listed[p][2] \in 1..N /\ listed[p][3] \in Keys
        /\ listed[p] = <<listed[p][1], listed[p][2], listed[p][3]>>
        /\ listed[p][3] = OrderFor(listed[p][1])[listed[p][2]]
        /\ Available(listed[p][3])
  <2> SUFFICES ASSUME NEW p \in 1..n
               PROVE  /\ listed[p][1] \in Open /\ listed[p][2] \in 1..N
                      /\ listed[p][3] \in Keys
                      /\ listed[p] = <<listed[p][1], listed[p][2], listed[p][3]>>
                      /\ listed[p][3] = OrderFor(listed[p][1])[listed[p][2]]
                      /\ Available(listed[p][3])
    OBVIOUS
  <2> HIDE DEF listed, n
  <2>1. listed[p] \in S
    BY <1>1
  <2> QED
    BY ONLY <2>1, OffersSortable, TypeOK
<1> HIDE DEF listed, n, res, S
<1>5. \A p \in 1..n : res[p] = <<listed[p][1], listed[p][3]>> /\ res[p] \in Candidate
  BY <1>2, <1>3, <1>4, ConstantsTyped DEF Candidate
<1>6. res \in Seq(Candidate) /\ Len(res) = n
  <2>1. res \in [1..n -> Candidate]
    BY <1>2, <1>5
  <2> QED
    BY <2>1, <1>1, TableIsSeq
<1>7. ASSUME NEW i \in 1..n, NEW j \in 1..n, res[i] = res[j] PROVE i = j
  <2>1. listed[i][1] = listed[j][1] /\ listed[i][3] = listed[j][3]
    BY <1>5, <1>7
  <2>2. IsOrder(OrderFor(listed[i][1]))
    BY <1>4, OrderForModel
  <2>3. listed[i][2] = listed[j][2]
    BY <1>4, <2>1, <2>2 DEF IsOrder
  <2>4. listed[i] = listed[j]
    BY <1>4, <2>1, <2>3
  <2> QED
    BY <1>1, <2>4
<1>8. ASSUME NEW m \in Open, NEW i \in 1..N, Available(OrderFor(m)[i])
      PROVE  \E p \in 1..n : listed[p] = <<m, i, OrderFor(m)[i]>>
  <2>1. <<m, i, OrderFor(m)[i]>> \in S
    BY <1>8, OffersSortable DEF S
  <2> QED
    BY <1>1, <2>1
<1>9. ASSUME NEW m \in Open, NEW k \in Keys, Available(k)
      PROVE  \E p \in 1..n : res[p] = <<m, k>>
  <2>1. PICK i \in 1..N : OrderFor(m)[i] = k
    BY OrderForModel DEF IsOrder
  <2>2. PICK p \in 1..n : listed[p] = <<m, i, OrderFor(m)[i]>>
    BY <1>8, <1>9, <2>1
  <2>3. listed[p][1] = m /\ listed[p][3] = k
    BY <2>1, <2>2
  <2> QED
    BY <1>5, <2>3
<1>10. ASSUME res # <<>>
       PROVE  \E i \in 1..N : /\ res[1][2] = OrderKeys(cursor)[i]
                              /\ Available(OrderKeys(cursor)[i])
                              /\ \A j \in 1..N : j < i => ~Available(OrderKeys(cursor)[j])
  <2>1. 1 \in 1..n
    <3>1. n \in Nat \ {0}
      BY <1>6, <1>10, EmptySeq
    <3> QED
      BY <3>1
  <2> DEFINE first == listed[1]
  <2>2. /\ first[1] \in Open /\ first[2] \in 1..N /\ first[3] \in Keys
        /\ first[3] = OrderFor(first[1])[first[2]] /\ Available(first[3])
    BY <2>1, <1>4
  <2>3. PICK f \in Open : (\A o \in Open : f <= o) /\ OrderFor(f) = OrderKeys(cursor)
    BY <2>2, FirstModel
  <2>4. \A p \in 1..n : p # 1 => Before(first, listed[p])
    BY <2>1, <1>1
  <2>5. first[1] = f
    <3>1. PICK i \in 1..N : OrderFor(f)[i] = first[3]
      BY <2>2, OrderForModel DEF IsOrder
    <3>2. PICK p \in 1..n : listed[p] = <<f, i, OrderFor(f)[i]>>
      BY <1>8, <2>2, <2>3, <3>1
    <3>3. listed[p][1] = f
      BY <3>2
    <3>4. CASE p = 1
      BY <3>3, <3>4
    <3>5. CASE p # 1
      <4>1. Before(first, listed[p])
        BY <2>4, <3>5
      <4>2. f <= first[1] /\ f \in Nat /\ first[1] \in Nat
        BY <1>3, <2>2, <2>3
      <4> QED
        BY <4>1, <4>2, <3>3 DEF Before
    <3> QED
      BY <3>4, <3>5
  <2>6. res[1][2] = OrderFor(f)[first[2]] /\ Available(OrderFor(f)[first[2]])
    BY <2>1, <2>2, <2>5, <1>5
  <2>7. ASSUME NEW j \in 1..N, j < first[2], Available(OrderFor(f)[j]) PROVE FALSE
    <3>1. PICK p \in 1..n : listed[p] = <<f, j, OrderFor(f)[j]>>
      BY <1>8, <2>3, <2>7
    <3>2. listed[p][1] = f /\ listed[p][2] = j
      BY <3>1
    <3>3. p # 1
      BY <3>2, <2>2, <2>7
    <3>4. Before(first, listed[p])
      BY <2>4, <3>3
    <3>5. f \in Nat
      BY <1>3
    <3> QED
      BY <3>2, <3>4, <3>5, <2>2, <2>5, <2>7 DEF Before
  <2> HIDE DEF first
  <2> QED
    BY <2>2, <2>3, <2>6, <2>7
<1> QED
  BY <1>6, <1>7, <1>9, <1>10 DEF res

-----------------------------------------------------------------------------
(* What the steps do, key by key and request by request.                   *)

LEMMA ModelsTyped == TypeOK => 1..models \subseteq 1..MaxModels
<1> SUFFICES ASSUME TypeOK PROVE 1..models \subseteq 1..MaxModels
  OBVIOUS
<1>1. models \in 1..MaxModels
  BY DEF TypeOK
<1>2. MaxModels \in Nat
  BY ConstantsTyped
<1> QED
  BY <1>1, <1>2

LEMMA StateTyped ==
  ASSUME TypeOK, NEW r \in Requests
  PROVE  /\ request[r] \in RequestState
         /\ request[r].pc \in {"idle", "calling", "backoff"}
         /\ request[r].candidates \in Seq(Candidate)
         /\ request[r].attempt \in 0..MaxAttempts
         /\ request[r].pc # "idle" =>
              /\ request[r].candidates # <<>>
              /\ request[r].candidates[1][1] \in 1..MaxModels
              /\ request[r].candidates[1][2] \in Keys
<1>1. /\ request[r] \in RequestState
      /\ request[r].pc \in {"idle", "calling", "backoff"}
      /\ request[r].candidates \in Seq(Candidate)
      /\ request[r].attempt \in 0..MaxAttempts
      /\ request[r].pc = "idle" <=> request[r].candidates = <<>>
  BY DEF TypeOK, RequestState
<1>2. ASSUME request[r].pc # "idle"
      PROVE  /\ request[r].candidates[1][1] \in 1..MaxModels
             /\ request[r].candidates[1][2] \in Keys
  <2>1. request[r].candidates # <<>>
    BY <1>1, <1>2
  <2>2. Len(request[r].candidates) \in Nat \ {0}
    BY <1>1, <2>1, EmptySeq
  <2>3. request[r].candidates[1] \in Candidate
    BY <1>1, <2>2, ElementOfSeq
  <2> QED
    BY <2>3 DEF Candidate
<1> QED
  BY <1>1, <1>2

LEMMA TryMoves ==
  ASSUME TypeOK, NEW r \in Requests, NEW candidates \in Seq(Candidate),
         candidates # <<>>, NEW attempt \in 1..MaxAttempts,
         Try(r, candidates, attempt)
  PROVE  /\ candidates[1][2] \in Keys
         /\ charged' \in [Keys -> Nat]
         /\ charged'[candidates[1][2]] = charged[candidates[1][2]] + 1
         /\ \A k \in Keys : k # candidates[1][2] => charged'[k] = charged[k]
         /\ request' \in [Requests -> RequestState]
         /\ request'[r].pc = "calling" /\ request'[r].candidates = candidates
         /\ request'[r].attempt = attempt
         /\ \A s \in Requests : s # r => request'[s] = request[s]
<1> DEFINE task == [pc |-> "calling", candidates |-> candidates, attempt |-> attempt]
<1>1. candidates[1][2] \in Keys
  <2>1. Len(candidates) \in Nat \ {0}
    BY EmptySeq
  <2>2. candidates[1] \in Candidate
    BY <2>1, ElementOfSeq
  <2> QED
    BY <2>2 DEF Candidate
<1>2. charged \in [Keys -> Nat] /\ request \in [Requests -> RequestState]
  BY DEF TypeOK
<1>3. charged' = [charged EXCEPT ![candidates[1][2]] = @ + 1]
  BY DEF Try
<1>4. request' = [request EXCEPT ![r] = task]
  BY DEF Try
<1>5. task \in RequestState
  BY ConstantsTyped DEF RequestState
<1>6. task.pc = "calling" /\ task.candidates = candidates /\ task.attempt = attempt
  OBVIOUS
<1> HIDE DEF task
<1>7. /\ request' \in [Requests -> RequestState] /\ request'[r] = task
      /\ \A s \in Requests : s # r => request'[s] = request[s]
  BY <1>2, <1>4, <1>5
<1>8. /\ charged' \in [Keys -> Nat]
      /\ charged'[candidates[1][2]] = charged[candidates[1][2]] + 1
      /\ \A k \in Keys : k # candidates[1][2] => charged'[k] = charged[k]
  BY <1>1, <1>2, <1>3
<1> QED
  BY <1>1, <1>6, <1>7, <1>8

LEMMA OrderMoves ==
  ASSUME TypeOK, Order
  PROVE  /\ cursor' = CursorAt(Cardinality(Open)) /\ cursor' \in 0..(N - 1)
         /\ OrderKeys(cursor)[1] \in Keys
         /\ headed' \in [Keys -> Nat]
         /\ Open = {} => headed' = headed
         /\ Open # {} =>
              /\ headed'[OrderKeys(cursor)[1]] = headed[OrderKeys(cursor)[1]] + 1
              /\ \A k \in Keys : k # OrderKeys(cursor)[1] => headed'[k] = headed[k]
<1>1. cursor' = CursorAt(Cardinality(Open))
  BY DEF Order
<1>2. Cardinality(Open) \in Nat /\ cursor \in Nat
  <2>1. cursor \in 0..(N - 1) /\ N \in Nat
    BY ConstantsTyped DEF TypeOK
  <2> QED
    BY <2>1, OpenTyped
<1>3. cursor' \in 0..(N - 1)
  BY <1>1, <1>2, CursorTyped
<1>4. OrderKeys(cursor)[1] \in Keys
  <2>1. IsOrder(OrderKeys(cursor))
    BY <1>2, OrderKeysIsOrder
  <2> QED
    BY <2>1, ConstantsTyped DEF IsOrder
<1>5. headed \in [Keys -> Nat]
  BY DEF TypeOK
<1>6. headed' = IF Open = {} THEN headed
                ELSE [headed EXCEPT ![OrderKeys(cursor)[1]] = @ + 1]
  BY DEF Order
<1>7. CASE Open = {}
  BY <1>1, <1>3, <1>4, <1>5, <1>6, <1>7
<1>8. CASE Open # {}
  BY <1>1, <1>3, <1>4, <1>5, <1>6, <1>8
<1> QED
  BY <1>7, <1>8

LEMMA ComeBackMoves ==
  ASSUME TypeOK, NEW r \in Requests, ComeBack(r)
  PROVE  /\ request[r].pc = "calling"
         /\ request[r].candidates[1][2] \in Keys
         /\ used' \in [Keys -> Nat]
         /\ used'[request[r].candidates[1][2]] = used[request[r].candidates[1][2]] + 1
         /\ \A k \in Keys : k # request[r].candidates[1][2] => used'[k] = used[k]
         /\ remaining' \in [Keys -> Unknown..(MaxWindow - 1)]
         /\ top' \in [Keys -> 0..(MaxWindow - 1)]
         /\ \A k \in Keys : remaining'[k] <= top'[k]
         /\ ~headers => \A k \in Keys : remaining'[k] = remaining[k]
<1> DEFINE key == request[r].candidates[1][2]
<1>1. request[r].pc = "calling"
  BY DEF ComeBack
<1>2. key \in Keys
  BY <1>1, StateTyped
<1>3. used' = [used EXCEPT ![key] = @ + 1]
  BY DEF ComeBack
<1> DEFINE least == IF disturbed THEN 0 ELSE 1
<1>4. PICK left \in {remaining[key]} \union
                    IF headers THEN {Unknown} \union least..(MaxWindow - 1) ELSE {} :
        /\ remaining' = [remaining EXCEPT ![key] = left]
        /\ top' = [top EXCEPT ![key] = Max({@, left})]
  BY DEF ComeBack
<1>5. /\ used \in [Keys -> Nat] /\ remaining \in [Keys -> Unknown..(MaxWindow - 1)]
      /\ top \in [Keys -> 0..(MaxWindow - 1)] /\ \A k \in Keys : remaining[k] <= top[k]
      /\ MaxWindow \in Nat \ {0} /\ Unknown = -1 /\ least \in {0, 1}
  BY ConstantsTyped DEF TypeOK, Unknown
<1> HIDE DEF key, least
<1>6. left \in Unknown..(MaxWindow - 1) /\ (~headers => left = remaining[key])
  <2>1. CASE headers
    BY <1>2, <1>4, <1>5, <2>1
  <2>2. CASE ~headers
    BY <1>2, <1>4, <1>5, <2>2
  <2> QED
    BY <2>1, <2>2
<1>7. Max({top[key], left}) \in 0..(MaxWindow - 1) /\ left <= Max({top[key], left})
  <2>1. top[key] \in 0..(MaxWindow - 1) /\ top[key] \in Int /\ left \in Int
    BY <1>2, <1>5, <1>6
  <2>2. Max({top[key], left}) = IF top[key] >= left THEN top[key] ELSE left
    BY <2>1, MaxOfTwo
  <2> QED
    BY <1>5, <1>6, <2>1, <2>2
<1>8. /\ used' \in [Keys -> Nat] /\ used'[key] = used[key] + 1
      /\ \A k \in Keys : k # key => used'[k] = used[k]
  BY <1>2, <1>3, <1>5
<1>9. /\ remaining' \in [Keys -> Unknown..(MaxWindow - 1)] /\ remaining'[key] = left
      /\ \A k \in Keys : k # key => remaining'[k] = remaining[k]
  BY <1>2, <1>4, <1>5, <1>6
<1>10. /\ top' \in [Keys -> 0..(MaxWindow - 1)] /\ top'[key] = Max({top[key], left})
       /\ \A k \in Keys : k # key => top'[k] = top[k]
  BY <1>2, <1>4, <1>5, <1>7
<1>11. \A k \in Keys : remaining'[k] <= top'[k]
  BY <1>5, <1>7, <1>9, <1>10
<1>12. ~headers => \A k \in Keys : remaining'[k] = remaining[k]
  BY <1>6, <1>9
<1> QED
  BY <1>1, <1>2, <1>8, <1>9, <1>10, <1>11, <1>12 DEF key

LEMMA FromTyped ==
  ASSUME NEW candidates \in Seq(Candidate), NEW i \in 1..(Len(candidates) + 1)
  PROVE  From(candidates, i) \in Seq(Candidate)
<1>1. Len(candidates) \in Nat /\ i \in Int
  BY LenProperties
<1>2. \A j \in i..Len(candidates) : candidates[j] \in Candidate
  BY <1>1, ElementOfSeq
<1>3. SubSeq(candidates, i, Len(candidates)) \in Seq(Candidate)
  BY <1>1, <1>2, SubSeqProperties
<1> QED
  BY <1>3 DEF From

LEMMA LeftOverTyped ==
  ASSUME NEW candidates \in Seq(Candidate), candidates # <<>>,
         NEW left \in LeftOver(candidates)
  PROVE  left \in Seq(Candidate)
<1>1. Len(candidates) \in Nat \ {0}
  BY EmptySeq
<1>2. PICK i \in 2..(Len(candidates) + 1) : left = From(candidates, i)
  BY <1>1 DEF LeftOver
<1> QED
  BY <1>1, <1>2, FromTyped

LEMMA AnswerMoves ==
  ASSUME TypeOK, NEW r \in Requests, Answer(r)
  PROVE  /\ request' \in [Requests -> RequestState] /\ request'[r] = Idle
         /\ \A s \in Requests : s # r => request'[s] = request[s]
         /\ tokens' \in [Keys -> Nat] /\ \A k \in Keys : tokens[k] <= tokens'[k]
         /\ blocked' \subseteq Keys /\ skipped' \subseteq skipped
         /\ ~disturbed => blocked' \subseteq blocked
<1>1. Idle \in RequestState
  BY ConstantsTyped, EmptySeq DEF Idle, RequestState
<1>2. request \in [Requests -> RequestState] /\ request' = [request EXCEPT ![r] = Idle]
  BY DEF TypeOK, Answer
<1>3. request[r].candidates[1][2] \in Keys
  BY StateTyped DEF Answer, ComeBack
<1> DEFINE key == request[r].candidates[1][2]
<1>4. PICK cost \in IF budget[key] > 0 THEN Costs ELSE {0} :
        tokens' = [tokens EXCEPT ![key] = @ + cost]
  BY DEF Answer
<1>5. /\ blocked' \in {blocked, blocked \ {key}} \union
                      IF disturbed /\ headers THEN {blocked \union {key}} ELSE {}
      /\ skipped' \subseteq skipped
  BY DEF Answer
<1>6. key \in Keys
  BY <1>3
<1> HIDE DEF key
<1>7. cost \in Nat /\ tokens \in [Keys -> Nat] /\ blocked \subseteq Keys
  <2>1. Costs \subseteq Nat
    BY ConstantsTyped
  <2>2. cost \in Nat
    BY <1>4, <2>1
  <2> QED
    BY <2>2 DEF TypeOK
<1>8. tokens' \in [Keys -> Nat] /\ \A k \in Keys : tokens[k] <= tokens'[k]
  <2>1. /\ tokens'[key] = tokens[key] + cost
        /\ \A k \in Keys : k # key => tokens'[k] = tokens[k]
    BY <1>4, <1>6, <1>7
  <2>2. tokens' \in [Keys -> Nat]
    BY <1>4, <1>6, <1>7
  <2> QED
    BY <1>6, <1>7, <2>1, <2>2
<1>9. blocked' \subseteq Keys /\ (~disturbed => blocked' \subseteq blocked)
  BY <1>5, <1>6, <1>7
<1> QED
  BY <1>1, <1>2, <1>5, <1>8, <1>9

LEMMA FailMoves ==
  ASSUME TypeOK, NEW r \in Requests, Fail(r)
  PROVE  /\ disturbed
         /\ request' \in [Requests -> RequestState]
         /\ \/ request'[r] = Idle
            \/ /\ request'[r].pc = "backoff" /\ request'[r].candidates # <<>>
               /\ request'[r].attempt = request[r].attempt
               /\ request[r].attempt < MaxAttempts
         /\ \A s \in Requests : s # r => request'[s] = request[s]
         /\ blocked' \subseteq Keys /\ skipped' \subseteq 1..MaxModels
<1>1. request[r].pc = "calling" /\ request \in [Requests -> RequestState]
  BY DEF Fail, ComeBack, TypeOK
<1>2. /\ disturbed /\ blocked' \in {blocked, blocked \union {request[r].candidates[1][2]}}
      /\ skipped' \in {skipped, skipped \union {request[r].candidates[1][1]}, 1..models}
  BY DEF Fail
<1>3. blocked' \subseteq Keys /\ skipped' \subseteq 1..MaxModels
  <2>1. /\ request[r].candidates[1][1] \in 1..MaxModels
        /\ request[r].candidates[1][2] \in Keys
    BY <1>1, StateTyped
  <2>2. blocked \subseteq Keys /\ skipped \subseteq 1..MaxModels
    BY DEF TypeOK
  <2>3. 1..models \subseteq 1..MaxModels
    BY ModelsTyped
  <2> QED
    BY <1>2, <2>1, <2>2, <2>3
<1>4. Idle \in RequestState
  BY ConstantsTyped, EmptySeq DEF Idle, RequestState
<1>5. CASE request' = [request EXCEPT ![r] = Idle]
  BY <1>1, <1>2, <1>3, <1>4, <1>5
<1>6. CASE /\ request[r].attempt < MaxAttempts
           /\ \E left \in LeftOver(request[r].candidates) \ {<<>>} :
                request' = [request EXCEPT ![r] =
                  [@ EXCEPT !.pc = "backoff", !.candidates = left]]
  <2>1. PICK left \in LeftOver(request[r].candidates) \ {<<>>} :
          request' = [request EXCEPT ![r] =
            [@ EXCEPT !.pc = "backoff", !.candidates = left]]
    BY <1>6
  <2> DEFINE task == [request[r] EXCEPT !.pc = "backoff", !.candidates = left]
  <2>2. left \in Seq(Candidate)
    BY <1>1, StateTyped, LeftOverTyped
  <2>3. request' = [request EXCEPT ![r] = task]
    BY <2>1
  <2>4. /\ task \in RequestState /\ task.pc = "backoff" /\ task.candidates = left
        /\ task.attempt = request[r].attempt
    BY <2>2, StateTyped DEF RequestState
  <2> HIDE DEF task
  <2>5. request' \in [Requests -> RequestState] /\ request'[r] = task
        /\ \A s \in Requests : s # r => request'[s] = request[s]
    BY <1>1, <2>3, <2>4
  <2> QED
    BY <1>2, <1>3, <1>6, <2>1, <2>4, <2>5
<1> QED
  BY <1>5, <1>6 DEF Fail

-----------------------------------------------------------------------------
(* Types, and that a request has an attempt left when it waits for one.    *)
TypeInv ==
  /\ TypeOK
  /\ \A r \in Requests :
       /\ request[r].pc = "calling" => request[r].attempt >= 1
       /\ request[r].pc = "backoff" =>
            request[r].attempt >= 1 /\ request[r].attempt < MaxAttempts

LEMMA TypeInvInit == Init => TypeInv
<1> SUFFICES ASSUME Init PROVE TypeInv
  OBVIOUS
<1>1. Idle \in RequestState /\ Idle.pc = "idle" /\ Idle.candidates = <<>>
  BY ConstantsTyped, EmptySeq DEF Idle, RequestState
<1>2. /\ request \in [Requests -> RequestState]
      /\ \A r \in Requests : request[r].pc = "idle" /\ request[r].candidates = <<>>
  BY <1>1 DEF Init
<1>3. /\ charged \in [Keys -> Nat] /\ tokens \in [Keys -> Nat] /\ used \in [Keys -> Nat] /\ headed \in [Keys -> Nat]
      /\ remaining \in [Keys -> Unknown..(MaxWindow - 1)]
      /\ top \in [Keys -> 0..(MaxWindow - 1)]
      /\ \A k \in Keys : remaining[k] <= top[k]
      /\ cursor \in 0..(N - 1) /\ blocked \subseteq Keys
      /\ skipped \subseteq 1..MaxModels
  BY ConstantsTyped DEF Init, Unknown
<1>4. /\ policy \in Policies /\ models \in 1..MaxModels
      /\ headers \in BOOLEAN /\ disturbed \in BOOLEAN /\ arrivals \in Nat
      /\ limit \in [Keys -> 0..MaxWindow] /\ budget \in [Keys -> 0..MaxWindow]
  <2>1. PICK s \in Settings :
          /\ policy = s.policy /\ models = s.models /\ headers = s.headers
          /\ disturbed = s.disturbed /\ limit = s.limit /\ budget = s.budget
          /\ arrivals = s.arrivals
    BY DEF Init
  <2>2. s \in Setting
    BY KeySelectionConstants
  <2> QED
    BY <2>1, <2>2 DEF Setting
<1> QED
  BY <1>2, <1>3, <1>4 DEF TypeInv, TypeOK

(* A request that starts a call, or one that is refused.                   *)
LEMMA ArriveMoves ==
  ASSUME TypeOK, NEW r \in Requests, Arrive(r)
  PROVE  /\ Resolution # <<>> /\ Resolution \in Seq(Candidate)
         /\ 1 \in 1..MaxAttempts /\ Try(r, Resolution, 1) /\ Order
         /\ UNCHANGED <<setting, tokens, used, remaining, top, blocked, skipped>>
BY ResolutionLists, ConstantsTyped DEF Arrive

LEMMA FailoverMoves ==
  ASSUME TypeInv, NEW r \in Requests, Failover(r)
  PROVE  /\ request[r].pc = "backoff"
         /\ request[r].candidates # <<>> /\ request[r].candidates \in Seq(Candidate)
         /\ request[r].attempt + 1 \in 2..MaxAttempts
         /\ request[r].attempt + 1 \in 1..MaxAttempts
         /\ Try(r, request[r].candidates, request[r].attempt + 1)
         /\ UNCHANGED <<setting, cursor, tokens, used, remaining, top, blocked, skipped, headed>>
<1>1. TypeOK /\ request[r].pc = "backoff"
  BY DEF Failover, TypeInv
<1>2. /\ request[r].candidates # <<>> /\ request[r].candidates \in Seq(Candidate)
      /\ request[r].attempt \in 0..MaxAttempts
  BY <1>1, StateTyped
<1>3. request[r].attempt >= 1 /\ request[r].attempt < MaxAttempts
  BY <1>1 DEF TypeInv
<1>4. request[r].attempt + 1 \in 2..MaxAttempts /\ request[r].attempt + 1 \in 1..MaxAttempts
  BY <1>2, <1>3, ConstantsTyped
<1> QED
  BY <1>1, <1>2, <1>4 DEF Failover

LEMMA DisturbMoves ==
  ASSUME TypeOK, Disturb
  PROVE  disturbed /\ blocked' \subseteq Keys /\ skipped' \subseteq 1..MaxModels
<1>1. blocked \subseteq Keys /\ skipped \subseteq 1..MaxModels
  BY DEF TypeOK
<1>2. 1..models \subseteq 1..MaxModels
  BY ModelsTyped
<1> QED
  BY <1>1, <1>2 DEF Disturb

LEMMA TypeInvNext == TypeInv /\ [Next]_vars => TypeInv'
<1> SUFFICES ASSUME TypeInv, [Next]_vars PROVE TypeInv'
  OBVIOUS
<1>1. /\ TypeOK
      /\ policy \in Policies /\ models \in 1..MaxModels
      /\ headers \in BOOLEAN /\ disturbed \in BOOLEAN /\ arrivals \in Nat
      /\ limit \in [Keys -> 0..MaxWindow] /\ budget \in [Keys -> 0..MaxWindow]
      /\ cursor \in 0..(N - 1)
      /\ charged \in [Keys -> Nat] /\ tokens \in [Keys -> Nat] /\ used \in [Keys -> Nat] /\ headed \in [Keys -> Nat]
      /\ remaining \in [Keys -> Unknown..(MaxWindow - 1)]
      /\ top \in [Keys -> 0..(MaxWindow - 1)]
      /\ \A k \in Keys : remaining[k] <= top[k]
      /\ blocked \subseteq Keys /\ skipped \subseteq 1..MaxModels
      /\ request \in [Requests -> RequestState]
  BY DEF TypeInv, TypeOK
<1>2. \A r \in Requests :
        /\ request[r].pc = "idle" <=> request[r].candidates = <<>>
        /\ request[r].pc = "calling" => request[r].attempt >= 1
        /\ request[r].pc = "backoff" =>
             request[r].attempt >= 1 /\ request[r].attempt < MaxAttempts
  BY DEF TypeInv, TypeOK
<1>3. ASSUME NEW r \in Requests, Arrive(r) PROVE TypeInv'
  <2>1. /\ Resolution # <<>> /\ Resolution \in Seq(Candidate)
        /\ 1 \in 1..MaxAttempts /\ Try(r, Resolution, 1) /\ Order
        /\ UNCHANGED <<setting, tokens, used, remaining, top, blocked, skipped>>
    BY <1>1, <1>3, ArriveMoves
  <2>2. /\ cursor' \in 0..(N - 1) /\ headed' \in [Keys -> Nat]
    BY <1>1, <2>1, OrderMoves
  <2>3. /\ charged' \in [Keys -> Nat] /\ request' \in [Requests -> RequestState]
        /\ request'[r].pc = "calling" /\ request'[r].candidates = Resolution
        /\ request'[r].attempt = 1
        /\ \A s \in Requests : s # r => request'[s] = request[s]
    BY <1>1, <2>1, TryMoves
  <2>4. request'[r].candidates # <<>>
    BY <2>1, <2>3
  <2>5. \A s \in Requests :
          /\ request'[s].pc = "idle" <=> request'[s].candidates = <<>>
          /\ request'[s].pc = "calling" => request'[s].attempt >= 1
          /\ request'[s].pc = "backoff" =>
               request'[s].attempt >= 1 /\ request'[s].attempt < MaxAttempts
    BY <1>2, <2>3, <2>4
  <2> QED
    BY <1>1, <2>1, <2>2, <2>3, <2>5 DEF TypeInv, TypeOK, setting
<1>4. ASSUME NEW r \in Requests, Refuse(r) PROVE TypeInv'
  <2>1. Order /\ UNCHANGED <<setting, charged, tokens, used, remaining, top, blocked, skipped, request>>
    BY <1>4 DEF Refuse
  <2>2. /\ cursor' \in 0..(N - 1) /\ headed' \in [Keys -> Nat]
    BY <1>1, <2>1, OrderMoves
  <2> QED
    BY <1>1, <1>2, <2>1, <2>2 DEF TypeInv, TypeOK, setting
<1>5. ASSUME NEW r \in Requests, Answer(r) PROVE TypeInv'
  <2>1. ComeBack(r) /\ UNCHANGED <<setting, cursor, charged, headed>>
    BY <1>5 DEF Answer
  <2>2. /\ used' \in [Keys -> Nat] /\ remaining' \in [Keys -> Unknown..(MaxWindow - 1)]
        /\ top' \in [Keys -> 0..(MaxWindow - 1)] /\ \A k \in Keys : remaining'[k] <= top'[k]
    BY <1>1, <2>1, ComeBackMoves
  <2>3. /\ request' \in [Requests -> RequestState] /\ request'[r] = Idle
        /\ \A s \in Requests : s # r => request'[s] = request[s]
        /\ tokens' \in [Keys -> Nat] /\ blocked' \subseteq Keys
        /\ skipped' \subseteq 1..MaxModels
    BY <1>1, <1>5, AnswerMoves
  <2>4. Idle.pc = "idle" /\ Idle.candidates = <<>>
    BY DEF Idle
  <2> QED
    BY <1>1, <1>2, <2>1, <2>2, <2>3, <2>4 DEF TypeInv, TypeOK, setting
<1>6. ASSUME NEW r \in Requests, Fail(r) PROVE TypeInv'
  <2>1. ComeBack(r) /\ UNCHANGED <<setting, cursor, charged, tokens, headed>>
    BY <1>6 DEF Fail
  <2>2. /\ used' \in [Keys -> Nat] /\ remaining' \in [Keys -> Unknown..(MaxWindow - 1)]
        /\ top' \in [Keys -> 0..(MaxWindow - 1)] /\ \A k \in Keys : remaining'[k] <= top'[k]
        /\ request[r].pc = "calling"
    BY <1>1, <2>1, ComeBackMoves
  <2>3. /\ request' \in [Requests -> RequestState] /\ blocked' \subseteq Keys
        /\ skipped' \subseteq 1..MaxModels
        /\ \/ request'[r] = Idle
           \/ /\ request'[r].pc = "backoff" /\ request'[r].candidates # <<>>
              /\ request'[r].attempt = request[r].attempt
              /\ request[r].attempt < MaxAttempts
        /\ \A s \in Requests : s # r => request'[s] = request[s]
    BY <1>1, <1>6, FailMoves
  <2>4. Idle.pc = "idle" /\ Idle.candidates = <<>>
    BY DEF Idle
  <2> QED
    BY <1>1, <1>2, <2>1, <2>2, <2>3, <2>4 DEF TypeInv, TypeOK, setting
<1>7. ASSUME NEW r \in Requests, Failover(r) PROVE TypeInv'
  <2>1. /\ request[r].candidates # <<>> /\ request[r].candidates \in Seq(Candidate)
        /\ request[r].attempt + 1 \in 1..MaxAttempts
        /\ Try(r, request[r].candidates, request[r].attempt + 1)
        /\ UNCHANGED <<setting, cursor, tokens, used, remaining, top, blocked, skipped, headed>>
    BY <1>7, FailoverMoves
  <2> DEFINE list == request[r].candidates
             next == request[r].attempt + 1
  <2>2. next >= 1
    BY <2>1
  <2> HIDE DEF list, next
  <2>3. /\ charged' \in [Keys -> Nat] /\ request' \in [Requests -> RequestState]
        /\ request'[r].pc = "calling" /\ request'[r].candidates = list
        /\ request'[r].attempt = next
        /\ \A s \in Requests : s # r => request'[s] = request[s]
    BY <1>1, <2>1, TryMoves DEF list, next
  <2>4. list # <<>>
    BY <2>1 DEF list
  <2> QED
    BY <1>1, <1>2, <2>1, <2>2, <2>3, <2>4 DEF TypeInv, TypeOK, setting
<1>8. ASSUME NEW k \in Keys, Reset(k) PROVE TypeInv'
  <2>1. /\ remaining' = [remaining EXCEPT ![k] = Unknown]
        /\ UNCHANGED <<setting, cursor, charged, tokens, used, top, blocked, skipped, headed,
                       request>>
    BY <1>8 DEF Reset
  <2>2. /\ remaining' \in [Keys -> Unknown..(MaxWindow - 1)]
        /\ \A l \in Keys : remaining'[l] <= top[l]
    <3>1. Unknown \in Unknown..(MaxWindow - 1) /\ \A l \in Keys : Unknown <= top[l]
      <4>1. MaxWindow \in Nat \ {0} /\ \A l \in Keys : top[l] \in 0..(MaxWindow - 1)
        BY <1>1, ConstantsTyped
      <4> QED
        BY <4>1 DEF Unknown
    <3>2. /\ remaining'[k] = Unknown
          /\ \A l \in Keys : l # k => remaining'[l] = remaining[l]
      BY <1>1, <2>1
    <3>3. remaining' \in [Keys -> Unknown..(MaxWindow - 1)]
      BY <1>1, <2>1, <3>1
    <3> QED
      BY <1>1, <3>1, <3>2, <3>3
  <2> QED
    BY <1>1, <1>2, <2>1, <2>2 DEF TypeInv, TypeOK, setting
<1>9. ASSUME Disturb PROVE TypeInv'
  <2>1. UNCHANGED <<setting, cursor, charged, tokens, used, remaining, top, headed, request>>
    BY <1>9 DEF Disturb
  <2>2. blocked' \subseteq Keys /\ skipped' \subseteq 1..MaxModels
    BY <1>1, <1>9, DisturbMoves
  <2> QED
    BY <1>1, <1>2, <2>1, <2>2 DEF TypeInv, TypeOK, setting
<1>10. CASE UNCHANGED vars
  BY <1>1, <1>2, <1>10 DEF vars, TypeInv, TypeOK, setting
<1> QED
  BY <1>3, <1>4, <1>5, <1>6, <1>7, <1>8, <1>9, <1>10 DEF Next

(* The cursor, the windows, usage, budgets and lists keep their types for  *)
(* any keys, requests and models, and no attempt is one too many.          *)
THEOREM TypeCorrect == Spec => []TypeOK
<1>1. Spec => []TypeInv
  BY TypeInvInit, TypeInvNext, PTL DEF Spec
<1>2. TypeInv => TypeOK
  BY DEF TypeInv
<1> QED
  BY <1>1, <1>2, PTL

-----------------------------------------------------------------------------
(* Every key is offered.                                                   *)
OfferedAll(r) ==
  request[r].pc = "calling" /\ request[r].attempt = 1 =>
    /\ IsInjective(request[r].candidates)
    /\ ~disturbed => \A m \in 1..models, k \in Keys :
         Room(k) => <<m, k>> \in ToSet(request[r].candidates)

(* Nothing is ruled out while nothing fails.                               *)
Undisturbed ==
  ~disturbed =>
    blocked = {} /\ skipped = {} /\ \A r \in Requests : request[r].pc # "backoff"

OfferInv == Undisturbed /\ \A r \in Requests : OfferedAll(r)

LEMMA UndisturbedNext == TypeInv /\ Undisturbed /\ [Next]_vars => Undisturbed'
<1> SUFFICES ASSUME TypeInv, Undisturbed, [Next]_vars, ~disturbed'
             PROVE  /\ blocked' = {} /\ skipped' = {}
                    /\ \A r \in Requests : request'[r].pc # "backoff"
  BY DEF Undisturbed
<1>0. TypeOK
  BY DEF TypeInv
<1>1. disturbed' = disturbed
  BY DEF Next, vars, setting, Arrive, Refuse, Answer, Fail, Failover, Reset, Disturb
<1>2. ~disturbed /\ blocked = {} /\ skipped = {} /\ \A r \in Requests : request[r].pc # "backoff"
  BY <1>1 DEF Undisturbed
<1>3. ASSUME NEW r \in Requests, Arrive(r)
      PROVE  /\ blocked' = {} /\ skipped' = {}
             /\ \A s \in Requests : request'[s].pc # "backoff"
  <2>1. /\ Resolution # <<>> /\ Resolution \in Seq(Candidate)
        /\ UNCHANGED <<blocked, skipped>>
        /\ 1 \in 1..MaxAttempts /\ Try(r, Resolution, 1)
    BY <1>0, <1>3, ArriveMoves
  <2>2. /\ request'[r].pc = "calling"
        /\ \A s \in Requests : s # r => request'[s] = request[s]
    BY <1>0, <2>1, TryMoves
  <2> QED
    BY <1>2, <2>1, <2>2
<1>4. ASSUME NEW r \in Requests, Answer(r)
      PROVE  /\ blocked' = {} /\ skipped' = {}
             /\ \A s \in Requests : request'[s].pc # "backoff"
  <2>1. /\ request'[r] = Idle
        /\ \A s \in Requests : s # r => request'[s] = request[s]
        /\ skipped' \subseteq skipped /\ (~disturbed => blocked' \subseteq blocked)
    BY <1>0, <1>4, AnswerMoves
  <2>2. blocked' = {} /\ skipped' = {}
    BY <1>2, <2>1
  <2>3. Idle.pc = "idle"
    BY DEF Idle
  <2> QED
    BY <1>2, <2>1, <2>2, <2>3
<1>5. ASSUME NEW r \in Requests, Refuse(r)
      PROVE  /\ blocked' = {} /\ skipped' = {}
             /\ \A s \in Requests : request'[s].pc # "backoff"
  BY <1>2, <1>5 DEF Refuse
<1>6. ASSUME NEW r \in Requests, Fail(r) PROVE FALSE
  BY <1>2, <1>6 DEF Fail
<1>7. ASSUME NEW r \in Requests, Failover(r) PROVE FALSE
  BY <1>2, <1>7 DEF Failover
<1>8. ASSUME NEW k \in Keys, Reset(k)
      PROVE  /\ blocked' = {} /\ skipped' = {}
             /\ \A s \in Requests : request'[s].pc # "backoff"
  BY <1>2, <1>8 DEF Reset
<1>9. ASSUME Disturb PROVE FALSE
  BY <1>2, <1>9 DEF Disturb
<1>10. CASE UNCHANGED vars
  BY <1>2, <1>10 DEF vars
<1> QED
  BY <1>3, <1>4, <1>5, <1>6, <1>7, <1>8, <1>9, <1>10 DEF Next

(* A key that has room has had it before.                                  *)
LEMMA RoomShrinks ==
  ASSUME UNCHANGED <<limit, budget>>, NEW k,
         charged[k] \in Nat, charged'[k] \in Nat, charged[k] <= charged'[k],
         tokens[k] \in Nat, tokens'[k] \in Nat, tokens[k] <= tokens'[k],
         limit[k] \in Nat, budget[k] \in Nat, Room(k)'
  PROVE  Room(k)
<1>1. /\ limit[k] > 0 => charged'[k] < limit[k]
      /\ budget[k] > 0 => tokens'[k] + Estimate <= budget[k]
  BY DEF Room
<1>2. Estimate \in Nat
  BY ConstantsTyped
<1>3. limit[k] > 0 => charged[k] < limit[k]
  BY <1>1
<1>4. budget[k] > 0 => tokens[k] + Estimate <= budget[k]
  BY <1>1, <1>2
<1> QED
  BY <1>3, <1>4 DEF Room

(* A list remains good while windows fill up.                              *)
LEMMA OfferStays ==
  ASSUME NEW s \in Requests, OfferedAll(s), request'[s] = request[s],
         UNCHANGED <<disturbed, models>>, \A k \in Keys : Room(k)' => Room(k)
  PROVE  OfferedAll(s)'
BY DEF OfferedAll

LEMMA ResolutionOffersAll ==
  ASSUME TypeOK, Undisturbed
  PROVE  /\ IsInjective(Resolution)
         /\ ~disturbed => \A m \in 1..models, k \in Keys :
              Room(k) => <<m, k>> \in ToSet(Resolution)
<1>1. DOMAIN Resolution = 1..Len(Resolution)
  BY ResolutionLists, LenProperties
<1>2. IsInjective(Resolution)
  BY <1>1, ResolutionLists DEF IsInjective
<1>3. ASSUME ~disturbed, NEW m \in 1..models, NEW k \in Keys, Room(k)
      PROVE  <<m, k>> \in ToSet(Resolution)
  <2>1. Available(k) /\ m \in Open
    BY <1>3 DEF Available, Open, Undisturbed
  <2>2. PICK i \in 1..Len(Resolution) : Resolution[i] = <<m, k>>
    BY <2>1, ResolutionLists
  <2> QED
    BY <1>1, <2>2 DEF ToSet
<1> QED
  BY <1>2, <1>3

(* Windows only fill up.                                                   *)
LEMMA WindowsFill ==
  ASSUME TypeInv, [Next]_vars
  PROVE  /\ UNCHANGED <<policy, models, headers, disturbed, limit, budget>>
         /\ \A k \in Keys : charged[k] <= charged'[k] /\ tokens[k] <= tokens'[k]
         /\ \A k \in Keys : Room(k)' => Room(k)
<1>1. UNCHANGED <<policy, models, headers, disturbed, limit, budget>>
  BY DEF Next, vars, setting, Arrive, Refuse, Answer, Fail, Failover, Reset, Disturb
<1>2. TypeOK /\ TypeOK' /\ charged \in [Keys -> Nat] /\ tokens \in [Keys -> Nat]
  <2>1. TypeInv'
    BY TypeInvNext
  <2> QED
    BY <2>1 DEF TypeInv, TypeOK
<1>3. ASSUME NEW r \in Requests, NEW candidates \in Seq(Candidate), candidates # <<>>,
             NEW attempt \in 1..MaxAttempts, Try(r, candidates, attempt)
      PROVE  \A k \in Keys : charged[k] <= charged'[k]
  <2>1. PICK key : key = candidates[1][2]
    OBVIOUS
  <2>2. /\ key \in Keys /\ charged'[key] = charged[key] + 1
        /\ \A k \in Keys : k # key => charged'[k] = charged[k]
    BY <1>2, <1>3, <2>1, TryMoves
  <2> QED
    BY <1>2, <2>2
<1> DEFINE Grow == \A k \in Keys : charged[k] <= charged'[k] /\ tokens[k] <= tokens'[k]
<1>4. ASSUME UNCHANGED <<charged, tokens>> PROVE Grow
  BY <1>2, <1>4
<1>5. ASSUME NEW r \in Requests, Arrive(r) PROVE Grow
  <2>1. /\ Resolution # <<>> /\ Resolution \in Seq(Candidate)
        /\ 1 \in 1..MaxAttempts /\ Try(r, Resolution, 1) /\ UNCHANGED tokens
    BY <1>2, <1>5, ArriveMoves
  <2>2. \A k \in Keys : charged[k] <= charged'[k]
    BY <1>3, <2>1
  <2> QED
    BY <1>2, <2>1, <2>2
<1>6. ASSUME NEW r \in Requests, Failover(r) PROVE Grow
  <2>1. /\ request[r].candidates # <<>> /\ request[r].candidates \in Seq(Candidate)
        /\ request[r].attempt + 1 \in 1..MaxAttempts
        /\ Try(r, request[r].candidates, request[r].attempt + 1) /\ UNCHANGED tokens
    BY <1>6, FailoverMoves
  <2>2. \A k \in Keys : charged[k] <= charged'[k]
    BY <1>3, <2>1
  <2> QED
    BY <1>2, <2>1, <2>2
<1>7. ASSUME NEW r \in Requests, Answer(r) PROVE Grow
  <2>1. UNCHANGED charged
    BY <1>7 DEF Answer
  <2>2. \A k \in Keys : tokens[k] <= tokens'[k]
    BY <1>2, <1>7, AnswerMoves
  <2> QED
    BY <1>2, <2>1, <2>2
<1>8. Grow
  <2>1. ASSUME NEW r \in Requests, Refuse(r) \/ Fail(r) PROVE UNCHANGED <<charged, tokens>>
    BY <2>1 DEF Refuse, Fail
  <2>2. ASSUME NEW k \in Keys, Reset(k) PROVE UNCHANGED <<charged, tokens>>
    BY <2>2 DEF Reset
  <2>3. ASSUME Disturb \/ UNCHANGED vars PROVE UNCHANGED <<charged, tokens>>
    BY <2>3 DEF Disturb, vars
  <2> HIDE DEF Grow
  <2>4. UNCHANGED <<charged, tokens>> => Grow
    BY <1>4
  <2> QED
    BY <1>5, <1>6, <1>7, <2>1, <2>2, <2>3, <2>4 DEF Next
<1>9. ASSUME NEW k \in Keys, Room(k)' PROVE Room(k)
  <2>1. /\ charged[k] \in Nat /\ charged'[k] \in Nat /\ charged[k] <= charged'[k]
        /\ tokens[k] \in Nat /\ tokens'[k] \in Nat /\ tokens[k] <= tokens'[k]
        /\ limit[k] \in Nat /\ budget[k] \in Nat
    BY <1>2, <1>8 DEF TypeOK
  <2> QED
    BY <1>1, <1>9, <2>1, RoomShrinks
<1> QED
  BY <1>1, <1>8, <1>9

LEMMA OfferInvNext == TypeInv /\ OfferInv /\ [Next]_vars => OfferInv'
<1> SUFFICES ASSUME TypeInv, OfferInv, [Next]_vars PROVE OfferInv'
  OBVIOUS
<1>0. TypeOK
  BY DEF TypeInv
<1>1. Undisturbed'
  BY UndisturbedNext DEF OfferInv
<1>2. SUFFICES ASSUME NEW s \in Requests PROVE OfferedAll(s)'
  BY <1>1 DEF OfferInv
<1>3. UNCHANGED <<disturbed, models>> /\ \A k \in Keys : Room(k)' => Room(k)
  BY WindowsFill
<1>4. OfferedAll(s) /\ Undisturbed
  BY DEF OfferInv
<1>5. CASE request'[s] = request[s]
  BY <1>3, <1>4, <1>5, OfferStays
<1>6. CASE \E r \in Requests : Arrive(r) /\ s = r
  <2>1. /\ Arrive(s) /\ Resolution # <<>> /\ Resolution \in Seq(Candidate)
        /\ 1 \in 1..MaxAttempts /\ Try(s, Resolution, 1)
    BY <1>0, <1>6, ArriveMoves
  <2> DEFINE list == Resolution
  <2>2. /\ IsInjective(list)
        /\ ~disturbed => \A m \in 1..models, k \in Keys :
             Room(k) => <<m, k>> \in ToSet(list)
    BY <1>0, <1>4, ResolutionOffersAll
  <2> HIDE DEF list
  <2>3. request'[s].candidates = list
    BY <1>0, <2>1, TryMoves DEF list
  <2> QED
    BY <1>3, <2>2, <2>3 DEF OfferedAll
<1>7. CASE request'[s].pc # "calling" \/ request'[s].attempt # 1
  BY <1>7 DEF OfferedAll
<1>8. ASSUME NEW r \in Requests, Arrive(r) PROVE OfferedAll(s)'
  <2>1. \A t \in Requests : t # r => request'[t] = request[t]
    BY <1>0, <1>8, ArriveMoves, TryMoves
  <2> QED
    BY <1>5, <1>6, <1>8, <2>1
<1>9. ASSUME NEW r \in Requests, Failover(r) PROVE OfferedAll(s)'
  <2>1. /\ request[r].candidates # <<>> /\ request[r].candidates \in Seq(Candidate)
        /\ request[r].attempt + 1 \in 1..MaxAttempts /\ request[r].attempt + 1 \in 2..MaxAttempts
        /\ Try(r, request[r].candidates, request[r].attempt + 1)
    BY <1>9, FailoverMoves
  <2> DEFINE list == request[r].candidates
             next == request[r].attempt + 1
  <2>2. next # 1
    BY <2>1
  <2> HIDE DEF list, next
  <2>3. /\ request'[r].attempt = next
        /\ \A t \in Requests : t # r => request'[t] = request[t]
    BY <1>0, <2>1, TryMoves DEF list, next
  <2> QED
    BY <1>5, <1>7, <2>2, <2>3
<1>10. ASSUME NEW r \in Requests, Answer(r) PROVE OfferedAll(s)'
  <2>1. /\ request'[r] = Idle /\ Idle.pc = "idle"
        /\ \A t \in Requests : t # r => request'[t] = request[t]
    BY <1>0, <1>10, AnswerMoves DEF Idle
  <2> QED
    BY <1>5, <1>7, <2>1
<1>11. ASSUME NEW r \in Requests, Fail(r) PROVE OfferedAll(s)'
  <2>1. /\ request'[r] = Idle \/ request'[r].pc = "backoff"
        /\ Idle.pc = "idle"
        /\ \A t \in Requests : t # r => request'[t] = request[t]
    BY <1>0, <1>11, FailMoves DEF Idle
  <2> QED
    BY <1>5, <1>7, <2>1
<1>12. ASSUME NEW r \in Requests, Refuse(r) PROVE OfferedAll(s)'
  BY <1>5, <1>12 DEF Refuse
<1>13. ASSUME NEW k \in Keys, Reset(k) PROVE OfferedAll(s)'
  BY <1>5, <1>13 DEF Reset
<1>14. CASE Disturb \/ UNCHANGED vars
  BY <1>5, <1>14 DEF Disturb, vars
<1> QED
  BY <1>8, <1>9, <1>10, <1>11, <1>12, <1>13, <1>14 DEF Next

LEMMA OfferInvInit == Init => OfferInv
<1> SUFFICES ASSUME Init PROVE OfferInv
  OBVIOUS
<1>1. \A r \in Requests : request[r].pc = "idle"
  BY DEF Init, Idle
<1>2. blocked = {} /\ skipped = {}
  BY DEF Init
<1> QED
  BY <1>1, <1>2 DEF OfferInv, OfferedAll, Undisturbed

(* Whatever policy, whatever windows the keys have, however many requests  *)
(* share the cursor and the windows and however many models a name stands  *)
(* for: the list with which a request makes its first call holds no key    *)
(* twice for a model and, while nothing is ruled out, every key with room  *)
(* in its windows for every model.                                         *)
THEOREM KeysOffered == Spec => []EveryKeyOffered
<1>1. TypeInv /\ OfferInv => EveryKeyOffered
  BY DEF OfferInv, OfferedAll, EveryKeyOffered
<1>2. Spec => [](TypeInv /\ OfferInv)
  BY TypeInvInit, TypeInvNext, OfferInvInit, OfferInvNext, PTL DEF Spec
<1> QED
  BY <1>1, <1>2, PTL

-----------------------------------------------------------------------------
(* Round robin with steps of several keys: the places the cursor comes to. *)

LEMMA SameRemainder ==
  ASSUME NEW a \in Int, NEW z \in Int
  PROVE  (a + N * z) % N = a % N
<1> DEFINE b == a + N * z
           w == (b \div N) - (a \div N) - z
<1>1. N \in Nat \ {0} /\ b \in Int
  BY ConstantsTyped
<1>2. /\ a = N * (a \div N) + (a % N)
      /\ b = N * (b \div N) + (b % N)
      /\ a \div N \in Int /\ b \div N \in Int
  <2> HIDE DEF b
  <2> QED
    BY <1>1
<1>3. a % N \in 0..(N - 1) /\ b % N \in 0..(N - 1)
  BY <1>1, RemainderTyped
<1>4. w \in Int /\ N * w = (a % N) - (b % N)
  <2> DEFINE p == a \div N
             q == b \div N
             u == a % N
             v == b % N
  <2>1. /\ a = N * p + u /\ b = N * q + v /\ b = a + N * z
        /\ p \in Int /\ q \in Int /\ u \in Int /\ v \in Int
    BY <1>1, <1>2, <1>3
  <2>2. w = q - p - z
    OBVIOUS
  <2> HIDE DEF p, q, u, v, b, w
  <2>3. N * (q - p - z) = N * q - N * p - N * z
    BY <1>1, <2>1
  <2>4. N * w = u - v
    BY <1>1, <2>1, <2>2, <2>3
  <2> QED
    BY <2>1, <2>2, <2>4 DEF u, v
<1> HIDE DEF b, w
<1>5. CASE w >= 1
  BY <1>1, <1>3, <1>4, <1>5
<1>6. CASE w <= -1
  BY <1>1, <1>3, <1>4, <1>6
<1>7. CASE w = 0
  BY <1>1, <1>3, <1>4, <1>7 DEF b
<1> QED
  BY <1>4, <1>5, <1>6, <1>7

(* Where the cursor is after i orders.                                     *)
Place(i) == (i * models) % N

LEMMA PlaceTyped ==
  ASSUME TypeOK, NEW i \in Nat
  PROVE  Place(i) \in 0..(N - 1)
<1>1. i * models \in Int
  BY ConstantsTyped DEF TypeOK
<1> QED
  BY <1>1, RemainderTyped DEF Place

LEMMA NextPlace ==
  ASSUME TypeOK, NEW i \in Nat
  PROVE  Place(i + 1) = (Place(i) + models) % N
<1> DEFINE a == i * models
           p == a % N
           q == a \div N
<1>1. N \in Nat \ {0} /\ models \in Nat /\ a \in Int
  BY ConstantsTyped DEF TypeOK
<1>2. a = N * q + p /\ q \in Int /\ p \in Int
  <2> HIDE DEF a
  <2> QED
    BY <1>1
<1>3. (i + 1) * models = a + models
  BY <1>1
<1> HIDE DEF p, q, a
<1>4. a + models = (p + models) + N * q /\ p + models \in Int
  BY <1>1, <1>2
<1>5. ((p + models) + N * q) % N = (p + models) % N
  BY <1>2, <1>4, SameRemainder
<1>6. Place(i + 1) = (a + models) % N
  BY <1>3 DEF Place
<1>7. Place(i) = p
  BY DEF Place, p, a
<1> QED
  BY <1>4, <1>5, <1>6, <1>7

(* After how many orders it is back at the first key.                      *)
Rounds == {p \in Nat : p # 0 /\ Place(p) = 0}

IsPeriod(p) == p \in Rounds /\ \A i \in Rounds : p <= i

LEMMA PeriodExists ==
  ASSUME TypeOK
  PROVE  \E p \in 1..N : IsPeriod(p)
<1>1. N \in Nat \ {0} /\ models \in Int
  BY ConstantsTyped DEF TypeOK
<1>2. Place(N) = 0
  <2>1. N * models = 0 + N * models
    BY <1>1
  <2>2. (0 + N * models) % N = 0 % N
    <3>1. 0 \in Int
      OBVIOUS
    <3> QED
      BY ONLY <1>1, <3>1, SameRemainder, Zenon
  <2>3. 0 % N = 0
    BY <1>1
  <2> QED
    BY <2>1, <2>2, <2>3 DEF Place
<1>3. N \in Rounds /\ Rounds \in SUBSET Nat
  BY <1>1, <1>2 DEF Rounds
<1>4. PICK p \in Rounds : \A i \in Rounds : p <= i
  BY <1>3, LeastNat
<1>5. p \in 1..N
  BY <1>1, <1>3, <1>4 DEF Rounds
<1> QED
  BY <1>4, <1>5 DEF IsPeriod

(* Until then it comes to no place twice.                                  *)
LEMMA PlacesApart ==
  ASSUME TypeOK, NEW p \in Nat, IsPeriod(p),
         NEW i \in 0..(p - 1), NEW j \in 0..(p - 1), i < j
  PROVE  Place(i) # Place(j)
<1> SUFFICES ASSUME Place(i) = Place(j) PROVE FALSE
  OBVIOUS
<1> DEFINE a == i * models
           b == j * models
           z == (b \div N) - (a \div N)
<1>1. N \in Nat \ {0} /\ models \in Nat /\ a \in Int /\ b \in Int
  BY ConstantsTyped DEF TypeOK
<1>2. a % N = b % N
  BY DEF Place
<1>3. /\ a = N * (a \div N) + (a % N)
      /\ b = N * (b \div N) + (b % N)
      /\ a \div N \in Int /\ b \div N \in Int
  <2> HIDE DEF a, b
  <2> QED
    BY <1>1
<1>4. z \in Int /\ b - a = N * z
  <2> HIDE DEF a, b
  <2> QED
    BY <1>1, <1>2, <1>3
<1>5. (j - i) * models = b - a
  BY <1>1
<1>6. (j - i) * models = 0 + N * z
  <2> HIDE DEF a, b, z
  <2> QED
    BY <1>1, <1>4, <1>5
<1>7. (j - i) * models % N = 0
  <2> HIDE DEF z
  <2>1. (0 + N * z) % N = 0 % N
    BY <1>4, SameRemainder
  <2>2. 0 % N = 0
    BY <1>1
  <2> QED
    BY <1>6, <2>1, <2>2
<1>8. j - i \in Rounds
  BY <1>7 DEF Rounds, Place
<1>9. p <= j - i
  BY <1>8 DEF IsPeriod
<1> QED
  BY <1>9

(* The places of later rounds are those of the first.                      *)
LEMMA PlacesRepeat ==
  ASSUME TypeOK, NEW p \in 1..N, IsPeriod(p), NEW i \in Nat
  PROVE  \E j \in 0..(p - 1) : Place(i) = Place(j)
<1> DEFINE j == i % p
           q == i \div p
           z == (p * models) \div N
<1>1. /\ N \in Nat \ {0} /\ models \in Nat /\ p \in Nat \ {0}
      /\ p * models \in Int
  BY ConstantsTyped DEF TypeOK
<1>2. i = p * q + j /\ q \in Int /\ j \in 0..(p - 1)
  BY <1>1
<1>3. (p * models) % N = 0
  BY DEF IsPeriod, Rounds, Place
<1>4. p * models = N * z /\ z \in Int
  <2> DEFINE m == p * models
  <2>1. m \in Int /\ m % N = 0
    BY <1>1, <1>3
  <2> HIDE DEF m
  <2>2. m = N * (m \div N) /\ m \div N \in Int
    BY <1>1, <2>1
  <2> QED
    BY <2>2 DEF m
<1> HIDE DEF j, q, z
<1>5. i * models = j * models + N * (q * z)
  <2>1. (p * q + j) * models = j * models + q * (p * models)
    BY <1>1, <1>2
  <2>2. q * (N * z) = N * (q * z)
    BY <1>1, <1>2, <1>4
  <2> QED
    BY <1>2, <1>4, <2>1, <2>2
<1>6. j * models \in Int /\ q * z \in Int
  BY <1>1, <1>2, <1>4
<1>7. (j * models + N * (q * z)) % N = (j * models) % N
  BY <1>6, SameRemainder
<1>8. Place(i) = Place(j)
  BY <1>5, <1>7 DEF Place
<1> QED
  BY <1>2, <1>8

LEMMA PlaceZero == TypeOK => Place(0) = 0
<1> SUFFICES ASSUME TypeOK PROVE Place(0) = 0
  OBVIOUS
<1>1. N \in Nat \ {0} /\ models \in Nat
  BY ConstantsTyped DEF TypeOK
<1>2. 0 * models = 0 /\ 0 % N = 0
  BY <1>1
<1> QED
  BY <1>2 DEF Place

-----------------------------------------------------------------------------
(* Round robin is even.                                                    *)
KeyAt(i) == KeyList[Place(i) + 1]

(* In the current round, the first s of the p keys have had their turn.    *)
Turns(p, s, q) ==
  /\ cursor = Place(s)
  /\ \A i \in 0..(p - 1) : i < s => headed[KeyAt(i)] = q + 1
  /\ \A i \in 0..(p - 1) : i >= s => headed[KeyAt(i)] = q
  /\ \A k \in Keys : (\A i \in 0..(p - 1) : k # KeyAt(i)) => headed[k] = 0

Alternating == TakingTurns /\ (models = 1 \/ ~disturbed) /\ N > 1

RoundInv ==
  Alternating =>
    \E p \in 1..N : IsPeriod(p) /\ \E s \in 0..(p - 1), q \in Nat : Turns(p, s, q)

(* Nothing is known of the upstream's budget while no headers come.        *)
Unannounced == ~headers => \A k \in Keys : remaining[k] = Unknown

LEMMA UnannouncedNext == TypeInv /\ Unannounced /\ [Next]_vars => Unannounced'
<1> SUFFICES ASSUME TypeInv, Unannounced, [Next]_vars, ~headers'
             PROVE  \A k \in Keys : remaining'[k] = Unknown
  BY DEF Unannounced
<1>1. TypeOK /\ headers' = headers
  BY WindowsFill DEF TypeInv
<1>2. ~headers /\ \A k \in Keys : remaining[k] = Unknown
  BY <1>1 DEF Unannounced
<1>3. ASSUME NEW r \in Requests, Answer(r) \/ Fail(r)
      PROVE  \A k \in Keys : remaining'[k] = Unknown
  <2>1. ComeBack(r)
    BY <1>3 DEF Answer, Fail
  <2>2. \A k \in Keys : remaining'[k] = remaining[k]
    BY <1>1, <1>2, <2>1, ComeBackMoves
  <2> QED
    BY <1>2, <2>2
<1>4. ASSUME UNCHANGED remaining PROVE \A k \in Keys : remaining'[k] = Unknown
  BY <1>2, <1>4
<1>5. ASSUME NEW r \in Requests, Arrive(r) \/ Refuse(r) \/ Failover(r)
      PROVE  UNCHANGED remaining
  BY <1>5 DEF Arrive, Refuse, Failover
<1>6. ASSUME NEW k \in Keys, Reset(k) PROVE FALSE
  BY <1>2, <1>6 DEF Reset
<1>7. ASSUME Disturb \/ UNCHANGED vars PROVE UNCHANGED remaining
  BY <1>7 DEF Disturb, vars
<1> QED
  BY <1>3, <1>4, <1>5, <1>6, <1>7 DEF Next

(* Where keys take turns, the one at the cursor heads the order.           *)
LEMMA CursorHeads ==
  ASSUME TypeOK, Unannounced, TakingTurns, N > 1
  PROVE  OrderKeys(cursor)[1] = KeyList[cursor + 1]
<1>1. cursor \in 0..(N - 1) /\ N \in Nat \ {0} /\ cursor \in Nat /\ cursor % N = cursor
  <2>1. cursor \in 0..(N - 1) /\ N \in Nat \ {0}
    BY ConstantsTyped DEF TypeOK
  <2> QED
    BY <2>1
<1>2. CASE policy = "round_robin"
  <2>1. OrderKeys(cursor)[1] = KeyList[(cursor % N) + 1]
    BY <1>1, <1>2, OrderKeysIsOrder
  <2> QED
    BY <1>1, <2>1
<1>3. CASE policy = "smart" /\ ~headers /\ \A k \in Keys : limit[k] = 0 /\ budget[k] = 0
  <2>1. \A k \in Keys : remaining[k] = Unknown
    BY <1>3 DEF Unannounced
  <2>2. \A k \in Keys : Headroom(k) = Unit
    BY <1>3, <2>1, HeadroomOfNone
  <2>3. \A k, l \in Keys : Headroom(k) = Headroom(l)
    BY <2>2
  <2>4. OrderKeys(cursor)[1] = KeyList[(cursor % N) + 1]
    BY <1>1, <1>3, <2>3, OrderKeysIsOrder
  <2> QED
    BY <1>1, <2>4
<1> QED
  BY <1>2, <1>3 DEF TakingTurns

LEMMA KeyAtTyped ==
  ASSUME TypeOK, NEW i \in Nat
  PROVE  Place(i) + 1 \in 1..N /\ KeyAt(i) \in Keys
<1>1. Place(i) + 1 \in 1..N
  <2>1. Place(i) \in 0..(N - 1) /\ N \in Nat
    BY PlaceTyped, ConstantsTyped
  <2> QED
    BY <2>1
<1> QED
  BY <1>1, ConstantsTyped DEF KeyAt

LEMMA KeysApart ==
  ASSUME TypeOK, NEW p \in Nat, IsPeriod(p),
         NEW i \in 0..(p - 1), NEW j \in 0..(p - 1), i # j
  PROVE  KeyAt(i) # KeyAt(j)
<1>1. Place(i) # Place(j)
  <2>1. i < j \/ j < i
    OBVIOUS
  <2> QED
    BY <2>1, PlacesApart
<1>2. Place(i) + 1 # Place(j) + 1
  BY <1>1, PlaceTyped
<1>3. Place(i) + 1 \in 1..N /\ Place(j) + 1 \in 1..N
  BY KeyAtTyped
<1> QED
  BY <1>2, <1>3, ConstantsTyped DEF KeyAt

(* With one order for all models the turn goes to the next key.            *)
LEMMA TurnPasses ==
  ASSUME TypeOK, Unannounced, Order, models' = models, TakingTurns, N > 1,
         Open = 1..models,
         NEW p \in 1..N, IsPeriod(p), NEW s \in 0..(p - 1), NEW q \in Nat, Turns(p, s, q)
  PROVE  \E t \in 0..(p - 1), n \in Nat : Turns(p, t, n)'
<1>1. /\ N \in Nat \ {0} /\ models \in Nat /\ p \in Nat \ {0} /\ s \in Nat
      /\ cursor = Place(s) /\ cursor \in 0..(N - 1)
  BY ConstantsTyped DEF TypeOK, Turns
<1>2. OrderKeys(cursor)[1] = KeyAt(s)
  <2>1. OrderKeys(cursor)[1] = KeyList[cursor + 1]
    BY CursorHeads
  <2> QED
    BY <1>1, <2>1 DEF KeyAt
<1>3. cursor' = Place(s + 1)
  <2>1. cursor' = CursorAt(models)
    <3>1. Cardinality(1..models) = models
      BY <1>1, FS_Interval
    <3>2. cursor' = CursorAt(Cardinality(Open))
      BY OrderMoves
    <3> QED
      BY <3>1, <3>2
  <2>2. CursorAt(models) = (cursor + models) % N
    BY DEF Rotating, TakingTurns, CursorAt
  <2> QED
    BY <1>1, <2>1, <2>2, NextPlace
<1>4. /\ headed'[KeyAt(s)] = headed[KeyAt(s)] + 1
      /\ \A k \in Keys : k # KeyAt(s) => headed'[k] = headed[k]
  <2>1. Open # {}
    <3>1. models \in 1..MaxModels /\ MaxModels \in Nat
      BY ConstantsTyped DEF TypeOK
    <3>2. 1 \in 1..models
      BY <3>1
    <3> QED
      BY <3>2
  <2> QED
    BY <1>2, <2>1, OrderMoves
<1>5. \A i \in Nat : KeyAt(i) \in Keys /\ KeyAt(i)' = KeyAt(i) /\ Place(i)' = Place(i)
  <2>1. \A i \in Nat : Place(i)' = Place(i)
    BY DEF Place
  <2> QED
    BY <2>1, KeyAtTyped DEF KeyAt
<1>6. \A i \in 0..(p - 1) : i # s => KeyAt(i) # KeyAt(s)
  BY <1>1, KeysApart
<1>7. /\ \A i \in 0..(p - 1) : i < s => headed[KeyAt(i)] = q + 1
      /\ \A i \in 0..(p - 1) : i >= s => headed[KeyAt(i)] = q
      /\ \A k \in Keys : (\A i \in 0..(p - 1) : k # KeyAt(i)) => headed[k] = 0
  BY DEF Turns
<1>8. headed'[KeyAt(s)] = q + 1
  BY <1>1, <1>4, <1>7
<1>9. ASSUME NEW i \in 0..(p - 1), i # s
      PROVE  headed'[KeyAt(i)] = headed[KeyAt(i)]
  BY <1>1, <1>4, <1>5, <1>6, <1>9
<1>10. ASSUME NEW k \in Keys, \A i \in 0..(p - 1) : k # KeyAt(i)
       PROVE  headed'[k] = 0
  <2>1. k # KeyAt(s)
    BY <1>10
  <2> QED
    BY <1>4, <1>7, <1>10, <2>1
<1>11. CASE s + 1 < p
  <2>1. s + 1 \in 0..(p - 1) /\ s + 1 \in Nat
    BY <1>1, <1>11
  <2>2. cursor' = Place(s + 1)'
    BY <1>3, <1>5, <2>1
  <2>3. \A i \in 0..(p - 1) : i < s + 1 => headed'[KeyAt(i)] = q + 1
    BY <1>1, <1>7, <1>8, <1>9
  <2>4. \A i \in 0..(p - 1) : i >= s + 1 => headed'[KeyAt(i)] = q
    BY <1>1, <1>7, <1>9
  <2>5. \A i \in 0..(p - 1) : KeyAt(i)' = KeyAt(i)
    BY <1>5
  <2>6. Turns(p, s + 1, q)'
    BY <2>2, <2>3, <2>4, <2>5, <1>10 DEF Turns
  <2> QED
    BY <2>1, <2>6
<1>12. CASE s + 1 = p
  <2>1. 0 \in 0..(p - 1) /\ 0 \in Nat /\ q + 1 \in Nat /\ p \in Nat
    BY <1>1
  <2>2. cursor' = Place(0)'
    <3>1. Place(p) = 0
      BY DEF IsPeriod, Rounds
    <3> QED
      BY <1>3, <1>5, <1>12, <2>1, <3>1, PlaceZero
  <2>3. \A i \in 0..(p - 1) : ~(i < 0)
    BY <1>1
  <2>4. \A i \in 0..(p - 1) : headed'[KeyAt(i)] = q + 1
    BY <1>1, <1>7, <1>8, <1>9, <1>12
  <2>5. \A i \in 0..(p - 1) : KeyAt(i)' = KeyAt(i)
    BY <1>5
  <2>6. Turns(p, 0, q + 1)'
    BY <2>2, <2>3, <2>4, <2>5, <1>10 DEF Turns
  <2> QED
    BY <2>1, <2>6
<1> QED
  BY <1>1, <1>11, <1>12

LEMMA PeriodStays ==
  ASSUME models' = models, NEW p, IsPeriod(p)
  PROVE  IsPeriod(p)'
<1>1. \A i \in Nat : Place(i)' = Place(i)
  BY DEF Place
<1>2. Rounds' = Rounds
  BY <1>1 DEF Rounds
<1> QED
  BY <1>2 DEF IsPeriod

LEMMA RoundInvInit == Init => RoundInv
<1> SUFFICES ASSUME Init, Alternating
             PROVE  \E p \in 1..N : IsPeriod(p) /\
                      \E s \in 0..(p - 1), q \in Nat : Turns(p, s, q)
  BY DEF RoundInv
<1>1. TypeOK
  BY TypeInvInit DEF TypeInv
<1>2. PICK p \in 1..N : IsPeriod(p)
  BY <1>1, PeriodExists
<1>3. /\ cursor = 0 /\ \A k \in Keys : headed[k] = 0
  BY DEF Init
<1>4. 0 \in 0..(p - 1) /\ 0 \in Nat /\ p \in Nat
  BY <1>2, ConstantsTyped
<1>5. \A i \in 0..(p - 1) : KeyAt(i) \in Keys /\ ~(i < 0)
  BY <1>1, <1>4, KeyAtTyped
<1>6. Turns(p, 0, 0)
  BY <1>1, <1>3, <1>5, PlaceZero DEF Turns
<1> QED
  BY <1>2, <1>4, <1>6

LEMMA RoundInvNext ==
  TypeInv /\ Undisturbed /\ Unannounced /\ RoundInv /\ [Next]_vars => RoundInv'
<1> SUFFICES ASSUME TypeInv, Undisturbed, Unannounced, RoundInv, [Next]_vars, Alternating'
             PROVE  \E p \in 1..N : IsPeriod(p)' /\
                      \E s \in 0..(p - 1), q \in Nat : Turns(p, s, q)'
  BY DEF RoundInv
<1>1. TypeOK
  BY DEF TypeInv
<1>2. UNCHANGED <<policy, models, headers, disturbed, limit, budget>>
  BY WindowsFill
<1>3. Alternating /\ \E p \in 1..N : IsPeriod(p) /\
        \E s \in 0..(p - 1), q \in Nat : Turns(p, s, q)
  <2>1. Alternating
    BY <1>2 DEF Alternating, TakingTurns
  <2> QED
    BY <2>1 DEF RoundInv
<1>4. PICK p \in 1..N : IsPeriod(p) /\
        \E s \in 0..(p - 1), q \in Nat : Turns(p, s, q)
  BY <1>3
<1>5. PICK s \in 0..(p - 1), q \in Nat : Turns(p, s, q)
  BY <1>4
<1>6. IsPeriod(p)'
  BY <1>2, <1>4, PeriodStays
<1>7. CASE Order /\ Open # {}
  <2>1. Open = 1..models
    <3>1. CASE models = 1
      BY <1>1, <1>7, <3>1, OpenTyped
    <3>2. CASE ~disturbed
      BY <3>2 DEF Undisturbed, Open
    <3> QED
      BY <1>3, <3>1, <3>2 DEF Alternating
  <2>2. \E t \in 0..(p - 1), n \in Nat : Turns(p, t, n)'
    BY <1>1, <1>2, <1>3, <1>4, <1>5, <1>7, <2>1, TurnPasses DEF Alternating
  <2> QED
    BY <1>6, <2>2
<1>8. CASE UNCHANGED <<cursor, headed>>
  <2>1. \A i \in 0..(p - 1) : KeyAt(i)' = KeyAt(i)
    BY <1>2 DEF KeyAt, Place
  <2>2. Place(s)' = Place(s)
    BY <1>2 DEF Place
  <2>3. Turns(p, s, q)'
    BY <1>5, <1>8, <2>1, <2>2 DEF Turns
  <2> QED
    BY <1>5, <1>6, <2>3
<1>9. CASE Order /\ Open = {}
  <2>1. cursor' = CursorAt(Cardinality(Open)) /\ headed' = headed
    BY <1>1, <1>9, OrderMoves
  <2>2. Cardinality(Open) = 0
    BY <1>9, FS_EmptySet
  <2>3. UNCHANGED <<cursor, headed>>
    BY <1>1, <2>1, <2>2, CursorHere
  <2> QED
    BY <1>8, <2>3
<1>10. Order \/ UNCHANGED <<cursor, headed>>
  BY DEF Next, vars, Arrive, Refuse, Answer, Fail, Failover, Reset, Disturb
<1> QED
  BY <1>7, <1>8, <1>9, <1>10

LEMMA RoundInvImplies == TypeOK /\ RoundInv => RoundRobinEven
<1> SUFFICES ASSUME TypeOK, RoundInv, TakingTurns, models = 1 \/ ~disturbed
             PROVE  /\ \A k, l \in Reached : headed[k] <= headed[l] + 1
                    /\ \A k \in Keys \ Reached : headed[k] = 0
  BY DEF RoundRobinEven
<1>1. N \in Nat \ {0} /\ headed \in [Keys -> Nat]
  BY ConstantsTyped DEF TypeOK
<1>2. Reached = {KeyAt(i) : i \in 0..(N - 1)}
  BY DEF Reached, KeyAt, Place
<1>3. CASE N > 1
  <2>1. PICK p \in 1..N : IsPeriod(p) /\
          \E s \in 0..(p - 1), q \in Nat : Turns(p, s, q)
    BY <1>3 DEF RoundInv, Alternating
  <2>2. PICK s \in 0..(p - 1), q \in Nat : Turns(p, s, q)
    BY <2>1
  <2>3. ASSUME NEW k \in Reached PROVE headed[k] = q \/ headed[k] = q + 1
    <3>1. PICK i \in 0..(N - 1) : k = KeyAt(i)
      BY <1>2
    <3>2. PICK j \in 0..(p - 1) : Place(i) = Place(j)
      BY <2>1, PlacesRepeat
    <3>3. k = KeyAt(j)
      BY <3>1, <3>2 DEF KeyAt
    <3>4. j < s \/ j >= s
      OBVIOUS
    <3> QED
      BY <2>2, <3>3, <3>4 DEF Turns
  <2>4. \A k, l \in Reached : headed[k] <= headed[l] + 1
    BY <2>3
  <2>5. ASSUME NEW k \in Keys \ Reached PROVE headed[k] = 0
    <3>1. \A i \in 0..(p - 1) : i \in 0..(N - 1)
      BY <1>1
    <3>2. \A i \in 0..(p - 1) : k # KeyAt(i)
      BY <1>2, <3>1
    <3> QED
      BY <2>2, <3>2 DEF Turns
  <2> QED
    BY <2>4, <2>5
<1>4. CASE N = 1
  <2>1. \A k \in Keys : k = KeyList[1]
    BY <1>4, ConstantsTyped
  <2>2. KeyAt(0) \in Keys /\ 0 \in 0..(N - 1)
    BY <1>1, KeyAtTyped
  <2>3. KeyAt(0) \in Reached /\ Reached \subseteq Keys
    BY <1>2, <2>2, KeyAtTyped
  <2>4. \A k \in Keys : k \in Reached
    BY <2>1, <2>2, <2>3
  <2>5. \A k, l \in Reached : k = l /\ headed[k] \in Nat
    BY <1>1, <2>1, <2>3
  <2> QED
    BY <2>4, <2>5
<1> QED
  BY <1>1, <1>3, <1>4

(* Where keys take turns with one cursor for all requests, which moves on  *)
(* for every model of the name: for any number of keys and models, the     *)
(* keys it comes to head the order equally often, and the others never; a  *)
(* name of one model alternates whatever fails and is ruled out.           *)
THEOREM RoundRobinAlternates == Spec => []RoundRobinEven
<1> DEFINE Inv == TypeInv /\ Undisturbed /\ Unannounced /\ RoundInv
<1>1. Inv => RoundRobinEven
  BY RoundInvImplies DEF TypeInv
<1>2. Init => Inv
  <2>1. Init => Unannounced
    BY DEF Init, Unannounced
  <2> QED
    BY <2>1, TypeInvInit, OfferInvInit, RoundInvInit DEF OfferInv
<1>3. Inv /\ [Next]_vars => Inv'
  BY TypeInvNext, UndisturbedNext, UnannouncedNext, RoundInvNext
<1> HIDE DEF Inv
<1> QED
  BY <1>1, <1>2, <1>3, PTL DEF Spec

-----------------------------------------------------------------------------
(* How far calls are spread while nothing disturbs.                        *)
Quiet == ~headers /\ ~disturbed

Calling(k) ==
  {r \in Requests : request[r].pc = "calling" /\ request[r].candidates[1][2] = k}

(* The window of a key counts what usage has seen and what is under way.   *)
Accounted(k) ==
  /\ charged[k] = used[k] + Cardinality(Calling(k))
  /\ limit[k] > 0 => charged[k] <= limit[k]

Counted == Quiet => \A k \in Keys : Accounted(k)

SmallerShares ==
  policy = "smart" /\ (\A k \in Keys : budget[k] = 0) =>
    \A k, l \in Keys : charged[k] > 0 => Share(charged[k] - 1, k) <= Share(charged[l], l)

NoMoreThanInFlight ==
  policy = "least_used" =>
    \A k, l \in Keys : Room(l) => charged[k] <= charged[l] + Cardinality(Requests)

LEMMA SpreadParts == SpreadBounded <=> (Quiet => SmallerShares /\ NoMoreThanInFlight)
BY DEF SpreadBounded, Quiet, SmallerShares, NoMoreThanInFlight

SpreadInv == Undisturbed /\ Unannounced /\ Counted /\ SpreadBounded

LEMMA QuotientOfProduct ==
  ASSUME NEW x \in Int, NEW z \in Nat \ {0}
  PROVE  (x * z) \div z = x
<1> DEFINE a == x * z
           d == a \div z
           w == x - d
<1>1. a \in Int
  OBVIOUS
<1>2. a = z * d + (a % z) /\ d \in Int /\ a % z \in 0..(z - 1)
  <2> HIDE DEF a
  <2> QED
    BY <1>1
<1>3. z * w = a % z
  <2>1. z * x = a
    OBVIOUS
  <2>2. w = x - d
    OBVIOUS
  <2> HIDE DEF a, d, w
  <2>3. z * w = z * x - z * d
    BY <1>2, <2>2
  <2> QED
    BY <1>1, <1>2, <2>1, <2>3
<1>4. w \in Int
  BY <1>2
<1> HIDE DEF a, d, w
<1>5. CASE w >= 1
  BY <1>2, <1>3, <1>4, <1>5
<1>6. CASE w <= -1
  BY <1>2, <1>3, <1>4, <1>6
<1>7. CASE w = 0
  BY <1>2, <1>7 DEF w, d, a
<1> QED
  BY <1>4, <1>5, <1>6, <1>7

(* All windows divide the unit, so that fractions of them are exact.       *)
LEMMA FractionOfWindow ==
  ASSUME NEW whole \in 1..MaxWindow
  PROVE  \E part \in Nat \ {0} :
           /\ Unit = whole * part
           /\ \A x \in Int : Fraction(x, whole) = x * part
<1> DEFINE q == Unit \div whole
<1>1. whole \in Nat \ {0} /\ Unit \in Nat \ {0} /\ Unit % whole = 0
  <2>1. Unit % whole = 0
    BY KeySelectionConstants
  <2>2. MaxWindow \in Nat /\ Unit \in Nat \ {0}
    BY ConstantsTyped
  <2>3. whole \in Nat \ {0}
    BY <2>2
  <2> QED
    BY <2>1, <2>2, <2>3
<1>2. q \in Int /\ Unit = whole * q
  <2>1. Unit = whole * (Unit \div whole) + (Unit % whole) /\ Unit \div whole \in Int
    BY <1>1
  <2>2. whole * q \in Int /\ q \in Int
    BY <1>1, <2>1
  <2> QED
    BY <1>1, <2>1, <2>2
<1> HIDE DEF q
<1>3. q \in Nat \ {0}
  <2>1. CASE q <= 0
    BY <1>1, <1>2, <2>1
  <2> QED
    BY <1>2, <2>1
<1>4. ASSUME NEW x \in Int PROVE Fraction(x, whole) = x * q
  <2>1. x * Unit = (x * q) * whole
    BY <1>1, <1>2, <1>3
  <2>2. x * q \in Int
    BY <1>3
  <2>3. ((x * q) * whole) \div whole = x * q
    BY <1>1, <2>2, QuotientOfProduct
  <2> QED
    BY <2>1, <2>3 DEF Fraction
<1> QED
  BY <1>2, <1>3, <1>4

LEMMA ShareTyped ==
  ASSUME TypeOK, NEW k \in Keys, NEW x \in Nat
  PROVE  /\ Share(x, k) \in Nat
         /\ \A y \in Nat : x <= y => Share(x, k) <= Share(y, k)
         /\ limit[k] > 0 =>
              /\ Share(limit[k], k) = Unit
              /\ x <= limit[k] => /\ Share(x, k) <= Unit
                                  /\ Fraction(limit[k] - x, limit[k]) = Unit - Share(x, k)
<1>1. limit[k] \in 0..MaxWindow /\ MaxWindow \in Nat /\ Unit \in Nat
  BY ConstantsTyped DEF TypeOK
<1>2. CASE limit[k] = 0
  BY <1>1, <1>2 DEF Share
<1>3. CASE limit[k] > 0
  <2> DEFINE whole == limit[k]
  <2>1. whole \in 1..MaxWindow /\ whole \in Nat \ {0}
    BY <1>1, <1>3
  <2>2. \A y : Share(y, k) = Fraction(y, whole)
    BY <1>3 DEF Share
  <2> HIDE DEF whole
  <2>3. PICK part \in Nat \ {0} : /\ Unit = whole * part
                                  /\ \A y \in Int : Fraction(y, whole) = y * part
    BY <2>1, FractionOfWindow
  <2>4. \A y \in Nat : Share(y, k) = y * part
    BY <2>2, <2>3
  <2>5. ASSUME NEW y \in Nat, NEW z \in Nat, y <= z PROVE y * part <= z * part
    <3>1. PICK d \in Nat : z = y + d
      <4>1. z - y \in Nat /\ z = y + (z - y)
        BY <2>5
      <4> QED
        BY <4>1
    <3>2. z * part = y * part + d * part
      BY <3>1, <2>3
    <3>3. y * part \in Nat /\ d * part \in Nat
      BY <2>3
    <3> QED
      BY <3>2, <3>3
  <2>6. x * part \in Nat /\ Share(x, k) = x * part
    BY <2>3, <2>4
  <2>7. \A y \in Nat : x <= y => Share(x, k) <= Share(y, k)
    BY <2>4, <2>5
  <2>8. Share(whole, k) = Unit
    BY <2>1, <2>3, <2>4
  <2>9. ASSUME x <= whole
        PROVE  Share(x, k) <= Unit /\ Fraction(whole - x, whole) = Unit - Share(x, k)
    <3>1. Share(x, k) <= Unit
      BY <2>1, <2>7, <2>8, <2>9
    <3>2. Fraction(whole - x, whole) = (whole - x) * part
      BY <2>1, <2>3
    <3>3. (whole - x) * part = whole * part - x * part
      BY <2>1, <2>3
    <3> QED
      BY <2>3, <2>6, <3>1, <3>2, <3>3
  <2> QED
    BY <2>6, <2>7, <2>8, <2>9 DEF whole
<1> QED
  BY <1>1, <1>2, <1>3

(* Where only the request window counts, what it leaves is the headroom.   *)
LEMMA HeadroomOfWindow ==
  ASSUME TypeOK, NEW k \in Keys, remaining[k] = Unknown, budget[k] = 0,
         limit[k] > 0 => charged[k] <= limit[k]
  PROVE  Headroom(k) = Unit - Share(charged[k], k) /\ Share(charged[k], k) \in 0..Unit
<1>1. charged[k] \in Nat /\ limit[k] \in Nat /\ Unit \in Nat
  BY ConstantsTyped DEF TypeOK
<1>2. CASE limit[k] = 0
  BY <1>1, <1>2, HeadroomOfNone DEF Share
<1>3. CASE limit[k] > 0
  <2> DEFINE share == Share(charged[k], k)
  <2>1. /\ share \in Nat /\ share <= Unit
        /\ Fraction(limit[k] - charged[k], limit[k]) = Unit - share
    BY <1>1, <1>3, ShareTyped
  <2>2. Windows(k) = {Unit, Unit - share}
    BY <1>3, <2>1 DEF Windows, RequestWindow, TokenWindow, Upstream
  <2> HIDE DEF share
  <2>3. /\ Min(Windows(k)) \in Windows(k)
        /\ \A y \in Windows(k) : Min(Windows(k)) <= y
    BY WindowsTyped, MinIsLeast
  <2>4. Min(Windows(k)) = Unit - share
    BY <1>1, <2>1, <2>2, <2>3
  <2>5. Headroom(k) = Unit - share
    BY <1>1, <2>1, <2>4, HeadroomTyped
  <2> QED
    BY <1>1, <2>1, <2>5 DEF share
<1> QED
  BY <1>1, <1>2, <1>3

(* What the first key of a list has over the others.                       *)
LEMMA FirstChoice ==
  ASSUME TypeOK, Undisturbed, Unannounced, Counted, Quiet, Resolution # <<>>, NEW l \in Keys
  PROVE  /\ Resolution[1][2] \in Keys /\ Room(Resolution[1][2])
         /\ policy = "smart" /\ (\A k \in Keys : budget[k] = 0) =>
              Share(charged[Resolution[1][2]], Resolution[1][2]) <= Share(charged[l], l)
         /\ policy = "least_used" => (Room(l) => used[Resolution[1][2]] <= used[l])
<1>1. PICK i \in 1..N : /\ Resolution[1][2] = OrderKeys(cursor)[i]
                        /\ Available(OrderKeys(cursor)[i])
                        /\ \A j \in 1..N : j < i => ~Available(OrderKeys(cursor)[j])
  BY ResolutionLists
<1>2. PICK key : key = Resolution[1][2]
  OBVIOUS
<1>3. cursor \in Nat /\ N \in Nat \ {0}
  BY ConstantsTyped DEF TypeOK
<1>4. IsOrder(OrderKeys(cursor))
  BY <1>3, OrderKeysIsOrder
<1>5. key = OrderKeys(cursor)[i] /\ key \in Keys /\ Room(key)
  BY <1>1, <1>2, <1>4 DEF IsOrder, Available
<1>6. /\ blocked = {} /\ \A k \in Keys : remaining[k] = Unknown
      /\ \A k \in Keys : limit[k] > 0 => charged[k] <= limit[k]
  BY DEF Undisturbed, Unannounced, Counted, Accounted, Quiet
<1>7. /\ charged[key] \in Nat /\ charged[l] \in Nat /\ used[key] \in Nat /\ used[l] \in Nat
      /\ limit[l] \in Nat /\ budget[l] \in Nat
  BY <1>5 DEF TypeOK
<1>8. PICK j \in 1..N : OrderKeys(cursor)[j] = l
  BY <1>4 DEF IsOrder
<1>9. Room(l) => key = l \/ (i < j /\ N > 1)
  <2>1. ASSUME Room(l), key # l PROVE i < j /\ N > 1
    <3>1. ~(j < i) /\ j # i
      BY <1>1, <1>5, <1>6, <1>8, <2>1 DEF Available
    <3> QED
      BY <1>3, <3>1
  <2> QED
    BY <2>1
<1>10. ASSUME policy = "smart", \A k \in Keys : budget[k] = 0
       PROVE  Share(charged[key], key) <= Share(charged[l], l)
  <2> DEFINE here == Share(charged[key], key)
             there == Share(charged[l], l)
  <2>1. /\ Headroom(key) = Unit - here /\ here \in 0..Unit
        /\ Headroom(l) = Unit - there /\ there \in 0..Unit
    BY <1>5, <1>6, <1>10, HeadroomOfWindow
  <2>2. Unit \in Nat
    BY ConstantsTyped
  <2>3. CASE ~Room(l)
    <3>1. limit[l] > 0 /\ charged[l] = limit[l]
      BY <1>6, <1>7, <1>10, <2>3 DEF Room
    <3>2. there = Unit
      BY <1>7, <3>1, ShareTyped
    <3> HIDE DEF here, there
    <3> QED
      BY <2>1, <2>2, <3>2 DEF here, there
  <2>4. CASE key = l
    <3>1. here = there
      BY <2>4
    <3> HIDE DEF here, there
    <3> QED
      BY <2>1, <2>2, <3>1 DEF here, there
  <2>5. CASE i < j /\ N > 1
    <3>1. Headroom(key) >= Headroom(l)
      BY <1>3, <1>5, <1>8, <1>10, <2>5, OrderKeysIsOrder
    <3> HIDE DEF here, there
    <3> QED
      BY <2>1, <2>2, <3>1 DEF here, there
  <2> QED
    BY <1>9, <2>3, <2>4, <2>5
<1>11. ASSUME policy = "least_used", Room(l) PROVE used[key] <= used[l]
  <2>1. CASE key = l
    BY <1>7, <2>1
  <2>2. CASE i < j /\ N > 1
    BY <1>3, <1>5, <1>8, <1>11, <2>2, OrderKeysIsOrder
  <2> QED
    BY <1>9, <1>11, <2>1, <2>2
<1> QED
  BY <1>2, <1>5, <1>10, <1>11

LEMMA CallingFinite ==
  ASSUME NEW k
  PROVE  /\ IsFiniteSet(Calling(k)) /\ Cardinality(Calling(k)) \in Nat
         /\ Cardinality(Calling(k)) <= Cardinality(Requests)
         /\ Cardinality(Requests) \in Nat
<1>1. IsFiniteSet(Requests) /\ Calling(k) \in SUBSET Requests
  BY ConstantsTyped DEF Calling
<1>2. IsFiniteSet(Calling(k)) /\ Cardinality(Calling(k)) <= Cardinality(Requests)
  BY <1>1, FS_Subset
<1> QED
  BY <1>1, <1>2, FS_CardinalityType

LEMMA CallsStart ==
  ASSUME NEW r \in Requests, NEW key, request[r].pc # "calling",
         request'[r].pc = "calling", request'[r].candidates[1][2] = key,
         \A s \in Requests : s # r => request'[s] = request[s]
  PROVE  /\ Cardinality(Calling(key)') = Cardinality(Calling(key)) + 1
         /\ \A k : k # key => Cardinality(Calling(k)') = Cardinality(Calling(k))
<1>1. Calling(key)' = Calling(key) \union {r} /\ r \notin Calling(key)
  BY DEF Calling
<1>2. \A k : k # key => Calling(k)' = Calling(k)
  BY DEF Calling
<1>3. Cardinality(Calling(key) \union {r}) = Cardinality(Calling(key)) + 1
  BY <1>1, CallingFinite, FS_AddElement
<1> QED
  BY <1>1, <1>2, <1>3

LEMMA CallsEnd ==
  ASSUME NEW r \in Requests, NEW key, request[r].pc = "calling",
         request[r].candidates[1][2] = key, request'[r].pc # "calling",
         \A s \in Requests : s # r => request'[s] = request[s]
  PROVE  /\ Cardinality(Calling(key)') = Cardinality(Calling(key)) - 1
         /\ \A k : k # key => Cardinality(Calling(k)') = Cardinality(Calling(k))
<1>1. Calling(key)' = Calling(key) \ {r} /\ r \in Calling(key)
  BY DEF Calling
<1>2. \A k : k # key => Calling(k)' = Calling(k)
  BY DEF Calling
<1>3. Cardinality(Calling(key) \ {r}) = Cardinality(Calling(key)) - 1
  <2> DEFINE calls == Calling(key)
  <2>1. IsFiniteSet(calls) /\ r \in calls
    BY <1>1, CallingFinite
  <2> HIDE DEF calls
  <2>2. Cardinality(calls \ {r}) = Cardinality(calls) - 1
    BY ONLY <2>1, FS_RemoveElement
  <2> QED
    BY <2>2 DEF calls
<1> QED
  BY <1>1, <1>2, <1>3

(* A step of a request that arrives.                                       *)
LEMMA ArriveSpreads ==
  ASSUME TypeInv, SpreadInv, NEW r \in Requests, Arrive(r), Quiet, [Next]_vars
  PROVE  /\ \A k \in Keys : Accounted(k)'
         /\ SmallerShares' /\ NoMoreThanInFlight'
<1> DEFINE list == Resolution
           n == Cardinality(Requests)
<1>0. PICK key : key = list[1][2]
  OBVIOUS
<1>1. /\ TypeOK /\ list # <<>> /\ list \in Seq(Candidate)
      /\ 1 \in 1..MaxAttempts /\ Try(r, list, 1)
      /\ UNCHANGED <<used, remaining>> /\ request[r].pc = "idle"
  BY ArriveMoves DEF TypeInv, Arrive
<1>2. Undisturbed /\ Unannounced /\ Counted /\ SmallerShares /\ NoMoreThanInFlight
  BY SpreadParts DEF SpreadInv
<1>3. \A l \in Keys :
        /\ key \in Keys /\ Room(key)
        /\ policy = "smart" /\ (\A k \in Keys : budget[k] = 0) =>
             Share(charged[key], key) <= Share(charged[l], l)
        /\ policy = "least_used" => (Room(l) => used[key] <= used[l])
  BY <1>0, <1>1, <1>2, FirstChoice
<1>4. /\ key \in Keys /\ charged' \in [Keys -> Nat]
      /\ charged'[key] = charged[key] + 1
      /\ \A k \in Keys : k # key => charged'[k] = charged[k]
      /\ request'[r].pc = "calling" /\ request'[r].candidates[1][2] = key
      /\ \A s \in Requests : s # r => request'[s] = request[s]
  <2> HIDE DEF list
  <2> QED
    BY <1>0, <1>1, TryMoves
<1> HIDE DEF list
<1>5. /\ Cardinality(Calling(key)') = Cardinality(Calling(key)) + 1
      /\ \A k : k # key => Cardinality(Calling(k)') = Cardinality(Calling(k))
  BY <1>1, <1>4, CallsStart
<1>6. charged \in [Keys -> Nat] /\ used \in [Keys -> Nat] /\ limit \in [Keys -> 0..MaxWindow]
  BY <1>1 DEF TypeOK
<1>7. \A k \in Keys : Accounted(k)
  BY <1>2 DEF Counted
<1>8. \A k : Cardinality(Calling(k)) \in Nat
  BY CallingFinite
<1>9. /\ UNCHANGED <<policy, limit, budget>>
      /\ \A k \in Keys : charged[k] <= charged'[k] /\ (Room(k)' => Room(k))
  BY WindowsFill
<1>10. ASSUME NEW k \in Keys PROVE Accounted(k)'
  <2> DEFINE calls == Cardinality(Calling(k))
             later == Cardinality(Calling(k)')
  <2>1. /\ charged[k] = used[k] + calls /\ (limit[k] > 0 => charged[k] <= limit[k])
        /\ calls \in Nat /\ used[k] \in Nat /\ limit[k] \in Nat /\ charged[k] \in Nat
        /\ used'[k] = used[k] /\ limit'[k] = limit[k]
    BY <1>1, <1>6, <1>7, <1>8, <1>9 DEF Accounted
  <2>2. CASE k = key
    <3>1. limit[k] > 0 => charged[k] < limit[k]
      BY <1>3, <2>2 DEF Room
    <3>2. later = calls + 1 /\ charged'[k] = charged[k] + 1
      BY <1>4, <1>5, <2>2
    <3> HIDE DEF calls, later
    <3>3. charged'[k] = used'[k] + later /\ (limit'[k] > 0 => charged'[k] <= limit'[k])
      BY <2>1, <3>1, <3>2
    <3> QED
      BY <3>3 DEF Accounted, later
  <2>3. CASE k # key
    <3>1. later = calls /\ charged'[k] = charged[k]
      BY <1>4, <1>5, <2>3
    <3> HIDE DEF calls, later
    <3>2. charged'[k] = used'[k] + later /\ (limit'[k] > 0 => charged'[k] <= limit'[k])
      BY <2>1, <3>1
    <3> QED
      BY <3>2 DEF Accounted, later
  <2> QED
    BY <2>2, <2>3
<1>11. SmallerShares'
  <2> SUFFICES ASSUME policy = "smart", \A k \in Keys : budget[k] = 0,
                      NEW k \in Keys, NEW l \in Keys, charged'[k] > 0
               PROVE  Share(charged[k] - 1, k)' <= Share(charged[l], l)'
    BY <1>9 DEF SmallerShares
  <2>2. /\ Share(charged[k] - 1, k)' = Share(charged'[k] - 1, k)
        /\ Share(charged[l], l)' = Share(charged'[l], l)
    BY <1>9 DEF Share, Fraction
  <2>3. /\ charged[k] \in Nat /\ charged[l] \in Nat /\ charged'[k] \in Nat
        /\ charged'[l] \in Nat /\ charged[l] <= charged'[l]
    BY <1>4, <1>6, <1>9
  <2>4. Share(charged[l], l) <= Share(charged'[l], l)
    BY <1>1, <2>3, ShareTyped
  <2>5. Share(charged'[k] - 1, k) <= Share(charged[l], l)
    <3>1. CASE k = key
      <4>1. charged'[k] - 1 = charged[key]
        BY <1>4, <2>3, <3>1
      <4> QED
        BY <1>3, <3>1, <4>1
    <3>2. CASE k # key
      <4>1. charged'[k] = charged[k]
        BY <1>4, <3>2
      <4> QED
        BY <1>2, <4>1 DEF SmallerShares
    <3> QED
      BY <3>1, <3>2
  <2>6. /\ Share(charged'[k] - 1, k) \in Nat /\ Share(charged[l], l) \in Nat
        /\ Share(charged'[l], l) \in Nat
    <3>1. charged'[k] - 1 \in Nat
      BY <2>3
    <3> QED
      BY <1>1, <2>3, <3>1, ShareTyped
  <2> QED
    BY <2>2, <2>4, <2>5, <2>6
<1>12. NoMoreThanInFlight'
  <2> SUFFICES ASSUME policy = "least_used", NEW k \in Keys, NEW l \in Keys, Room(l)'
               PROVE  charged'[k] <= charged'[l] + n
    BY <1>9 DEF NoMoreThanInFlight
  <2>1. Room(l) /\ charged[l] <= charged'[l] /\ n \in Nat
    BY <1>9, CallingFinite
  <2>2. /\ charged[k] \in Nat /\ charged[l] \in Nat /\ charged'[k] \in Nat
        /\ charged'[l] \in Nat /\ used[k] \in Nat /\ used[l] \in Nat
    BY <1>4, <1>6
  <2>3. CASE k = key
    <3> DEFINE later == Cardinality(Calling(k)')
               calls == Cardinality(Calling(l))
    <3>1. later <= n /\ later \in Nat
      <4>1. IsFiniteSet(Requests) /\ Calling(k)' \in SUBSET Requests
        BY ConstantsTyped DEF Calling
      <4> QED
        BY <4>1, FS_Subset, FS_CardinalityType
    <3>2. charged'[k] = used[k] + later
      BY <1>1, <1>10 DEF Accounted
    <3>3. charged[l] = used[l] + calls /\ calls \in Nat
      BY <1>7, <1>8 DEF Accounted
    <3>4. used[k] <= used[l]
      BY <1>3, <2>1, <2>3
    <3> HIDE DEF later, calls, n
    <3> QED
      BY <2>1, <2>2, <3>1, <3>2, <3>3, <3>4
  <2>4. CASE k # key
    <3>1. charged'[k] = charged[k] /\ charged[k] <= charged[l] + n
      BY <1>2, <1>4, <2>1, <2>4 DEF NoMoreThanInFlight
    <3> HIDE DEF n
    <3> QED
      BY <2>1, <2>2, <3>1
  <2> QED
    BY <2>3, <2>4
<1> QED
  BY <1>10, <1>11, <1>12

(* A step that charges nothing and settles no account.                     *)
LEMMA SpreadKept ==
  ASSUME TypeInv, [Next]_vars, SmallerShares, NoMoreThanInFlight, UNCHANGED charged
  PROVE  SmallerShares' /\ NoMoreThanInFlight'
<1>1. UNCHANGED <<policy, limit, budget>> /\ \A k \in Keys : Room(k)' => Room(k)
  BY WindowsFill
<1>2. SmallerShares'
  BY <1>1 DEF SmallerShares, Share, Fraction
<1>3. NoMoreThanInFlight'
  BY <1>1 DEF NoMoreThanInFlight
<1> QED
  BY <1>2, <1>3

LEMMA SpreadInvNext == TypeInv /\ SpreadInv /\ [Next]_vars => SpreadInv'
<1> SUFFICES ASSUME TypeInv, SpreadInv, [Next]_vars PROVE SpreadInv'
  OBVIOUS
<1>0. /\ TypeOK /\ Undisturbed /\ Unannounced /\ Counted
      /\ Quiet => SmallerShares /\ NoMoreThanInFlight
  BY SpreadParts DEF TypeInv, SpreadInv
<1>1. Undisturbed' /\ Unannounced'
  BY <1>0, UndisturbedNext, UnannouncedNext
<1>2. UNCHANGED <<policy, headers, disturbed, limit, budget>>
  BY WindowsFill
<1> DEFINE Goal == (\A k \in Keys : Accounted(k)') /\ SmallerShares' /\ NoMoreThanInFlight'
<1>3. SUFFICES ASSUME Quiet PROVE Goal
  <2>1. Quiet' <=> Quiet
    BY <1>2 DEF Quiet
  <2>2. Quiet => Goal
    BY <1>3
  <2>3. Counted'
    BY <2>1, <2>2 DEF Counted
  <2>4. SpreadBounded' <=> (Quiet' => SmallerShares' /\ NoMoreThanInFlight')
    BY DEF SpreadBounded, Quiet, SmallerShares, NoMoreThanInFlight
  <2> QED
    BY <1>1, <2>1, <2>2, <2>3, <2>4 DEF SpreadInv
<1>4. /\ ~disturbed /\ ~headers /\ \A r \in Requests : request[r].pc # "backoff"
      /\ \A k \in Keys : remaining[k] = Unknown
  BY <1>0, <1>3 DEF Undisturbed, Unannounced, Quiet
<1>5. (\A k \in Keys : Accounted(k)) /\ SmallerShares /\ NoMoreThanInFlight
  BY <1>0, <1>3 DEF Counted
<1>6. ASSUME NEW r \in Requests, Arrive(r) PROVE Goal
  BY <1>3, <1>6, ArriveSpreads
<1>7. ASSUME NEW r \in Requests, Answer(r) PROVE Goal
  <2>0. PICK key : key = request[r].candidates[1][2]
    OBVIOUS
  <2>1. ComeBack(r) /\ UNCHANGED charged
    BY <1>7 DEF Answer
  <2>2. /\ request[r].pc = "calling" /\ key \in Keys
        /\ used'[key] = used[key] + 1
        /\ \A k \in Keys : k # key => used'[k] = used[k]
    BY <1>0, <2>0, <2>1, ComeBackMoves
  <2>3. /\ request'[r] = Idle
        /\ \A s \in Requests : s # r => request'[s] = request[s]
    BY <1>0, <1>7, AnswerMoves
  <2>4. request'[r].pc # "calling"
    BY <2>3 DEF Idle
  <2>5. /\ Cardinality(Calling(key)') = Cardinality(Calling(key)) - 1
        /\ \A k : k # key => Cardinality(Calling(k)') = Cardinality(Calling(k))
    BY <2>0, <2>2, <2>3, <2>4, CallsEnd
  <2>6. charged[key] = used'[key] + Cardinality(Calling(key)')
    <3> DEFINE calls == Cardinality(Calling(key))
               later == Cardinality(Calling(key)')
    <3>1. /\ calls \in Nat /\ used[key] \in Nat
          /\ charged[key] = used[key] + calls /\ later = calls - 1
      BY <1>0, <1>5, <2>2, <2>5, CallingFinite DEF TypeOK, Accounted
    <3> HIDE DEF calls, later
    <3>2. charged[key] = used'[key] + later
      BY <2>2, <3>1
    <3> QED
      BY <3>2 DEF later
  <2>7. \A k \in Keys : k # key => charged[k] = used'[k] + Cardinality(Calling(k)')
    BY <1>5, <2>2, <2>5 DEF Accounted
  <2>8. \A k \in Keys : Accounted(k)'
    BY <1>2, <1>5, <2>1, <2>6, <2>7 DEF Accounted
  <2> QED
    BY <1>5, <2>1, <2>8, SpreadKept
<1>8. CASE UNCHANGED <<charged, used, request>>
  <2>1. \A k : Calling(k)' = Calling(k)
    BY <1>8 DEF Calling
  <2>2. \A k \in Keys : Accounted(k)'
    BY <1>2, <1>5, <1>8, <2>1 DEF Accounted
  <2> QED
    BY <1>5, <1>8, <2>2, SpreadKept
<1>9. ASSUME NEW r \in Requests, Refuse(r) PROVE Goal
  BY <1>8, <1>9 DEF Refuse
<1>10. ASSUME NEW r \in Requests, Fail(r) \/ Failover(r) PROVE FALSE
  BY <1>4, <1>10 DEF Fail, Failover
<1>11. ASSUME NEW k \in Keys, Reset(k) PROVE FALSE
  BY <1>4, <1>11 DEF Reset
<1>12. ASSUME Disturb PROVE FALSE
  BY <1>4, <1>12 DEF Disturb
<1>13. CASE UNCHANGED vars
  BY <1>8, <1>13 DEF vars
<1> HIDE DEF Goal
<1> QED
  BY <1>6, <1>7, <1>9, <1>10, <1>11, <1>12, <1>13 DEF Next

LEMMA SpreadInvInit == Init => SpreadInv
<1> SUFFICES ASSUME Init PROVE SpreadInv
  OBVIOUS
<1>1. Undisturbed /\ TypeOK
  BY OfferInvInit, TypeInvInit DEF OfferInv, TypeInv
<1>2. \A k : Calling(k) = {}
  BY DEF Init, Idle, Calling
<1>3. \A k \in Keys : charged[k] = 0 /\ used[k] = 0 /\ remaining[k] = Unknown
  BY DEF Init
<1>4. \A k : Cardinality(Calling(k)) = 0
  BY <1>2, FS_EmptySet
<1>5. Counted
  <2>1. \A k \in Keys : limit[k] \in Nat
    BY <1>1 DEF TypeOK
  <2> QED
    BY <1>3, <1>4, <2>1 DEF Counted, Accounted
<1>6. SpreadBounded
  <2>1. Cardinality(Requests) \in Nat
    BY CallingFinite
  <2> QED
    BY <1>3, <2>1 DEF SpreadBounded
<1>7. Unannounced
  BY <1>3 DEF Unannounced
<1> QED
  BY <1>1, <1>5, <1>6, <1>7 DEF SpreadInv

(* While nothing is ruled out and no headers come, for any number of keys  *)
(* and of concurrent requests and any request windows, of different sizes  *)
(* and missing ones included: smart selection sends a call to a key only   *)
(* when no other key has used a smaller part of its window, where no key   *)
(* has a token window; least_used lets a key get ahead of one with room by *)
(* no more calls than there are requests at once, whatever the windows.    *)
THEOREM CallsAreSpread == Spec => []SpreadBounded
<1>1. SpreadInv => SpreadBounded
  BY DEF SpreadInv
<1>2. Spec => [](TypeInv /\ SpreadInv)
  BY TypeInvInit, TypeInvNext, SpreadInvInit, SpreadInvNext, PTL DEF Spec
<1> QED
  BY <1>1, <1>2, PTL
=============================================================================
