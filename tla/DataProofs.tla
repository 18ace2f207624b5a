------------------------------ MODULE DataProofs ------------------------------
(***************************************************************************)
(* Laws of what the modules compute with: amounts and their totals, lists  *)
(* of cells, and bytes, for lists of any length and every bound.           *)
(*                                                                         *)
(* Two of the definitions recur on a list. The induction about them is     *)
(* stated with sets in place of predicates (SetInduction), and so is the   *)
(* existence of the functions that the definitions recur on                *)
(* (RecursionSolution); both follow from the fact that the natural numbers *)
(* are well-founded.                                                       *)
(***************************************************************************)
EXTENDS SudtRules, CellSequences, ByteLayout, FiniteSetTheorems,
        WellFoundedInduction, SequenceTheorems, TLAPS

------------------------------------------------------------------------------
(***************************************************************************)
(* Total, the sum of the amounts in a group of cells: it is additive, it   *)
(* depends only on the data of the cells it ranges over, and one cell adds *)
(* its amount. A total is a number of units, so this needs no induction.   *)
(***************************************************************************)
\* The units in finitely many cells are finitely many.
LEMMA UnitsFinite ==
    ASSUME NEW S, IsFiniteSet(S), NEW group
    PROVE  IsFiniteSet(Units(S, group))
<1>1. IsFiniteSet(1..MaxAmount)
    BY MaxAmountAssumption, FS_Interval
<1>2. IsFiniteSet(S \X (1..MaxAmount))
    BY <1>1, FS_Product
<1>3. Units(S, group) \in SUBSET (S \X (1..MaxAmount))
    BY DEF Units
<1> QED
    BY <1>2, <1>3, FS_Subset

\* So their number is a natural number.
LEMMA TotalType ==
    ASSUME NEW S, IsFiniteSet(S), NEW group
    PROVE  Total(S, group) \in Nat
BY UnitsFinite, FS_CardinalityType DEF Total

\* No cells hold no units.
LEMMA TotalEmpty ==
    ASSUME NEW group
    PROVE  Total({}, group) = 0
<1>1. Units({}, group) = {}
    BY DEF Units
<1> QED
    BY <1>1, FS_EmptySet DEF Total

\* Two groups that agree on a set of cells agree on its total.
LEMMA TotalSame ==
    ASSUME NEW S, NEW g, NEW h, \A c \in S : g[c] = h[c]
    PROVE  Total(S, g) = Total(S, h)
<1>1. Units(S, g) = Units(S, h)
    BY DEF Units
<1> QED
    BY <1>1 DEF Total

\* The total of disjoint sets of cells is the sum of their totals.
LEMMA TotalUnion ==
    ASSUME NEW S, NEW T, NEW group,
           IsFiniteSet(S), IsFiniteSet(T), S \cap T = {}
    PROVE  Total(S \cup T, group) = Total(S, group) + Total(T, group)
<1> DEFINE U == Units(S, group)
           V == Units(T, group)
<1>1. Units(S \cup T, group) = U \cup V
    BY DEF Units
<1>2. U \cap V = {}
    BY DEF Units
<1>3. IsFiniteSet(U) /\ IsFiniteSet(V)
    BY UnitsFinite
<1>4. Cardinality(U \cup V)
        = Cardinality(U) + Cardinality(V) - Cardinality(U \cap V)
    BY <1>3, FS_Union
<1>5. Cardinality(U \cap V) = 0
    BY <1>2, FS_EmptySet
<1>6. Cardinality(U) \in Nat /\ Cardinality(V) \in Nat
    BY <1>3, FS_CardinalityType
<1>7. /\ Total(S \cup T, group) = Cardinality(U \cup V)
      /\ Total(S, group) = Cardinality(U)
      /\ Total(T, group) = Cardinality(V)
    BY <1>1 DEF Total
<1> HIDE DEF U, V
<1> QED
    BY <1>4, <1>5, <1>6, <1>7

\* More cells never hold less.
LEMMA TotalMonotone ==
    ASSUME NEW T, IsFiniteSet(T), NEW S \in SUBSET T, NEW group
    PROVE  Total(S, group) <= Total(T, group)
<1>1. Units(S, group) \in SUBSET Units(T, group)
    BY DEF Units
<1> QED
    BY <1>1, UnitsFinite, FS_Subset DEF Total

\* A cell holds as many units as its amount.
LEMMA TotalOne ==
    ASSUME NEW c, NEW group, Amount(group[c]) \in 0..MaxAmount
    PROVE  Total({c}, group) = Amount(group[c])
<1> DEFINE a == Amount(group[c])
           f == [n \in 1..a |-> <<c, n>>]
<1>1. a \in Nat /\ a <= MaxAmount
    BY MaxAmountAssumption
<1> HIDE DEF a
<1>2. Units({c}, group) = {<<c, n>> : n \in 1..a}
    BY <1>1, MaxAmountAssumption DEF Units, a
<1>3. f \in Bijection(1..a, Units({c}, group))
    <2>1. f \in [1..a -> Units({c}, group)]
        BY <1>2
    <2>2. \A i, j \in 1..a : f[i] = f[j] => i = j
        OBVIOUS
    <2>3. \A u \in Units({c}, group) : \E n \in 1..a : f[n] = u
        BY <1>2
    <2> QED
        BY <2>1, <2>2, <2>3
        DEF Bijection, Injection, Surjection, IsInjective
<1>4. IsFiniteSet(1..a) /\ Cardinality(1..a) = a
    BY <1>1, FS_Interval
<1>5. ExistsBijection(1..a, Units({c}, group))
    BY <1>3 DEF ExistsBijection
<1>6. Cardinality(Units({c}, group)) = Cardinality(1..a)
    BY <1>4, <1>5, FS_Bijection
<1> QED
    BY <1>4, <1>6 DEF Total, a

\* An amount that is read is a u128.
LEMMA AmountType ==
    ASSUME NEW d \in Datum
    PROVE  Amount(d) \in 0..MaxAmount
BY MaxAmountAssumption DEF Datum, Amount, Decodable

\* sum_amounts over one more position: the running sum grows by its amount.
LEMMA TotalNext ==
    ASSUME NEW group, NEW n \in Nat,
           Amount(group[n + 1]) \in 0..MaxAmount
    PROVE  Total(1..(n + 1), group) = Total(1..n, group) + Amount(group[n + 1])
<1>1. 1..(n + 1) = (1..n) \cup {n + 1} /\ (1..n) \cap {n + 1} = {}
    OBVIOUS
<1>2. IsFiniteSet(1..n)
    BY FS_Interval
<1>3. IsFiniteSet({n + 1})
    BY FS_Singleton
<1>4. Total((1..n) \cup {n + 1}, group)
        = Total(1..n, group) + Total({n + 1}, group)
    BY <1>1, <1>2, <1>3, TotalUnion
<1> QED
    BY <1>1, <1>4, TotalOne

------------------------------------------------------------------------------
(***************************************************************************)
(* Induction and recursion over an interval                                *)
(***************************************************************************)
LEMMA NatWellFounded ==
    \E R : /\ IsWellFoundedOn(R, Nat)
           /\ \A x, y \in Nat : x < y => <<x, y>> \in R
<1>1. IsWellFoundedOn(OpToRel(<, Nat), Nat)
    BY NatLessThanWellFounded
<1>2. \A x, y \in Nat : x < y => <<x, y>> \in OpToRel(<, Nat)
    BY DEF OpToRel
<1> QED
    BY <1>1, <1>2

\* A set of naturals that is not empty has a least element.
LEMMA Least ==
    ASSUME NEW T, T \subseteq Nat, T # {}
    PROVE  \E x \in T : \A y \in T : x <= y
<1>1. PICK R : /\ IsWellFoundedOn(R, Nat)
               /\ \A x, y \in Nat : x < y => <<x, y>> \in R
    BY NatWellFounded
<1>2. IsWellFoundedOn(R, Nat)
    BY <1>1
<1>3. \E x \in T : \A y \in T : ~ (<<y, x>> \in R)
    BY <1>2, WFMin
<1>4. \A x, y \in T : ~ (<<y, x>> \in R) => x <= y
    BY <1>1
<1> QED
    BY <1>3, <1>4

LEMMA SetInduction ==
    ASSUME NEW n \in Nat, NEW T,
           0 \in T,
           \A i \in 0..(n - 1) : i \in T => i + 1 \in T
    PROVE  \A i \in 0..n : i \in T
<1> DEFINE Bad == {i \in 0..n : i \notin T}
<1> SUFFICES ASSUME Bad # {}
             PROVE  FALSE
    OBVIOUS
<1>1. PICK i \in Bad : \A j \in Bad : i <= j
    <2>1. Bad \subseteq Nat
        OBVIOUS
    <2> HIDE DEF Bad
    <2> QED
        BY <2>1, Least
<1> QED
    BY <1>1

\* F[i] is the step that a recursion makes at i; g is the function that
\* starts with base and makes all of them.
Steps(F, n, T) == \A x \in T, i \in 1..n : F[i][x] \in T

Solves(g, F, n, base) ==
    /\ g[0] = base
    /\ \A i \in 1..n : g[i] = F[i][g[i - 1]]

LEMMA RecursionSolution ==
    ASSUME NEW n \in Nat, NEW T, NEW base \in T, NEW F, Steps(F, n, T)
    PROVE  \E g \in [0..n -> T] : Solves(g, F, n, base)
<1> USE DEF Steps, Solves
<1> DEFINE S == {m \in Nat : \E g \in [0..m -> T] : Solves(g, F, m, base)}
<1>1. 0 \in S
    <2> DEFINE g == [i \in 0..0 |-> base]
    <2>1. g \in [0..0 -> T]
        OBVIOUS
    <2>2. Solves(g, F, 0, base)
        OBVIOUS
    <2> QED
        BY <2>1, <2>2
<1>2. ASSUME NEW m \in 0..(n - 1), m \in S
      PROVE  m + 1 \in S
    <2>1. PICK g \in [0..m -> T] : Solves(g, F, m, base)
        BY <1>2
    <2> DEFINE h == [i \in 0..(m + 1) |->
                        IF i = m + 1 THEN F[m + 1][g[m]] ELSE g[i]]
    <2>2. h \in [0..(m + 1) -> T]
        OBVIOUS
    <2>3. h[0] = base
        BY <2>1
    <2>4. \A i \in 1..(m + 1) : h[i] = F[i][h[i - 1]]
        BY <2>1
    <2>5. m + 1 \in Nat
        OBVIOUS
    <2> QED
        BY <2>2, <2>3, <2>4, <2>5
<1>3. n \in S
    <2>1. \A i \in 0..(n - 1) : i \in S => i + 1 \in S
        BY <1>2
    <2>2. n \in 0..n
        OBVIOUS
    <2> HIDE DEF S
    <2> QED
        BY <1>1, <2>1, <2>2, SetInduction
<1> QED
    BY <1>3

------------------------------------------------------------------------------
(***************************************************************************)
(* Capacity                                                                *)
(***************************************************************************)
\* What a list of cells is made of here: cells whose capacity is a number.
WithCapacity(S) == \A c \in S : c.capacity \in Nat

IsSum(s, g) ==
    g = [i \in 0..Len(s) |-> IF i = 0 THEN 0 ELSE g[i - 1] + s[i].capacity]

RunningSum(g, s) ==
    /\ g \in [0..Len(s) -> Nat]
    /\ g[0] = 0
    /\ \A i \in 1..Len(s) : g[i] = g[i - 1] + s[i].capacity

\* Capacity is the last of the running sums of a list.
LEMMA CapacitySums ==
    ASSUME NEW S, WithCapacity(S), NEW s \in Seq(S)
    PROVE  \E g : RunningSum(g, s) /\ Capacity(s) = g[Len(s)]
<1> DEFINE n == Len(s)
           F == [i \in 1..n |-> [x \in Nat |-> x + s[i].capacity]]
<1>1. n \in Nat /\ 0 \in Nat /\ \A i \in 1..n : s[i].capacity \in Nat
    BY DEF WithCapacity
<1>2. \A x \in Nat, i \in 1..n :
         F[i][x] = x + s[i].capacity /\ F[i][x] \in Nat
    BY <1>1
<1>3. PICK g \in [0..n -> Nat] : Solves(g, F, n, 0)
    <2>1. Steps(F, n, Nat)
        BY <1>2 DEF Steps
    <2> HIDE DEF n, F
    <2> QED
        BY <1>1, <2>1, RecursionSolution
<1>4. g[0] = 0 /\ \A i \in 1..n : g[i] = g[i - 1] + s[i].capacity
    <2>1. ASSUME NEW i \in 1..n
          PROVE  g[i] = g[i - 1] + s[i].capacity
        <3>1. g[i - 1] \in Nat
            BY <1>1
        <3>2. g[i] = F[i][g[i - 1]]
            BY <1>3 DEF Solves
        <3> HIDE DEF F, n
        <3> QED
            BY <1>2, <3>1, <3>2
    <2> QED
        BY <1>3, <2>1 DEF Solves
<1>5. IsSum(s, g)
    BY <1>1, <1>4 DEF IsSum
<1> DEFINE f == CHOOSE f : IsSum(s, f)
<1>6. IsSum(s, f) /\ Capacity(s) = f[n]
    BY <1>5 DEF Capacity, IsSum
<1> HIDE DEF f, F
<1>7. \A i \in 0..n : f[i] = g[i]
    <2> DEFINE T == {i \in 0..n : f[i] = g[i]}
    <2>1. 0 \in T
        BY <1>1, <1>4, <1>6 DEF IsSum
    <2>2. ASSUME NEW i \in 0..(n - 1), i \in T
          PROVE  i + 1 \in T
        <3>1. i + 1 \in 1..n /\ (i + 1) - 1 = i /\ i + 1 \in 0..n
            BY <1>1
        <3>2. f[i + 1] = IF i + 1 = 0 THEN 0
                         ELSE f[(i + 1) - 1] + s[i + 1].capacity
            BY <1>6, <3>1 DEF IsSum
        <3> HIDE DEF n
        <3>3. f[i + 1] = f[i] + s[i + 1].capacity
            BY <3>1, <3>2
        <3>4. g[i + 1] = g[i] + s[i + 1].capacity
            BY <1>4, <3>1
        <3> QED
            BY <2>2, <3>1, <3>3, <3>4
    <2>3. \A i \in 0..n : i \in T
        <3> HIDE DEF T, n
        <3> QED
            BY <1>1, <2>1, <2>2, SetInduction
    <2> QED
        BY <2>3
<1> QED
    BY <1>1, <1>4, <1>6, <1>7 DEF RunningSum

LEMMA CapacityType ==
    ASSUME NEW S, WithCapacity(S), NEW s \in Seq(S)
    PROVE  Capacity(s) \in Nat
BY CapacitySums DEF RunningSum

LEMMA CapacityEmpty == Capacity(<<>>) = 0
<1>1. WithCapacity({}) /\ <<>> \in Seq({}) /\ Len(<<>>) = 0
    BY DEF WithCapacity
<1> QED
    BY <1>1, CapacitySums DEF RunningSum

LEMMA CapacityOne ==
    ASSUME NEW c, c.capacity \in Nat
    PROVE  Capacity(<<c>>) = c.capacity
<1>1. WithCapacity({c}) /\ <<c>> \in Seq({c})
    BY DEF WithCapacity
<1>2. PICK g : RunningSum(g, <<c>>) /\ Capacity(<<c>>) = g[Len(<<c>>)]
    BY <1>1, CapacitySums
<1>3. Len(<<c>>) = 1 /\ <<c>>[1] = c
    OBVIOUS
<1>4. g[0] = 0 /\ g[1] = g[1 - 1] + <<c>>[1].capacity
    BY <1>2, <1>3 DEF RunningSum
<1> QED
    BY <1>2, <1>3, <1>4

LEMMA CapacityConcat ==
    ASSUME NEW S, WithCapacity(S), NEW s \in Seq(S), NEW t \in Seq(S)
    PROVE  Capacity(s \o t) = Capacity(s) + Capacity(t)
<1> DEFINE m == Len(s)
           n == Len(t)
           st == s \o t
<1>1. /\ m \in Nat /\ n \in Nat /\ st \in Seq(S) /\ Len(st) = m + n
      /\ \A i \in 1..m : st[i] = s[i]
      /\ \A i \in 1..n : st[m + i] = t[i]
    OBVIOUS
<1>2. PICK g : RunningSum(g, s) /\ Capacity(s) = g[m]
    BY CapacitySums
<1>3. PICK h : RunningSum(h, t) /\ Capacity(t) = h[n]
    BY CapacitySums
<1>4. PICK f : RunningSum(f, st) /\ Capacity(st) = f[Len(st)]
    BY <1>1, CapacitySums
<1>5. /\ g[0] = 0 /\ \A i \in 1..m : g[i] = g[i - 1] + s[i].capacity
      /\ h[0] = 0 /\ \A i \in 1..n : h[i] = h[i - 1] + t[i].capacity
      /\ f[0] = 0 /\ \A i \in 1..(m + n) : f[i] = f[i - 1] + st[i].capacity
      /\ g \in [0..m -> Nat] /\ h \in [0..n -> Nat] /\ f \in [0..(m + n) -> Nat]
    BY <1>1, <1>2, <1>3, <1>4 DEF RunningSum
<1> HIDE DEF m, n, st
<1> m \in Nat /\ n \in Nat
    BY <1>1
<1>6. f[m] = g[m]
    <2> DEFINE T == {i \in 0..m : f[i] = g[i]}
    <2>1. 0 \in T
        BY <1>1, <1>5
    <2>2. ASSUME NEW i \in 0..(m - 1), i \in T
          PROVE  i + 1 \in T
        <3>1. /\ i + 1 \in 1..m /\ i + 1 \in 1..(m + n) /\ (i + 1) - 1 = i
              /\ i + 1 \in 0..m
            BY <1>1
        <3>2. g[i + 1] = g[i] + s[i + 1].capacity
            BY <1>5, <3>1
        <3>3. f[i + 1] = f[i] + s[i + 1].capacity
            BY <1>1, <1>5, <3>1
        <3> QED
            BY <2>2, <3>1, <3>2, <3>3
    <2> HIDE DEF T
    <2>3. \A i \in 0..m : i \in T
        BY <1>1, <2>1, <2>2, SetInduction
    <2> QED
        BY <1>1, <2>3 DEF T
<1>7. f[m + n] = g[m] + h[n]
    <2> DEFINE T == {i \in 0..n : f[m + i] = g[m] + h[i]}
    <2>1. 0 \in T
        BY <1>1, <1>5, <1>6
    <2>2. ASSUME NEW i \in 0..(n - 1), i \in T
          PROVE  i + 1 \in T
        <3>1. /\ i + 1 \in 1..n /\ (i + 1) - 1 = i /\ i + 1 \in 0..n
              /\ m + (i + 1) \in 1..(m + n)
              /\ (m + (i + 1)) - 1 = m + i
            OBVIOUS
        <3>2. h[i + 1] = h[i] + t[i + 1].capacity
            BY <1>5, <3>1
        <3>3. f[m + (i + 1)] = f[m + i] + t[i + 1].capacity
            BY <1>1, <1>5, <3>1
        <3>4. h[i] \in Nat /\ h[i + 1] \in Nat /\ g[m] \in Nat
            BY <1>5, <3>1
        <3>5. t[i + 1].capacity \in Nat
            <4>1. t[i + 1] \in S
                BY <3>1 DEF n
            <4> QED
                BY <4>1 DEF WithCapacity
        <3>6. f[m + i] = g[m] + h[i]
            BY <2>2
        <3>7. f[m + (i + 1)] = g[m] + h[i + 1]
            BY <3>2, <3>3, <3>4, <3>5, <3>6
        <3> QED
            BY <3>1, <3>7
    <2> HIDE DEF T
    <2>3. \A i \in 0..n : i \in T
        BY <1>1, <2>1, <2>2, SetInduction
    <2> QED
        BY <1>1, <2>3 DEF T
<1> QED
    BY <1>1, <1>2, <1>3, <1>4, <1>7 DEF st

LEMMA CapacityTwo ==
    ASSUME NEW c, c.capacity \in Nat, NEW d, d.capacity \in Nat
    PROVE  Capacity(<<c, d>>) = c.capacity + d.capacity
<1>1. WithCapacity({c, d})
    BY DEF WithCapacity
<1>2. <<c>> \in Seq({c, d}) /\ <<d>> \in Seq({c, d})
    OBVIOUS
<1>3. <<c, d>> = <<c>> \o <<d>>
    OBVIOUS
<1>4. Capacity(<<c>> \o <<d>>) = Capacity(<<c>>) + Capacity(<<d>>)
    BY <1>1, <1>2, CapacityConcat
<1> QED
    BY <1>3, <1>4, CapacityOne

------------------------------------------------------------------------------
(***************************************************************************)
(* Remaining                                                               *)
(***************************************************************************)
IsKept(s, spent, k) ==
    k = [i \in 0..Len(s) |->
            IF i = 0 THEN <<>>
            ELSE IF s[i] \in spent THEN k[i - 1]
            ELSE Append(k[i - 1], s[i])]

\* What has been kept of a list after each of its cells.
LEMMA Kept ==
    ASSUME NEW S, NEW s \in Seq(S), NEW spent
    PROVE  \E k : IsKept(s, spent, k) /\ Remaining(s, spent) = k[Len(s)]
<1> DEFINE n == Len(s)
           F == [i \in 1..n |-> [x \in Seq(S) |->
                    IF s[i] \in spent THEN x ELSE Append(x, s[i])]]
<1>1. n \in Nat /\ <<>> \in Seq(S) /\ \A i \in 1..n : s[i] \in S
    OBVIOUS
<1>2. \A x \in Seq(S), i \in 1..n :
         /\ F[i][x] = IF s[i] \in spent THEN x ELSE Append(x, s[i])
         /\ F[i][x] \in Seq(S)
    BY <1>1
<1>3. PICK g \in [0..n -> Seq(S)] : Solves(g, F, n, <<>>)
    <2>1. Steps(F, n, Seq(S))
        BY <1>2 DEF Steps
    <2> HIDE DEF n, F
    <2> QED
        BY <1>1, <2>1, RecursionSolution
<1>4. g[0] = <<>> /\ \A i \in 1..n :
         g[i] = IF s[i] \in spent THEN g[i - 1] ELSE Append(g[i - 1], s[i])
    <2>1. ASSUME NEW i \in 1..n
          PROVE  g[i] = IF s[i] \in spent THEN g[i - 1]
                        ELSE Append(g[i - 1], s[i])
        <3>1. g[i - 1] \in Seq(S)
            BY <1>1
        <3>2. g[i] = F[i][g[i - 1]]
            BY <1>3 DEF Solves
        <3> HIDE DEF F, n
        <3> QED
            BY <1>2, <3>1, <3>2
    <2> QED
        BY <1>3, <2>1 DEF Solves
<1>5. IsKept(s, spent, g)
    <2>1. \A i \in 0..n :
             g[i] = IF i = 0 THEN <<>>
                    ELSE IF s[i] \in spent THEN g[i - 1]
                    ELSE Append(g[i - 1], s[i])
        <3>1. \A i \in 0..n : i = 0 \/ i \in 1..n
            BY <1>1
        <3> HIDE DEF n
        <3> QED
            BY <1>4, <3>1
    <2>2. g = [i \in 0..n |-> g[i]]
        OBVIOUS
    <2> HIDE DEF n
    <2> QED
        BY <2>1, <2>2 DEF IsKept, n
<1> DEFINE f == CHOOSE f : IsKept(s, spent, f)
<1>6. IsKept(s, spent, f) /\ Remaining(s, spent) = f[n]
    BY <1>5 DEF Remaining, IsKept
<1> QED
    BY <1>6

\* One more cell in a list: it remains, at the end, unless it is spent.
LEMMA RemainingAppend ==
    ASSUME NEW S, NEW s \in Seq(S), NEW c \in S, NEW spent
    PROVE  /\ Remaining(s, spent) \in Seq(S)
           /\ Remaining(Append(s, c), spent)
                = IF c \in spent THEN Remaining(s, spent)
                  ELSE Append(Remaining(s, spent), c)
<1> DEFINE n == Len(s)
           t == Append(s, c)
<1>1. /\ n \in Nat /\ t \in Seq(S) /\ Len(t) = n + 1 /\ t[n + 1] = c
      /\ \A i \in 1..n : t[i] = s[i] /\ s[i] \in S
    OBVIOUS
<1>2. PICK k : IsKept(s, spent, k) /\ Remaining(s, spent) = k[n]
    BY Kept
<1>3. PICK l : IsKept(t, spent, l) /\ Remaining(t, spent) = l[n + 1]
    BY <1>1, Kept
<1> HIDE DEF n, t
<1>4. \A i \in 0..n :
         k[i] = IF i = 0 THEN <<>>
                ELSE IF s[i] \in spent THEN k[i - 1]
                ELSE Append(k[i - 1], s[i])
    BY <1>1, <1>2 DEF IsKept, n
<1>5. \A i \in 0..(n + 1) :
         l[i] = IF i = 0 THEN <<>>
                ELSE IF t[i] \in spent THEN l[i - 1]
                ELSE Append(l[i - 1], t[i])
    BY <1>1, <1>3 DEF IsKept
<1> DEFINE T == {i \in 0..n : k[i] = l[i] /\ k[i] \in Seq(S)}
<1>6. 0 \in T
    <2>1. 0 \in 0..n /\ 0 \in 0..(n + 1)
        BY <1>1
    <2>2. k[0] = <<>> /\ l[0] = <<>>
        BY <1>4, <1>5, <2>1
    <2>3. <<>> \in Seq(S)
        OBVIOUS
    <2> QED
        BY <2>1, <2>2, <2>3
<1>7. ASSUME NEW i \in 0..(n - 1), i \in T
      PROVE  i + 1 \in T
    <2>1. i + 1 \in 1..n /\ i + 1 \in 0..n /\ i + 1 \in 0..(n + 1)
          /\ i + 1 # 0 /\ (i + 1) - 1 = i
        BY <1>1
    <2>2. t[i + 1] = s[i + 1] /\ s[i + 1] \in S
        BY <1>1, <2>1
    <2>3. k[i] = l[i] /\ k[i] \in Seq(S)
        BY <1>7
    <2>4. k[i + 1] = l[i + 1]
        BY <1>4, <1>5, <2>1, <2>2, <2>3
    <2>5. k[i + 1] = IF s[i + 1] \in spent THEN k[i]
                     ELSE Append(k[i], s[i + 1])
        BY <1>4, <2>1
    <2>6. k[i + 1] \in Seq(S)
        BY <2>2, <2>3, <2>5
    <2> QED
        BY <2>1, <2>4, <2>6
<1>8. \A i \in 0..n : i \in T
    <2> HIDE DEF T
    <2> QED
        BY <1>1, <1>6, <1>7, SetInduction
<1>9. k[n] = l[n] /\ k[n] \in Seq(S)
    BY <1>1, <1>8
<1>10. n + 1 \in 0..(n + 1) /\ n + 1 # 0 /\ (n + 1) - 1 = n
    BY <1>1
<1>11. l[n + 1] = IF c \in spent THEN l[n] ELSE Append(l[n], c)
    BY <1>1, <1>5, <1>10
<1> QED
    BY <1>2, <1>3, <1>9, <1>11 DEF t

\* A list grows by its next cell.
LEMMA SubSeqNext ==
    ASSUME NEW S, NEW s \in Seq(S), NEW a \in 1..Len(s),
           NEW i \in (a - 1)..(Len(s) - 1)
    PROVE  SubSeq(s, a, i + 1) = Append(SubSeq(s, a, i), s[i + 1])
<1> DEFINE u == SubSeq(s, a, i)
           v == SubSeq(s, a, i + 1)
           w == Append(u, s[i + 1])
<1>1. /\ u \in Seq(S) /\ Len(u) = i - a + 1
      /\ \A j \in 1..(i - a + 1) : u[j] = s[a + j - 1]
    OBVIOUS
<1>2. /\ v \in Seq(S) /\ Len(v) = i - a + 2
      /\ \A j \in 1..(i - a + 2) : v[j] = s[a + j - 1]
    OBVIOUS
<1>3. s[i + 1] \in S
    OBVIOUS
<1>4. w \in Seq(S) /\ Len(w) = i - a + 2
    BY <1>1, <1>3
<1>5. \A j \in 1..(i - a + 2) : w[j] = s[a + j - 1]
    <2>1. ASSUME NEW j \in 1..(i - a + 1)
          PROVE  w[j] = s[a + j - 1]
        BY <1>1, <1>3
    <2>2. w[i - a + 2] = s[i + 1] /\ a + (i - a + 2) - 1 = i + 1
        BY <1>1, <1>3
    <2>3. \A j \in 1..(i - a + 2) : j \in 1..(i - a + 1) \/ j = i - a + 2
        OBVIOUS
    <2> QED
        BY <2>1, <2>2, <2>3
<1> HIDE DEF v, w
<1> QED
    BY <1>2, <1>4, <1>5, SeqEqual DEF v, w

\* When exactly a prefix of the list is spent, the rest of it remains.
LEMMA RemainingAfterPrefix ==
    ASSUME NEW S, NEW s \in Seq(S), NEW spent, NEW n \in 0..Len(s),
           \A i \in 1..n : s[i] \in spent,
           \A i \in (n + 1)..Len(s) : s[i] \notin spent
    PROVE  Remaining(s, spent) = SubSeq(s, n + 1, Len(s))
<1> DEFINE m == Len(s)
<1>1. /\ m \in Nat /\ n \in 0..m
      /\ \A i \in 0..n : SubSeq(s, n + 1, i) = <<>>
      /\ \A i \in 1..n : s[i] \in spent
      /\ \A i \in (n + 1)..m : s[i] \notin spent
    OBVIOUS
<1>2. PICK k : IsKept(s, spent, k) /\ Remaining(s, spent) = k[m]
    BY Kept
<1>3. \A i \in 0..m :
         k[i] = IF i = 0 THEN <<>>
                ELSE IF s[i] \in spent THEN k[i - 1]
                ELSE Append(k[i - 1], s[i])
    BY <1>2 DEF IsKept
<1> DEFINE T == {i \in 0..m : k[i] = SubSeq(s, n + 1, i)}
<1>4. 0 \in T
    <2>1. k[0] = <<>>
        BY <1>1, <1>3
    <2>2. SubSeq(s, n + 1, 0) = <<>> /\ 0 \in 0..m
        OBVIOUS
    <2> HIDE DEF m
    <2> QED
        BY <2>1, <2>2
<1>5. ASSUME NEW i \in 0..(m - 1), i \in T
      PROVE  i + 1 \in T
    <2>1. /\ i + 1 \in 0..m /\ i + 1 # 0 /\ (i + 1) - 1 = i
          /\ k[i] = SubSeq(s, n + 1, i)
        BY <1>1, <1>5
    <2>2. CASE i + 1 <= n
        <3>1. k[i + 1] = k[i]
            BY <1>3, <2>1, <2>2
        <3>2. SubSeq(s, n + 1, i) = <<>> /\ SubSeq(s, n + 1, i + 1) = <<>>
            BY <1>1, <2>2
        <3> QED
            BY <2>1, <3>1, <3>2
    <2>3. CASE i + 1 > n
        <3>4. s[i + 1] \notin spent
            <4>1. i + 1 \in (n + 1)..m
                BY <1>1, <2>3
            <4> HIDE DEF m
            <4> QED
                BY <1>1, <4>1
        <3>1. k[i + 1] = Append(k[i], s[i + 1])
            <4> HIDE DEF m
            <4> QED
                BY <1>3, <2>1, <3>4
        <3>2. n + 1 \in 1..m /\ i \in ((n + 1) - 1)..(m - 1)
            BY <1>1, <2>3
        <3>3. SubSeq(s, n + 1, i + 1) = Append(SubSeq(s, n + 1, i), s[i + 1])
            BY <3>2, SubSeqNext
        <3> QED
            BY <2>1, <3>1, <3>3
    <2> QED
        BY <1>1, <2>2, <2>3
<1>6. m \in T
    <2>1. m \in 0..m
        BY <1>1
    <2> HIDE DEF T, m
    <2> QED
        BY <1>1, <1>4, <1>5, <2>1, SetInduction
<1> QED
    BY <1>2, <1>6

\* A list is worth what its first n cells and the others are worth.
LEMMA CapacitySplit ==
    ASSUME NEW S, WithCapacity(S), NEW s \in Seq(S), NEW n \in 0..Len(s)
    PROVE  /\ SubSeq(s, 1, n) \in Seq(S)
           /\ SubSeq(s, n + 1, Len(s)) \in Seq(S)
           /\ Capacity(s) = Capacity(SubSeq(s, 1, n))
                              + Capacity(SubSeq(s, n + 1, Len(s)))
<1> DEFINE u == SubSeq(s, 1, n)
           v == SubSeq(s, n + 1, Len(s))
<1>1. /\ u \in Seq(S) /\ Len(u) = n /\ \A i \in 1..n : u[i] = s[i]
      /\ v \in Seq(S) /\ Len(v) = Len(s) - n
      /\ \A i \in 1..(Len(s) - n) : v[i] = s[n + i]
    OBVIOUS
<1> HIDE DEF u, v
<1>2. /\ u \o v \in Seq(S) /\ Len(u \o v) = Len(s)
      /\ \A i \in 1..Len(s) : (u \o v)[i] = s[i]
    <2>1. u \o v \in Seq(S) /\ Len(u \o v) = Len(s)
        BY <1>1
    <2>2. ASSUME NEW i \in 1..n
          PROVE  (u \o v)[i] = s[i]
        BY <1>1
    <2>3. ASSUME NEW i \in (n + 1)..Len(s)
          PROVE  (u \o v)[i] = s[i]
        <3>1. i - n \in 1..(Len(s) - n) /\ n + (i - n) = i
            OBVIOUS
        <3>2. (u \o v)[i] = v[i - n]
            BY <1>1
        <3> QED
            BY <1>1, <3>1, <3>2
    <2>4. \A i \in 1..Len(s) : i \in 1..n \/ i \in (n + 1)..Len(s)
        OBVIOUS
    <2> QED
        BY <2>1, <2>2, <2>3, <2>4
<1>3. u \o v = s
    BY <1>2, SeqEqual
<1>4. Capacity(u \o v) = Capacity(u) + Capacity(v)
    BY <1>1, CapacityConcat
<1> QED
    BY <1>1, <1>3, <1>4 DEF u, v

\* The cells of a list after the first n, and then those of another list.
After(s, n, t) == SubSeq(s, n + 1, Len(s)) \o t

IsAfter(r, S, s, n, t) ==
    /\ r \in Seq(S)
    /\ Len(r) = (Len(s) - n) + Len(t)
    /\ \A i \in 1..(Len(s) - n) : r[i] = s[n + i]
    /\ \A i \in 1..Len(t) : r[(Len(s) - n) + i] = t[i]

LEMMA AfterIs ==
    ASSUME NEW S, NEW s \in Seq(S), NEW n \in 0..Len(s), NEW t \in Seq(S)
    PROVE  IsAfter(After(s, n, t), S, s, n, t)
<1> DEFINE r == After(s, n, t)
           u == SubSeq(s, n + 1, Len(s))
           k == Len(s) - n
<1>1. u \in Seq(S) /\ Len(u) = k /\ \A i \in 1..k : u[i] = s[n + i]
    OBVIOUS
<1>2. k \in Nat
    OBVIOUS
<1>3. r = u \o t
    BY DEF After
<1> HIDE DEF u, k, r
<1>4. /\ r \in Seq(S) /\ Len(r) = k + Len(t)
      /\ \A i \in 1..(k + Len(t)) : r[i] = IF i <= k THEN u[i] ELSE t[i - k]
    <2>1. /\ u \o t \in Seq(S) /\ Len(u \o t) = Len(u) + Len(t)
          /\ \A i \in 1..(Len(u) + Len(t)) :
                (u \o t)[i] = IF i <= Len(u) THEN u[i] ELSE t[i - Len(u)]
        BY <1>1, ConcatProperties
    <2> QED
        BY <1>1, <1>3, <2>1
<1>5. \A i \in 1..k : r[i] = s[n + i]
    BY <1>1, <1>2, <1>4
<1>6. \A i \in 1..Len(t) : r[k + i] = t[i]
    <2>1. ASSUME NEW i \in 1..Len(t)
          PROVE  r[k + i] = t[i]
        <3>1. /\ k + i \in 1..(k + Len(t)) /\ ~(k + i <= k) /\ (k + i) - k = i
            BY <1>2
        <3> QED
            BY <1>4, <3>1
    <2> QED
        BY <2>1
<1> QED
    BY <1>4, <1>5, <1>6 DEF k, r, IsAfter

------------------------------------------------------------------------------
(***************************************************************************)
(* Lists of which the first elements go and to which others come           *)
(***************************************************************************)
LEMMA OwnRange ==
    ASSUME NEW S, NEW s \in Seq(S)
    PROVE  s \in Seq(ToSet(s)) /\ ToSet(s) \subseteq S
BY DEF ToSet

\* s is made of the first elements of w, at least one.
Leads(s, w) == \E n \in 1..Len(w) : s = SubSeq(w, 1, n)

LEMMA LeadsIs ==
    ASSUME NEW S, NEW w \in Seq(S), NEW s, Leads(s, w)
    PROVE  /\ s \in Seq(ToSet(s)) /\ Len(s) \in Nat \ {0}
           /\ ToSet(s) \subseteq ToSet(w)
           /\ w # <<>> /\ s[1] = w[1] /\ s[1] \in ToSet(s)
<1>1. PICK n \in 1..Len(w) : s = SubSeq(w, 1, n)
    BY DEF Leads
<1>2. /\ s \in Seq(S) /\ Len(s) = n /\ DOMAIN s = 1..n
      /\ \A i \in 1..n : s[i] = w[i]
    BY <1>1
<1>3. n \in Nat \ {0} /\ 1 \in 1..n /\ 1..n \subseteq DOMAIN w /\ w # <<>>
    OBVIOUS
<1>4. s \in Seq(ToSet(s))
    BY <1>2, OwnRange
<1> QED
    BY <1>2, <1>3, <1>4 DEF ToSet

LEMMA AfterInjective ==
    ASSUME NEW S, NEW s \in Seq(S), IsInjective(s),
           NEW t \in Seq(S), IsInjective(t),
           ToSet(s) \cap ToSet(t) = {},
           NEW n \in 1..Len(s)
    PROVE  /\ IsInjective(After(s, n, t))
           /\ After(s, n, t) \in Seq(ToSet(After(s, n, t)))
           /\ ToSet(After(s, n, t)) \subseteq ToSet(s) \cup ToSet(t)
           /\ s[1] \in ToSet(s) /\ s[1] \notin ToSet(After(s, n, t))
<1> DEFINE r == After(s, n, t)
           k == Len(s) - n
           l == Len(t)
<1>1. /\ k \in Nat /\ l \in Nat /\ n \in 0..Len(s)
      /\ DOMAIN s = 1..Len(s) /\ DOMAIN t = 1..l
    OBVIOUS
<1>2. IsAfter(r, S, s, n, t)
    BY <1>1, AfterIs
<1> HIDE DEF r
<1>3. r \in Seq(S) /\ Len(r) = k + l /\ DOMAIN r = 1..(k + l)
    BY <1>1, <1>2 DEF IsAfter
<1>4. \A i \in 1..k : r[i] = s[n + i] /\ n + i \in DOMAIN s /\ n + i # 1
    <2>1. \A i \in 1..k : r[i] = s[n + i]
        BY <1>2 DEF IsAfter
    <2>2. \A i \in 1..k : n + i \in 1..Len(s) /\ n + i # 1
        OBVIOUS
    <2> HIDE DEF k
    <2> QED
        BY <1>1, <2>1, <2>2
<1>5. \A i \in 1..l : r[k + i] = t[i] /\ i \in DOMAIN t
    BY <1>1, <1>2 DEF IsAfter
<1> HIDE DEF k, l
<1>6. \A i \in 1..(k + l) : i \in 1..k \/ (i - k \in 1..l /\ k + (i - k) = i)
    BY <1>1
<1>7. \A i \in 1..(k + l) :
         \/ i \in 1..k /\ r[i] \in ToSet(s) /\ r[i] # s[1]
         \/ i - k \in 1..l /\ r[i] = t[i - k] /\ r[i] \in ToSet(t)
    <2>1. ASSUME NEW i \in 1..k
          PROVE  r[i] \in ToSet(s) /\ r[i] # s[1]
        <3>1. 1 \in DOMAIN s
            BY <1>1
        <3> QED
            BY <1>4, <3>1 DEF ToSet, IsInjective
    <2>2. ASSUME NEW i \in 1..(k + l), i - k \in 1..l, k + (i - k) = i
          PROVE  r[i] = t[i - k] /\ r[i] \in ToSet(t)
        <3>1. r[i] = t[i - k] /\ i - k \in DOMAIN t
            BY <1>5, <2>2
        <3> QED
            BY <3>1 DEF ToSet
    <2> QED
        BY <1>6, <2>1, <2>2
<1>8. IsInjective(r)
    <2> SUFFICES ASSUME NEW i \in 1..(k + l), NEW j \in 1..(k + l), r[i] = r[j]
                 PROVE  i = j
        BY <1>3 DEF IsInjective
    <2>1. CASE i \in 1..k /\ j \in 1..k
        <3>1. s[n + i] = s[n + j] /\ n + i \in DOMAIN s /\ n + j \in DOMAIN s
            BY <1>4, <2>1
        <3>2. n + i = n + j
            BY <3>1 DEF IsInjective
        <3> QED
            BY <1>1, <3>2
    <2>2. CASE i - k \in 1..l /\ j - k \in 1..l
        <3>1. i - k \in DOMAIN t /\ j - k \in DOMAIN t
            BY <1>5, <2>2
        <3>2. k + (i - k) = i /\ k + (j - k) = j
            BY <1>1
        <3>3. t[i - k] = t[j - k]
            BY <1>5, <2>2, <3>2
        <3>4. i - k = j - k
            BY <3>1, <3>3 DEF IsInjective
        <3> QED
            BY <3>2, <3>4
    <2> QED
        BY <1>7, <2>1, <2>2
<1>9. /\ ToSet(r) \subseteq ToSet(s) \cup ToSet(t)
      /\ s[1] \in ToSet(s) /\ s[1] \notin ToSet(r)
    <2>1. 1 \in DOMAIN s
        BY <1>1
    <2>2. s[1] \in ToSet(s)
        BY <2>1 DEF ToSet
    <2>3. \A i \in 1..(k + l) : r[i] \in ToSet(s) \cup ToSet(t) /\ r[i] # s[1]
        BY <1>7, <2>2
    <2> QED
        BY <1>3, <2>2, <2>3 DEF ToSet
<1>10. r \in Seq(ToSet(r))
    BY <1>3, OwnRange
<1> QED
    BY <1>8, <1>9, <1>10 DEF r

LEMMA AfterCapacity ==
    ASSUME NEW S, WithCapacity(S), NEW s \in Seq(S), NEW t \in Seq(S),
           NEW n \in 0..Len(s)
    PROVE  Capacity(After(s, n, t))
             = Capacity(s) - Capacity(SubSeq(s, 1, n)) + Capacity(t)
<1> DEFINE u == SubSeq(s, 1, n)
           v == SubSeq(s, n + 1, Len(s))
<1>1. /\ u \in Seq(S) /\ v \in Seq(S)
      /\ Capacity(s) = Capacity(u) + Capacity(v)
    BY CapacitySplit
<1>2. After(s, n, t) = v \o t
    BY DEF After
<1> HIDE DEF u, v
<1>3. Capacity(v \o t) = Capacity(v) + Capacity(t)
    BY <1>1, CapacityConcat
<1>4. Capacity(u) \in Nat /\ Capacity(v) \in Nat /\ Capacity(t) \in Nat
    BY <1>1, CapacityType
<1> QED
    BY <1>1, <1>2, <1>3, <1>4 DEF u

\* The first elements that are worth an amount, and no fewer are.
Shortest(s, need, n) ==
    /\ Capacity(SubSeq(s, 1, n)) >= need
    /\ \A m \in 0..(n - 1) : ~(Capacity(SubSeq(s, 1, m)) >= need)

LEMMA ShortestExists ==
    ASSUME NEW S, NEW s \in Seq(S), NEW need, Capacity(s) >= need
    PROVE  \E n \in 0..Len(s) : Shortest(s, need, n)
<1> DEFINE Prefix(m) == SubSeq(s, 1, m)
           T == {m \in 0..Len(s) : Capacity(Prefix(m)) >= need}
<1>1. Len(s) \in T
    <2>1. Prefix(Len(s)) = s /\ Len(s) \in 0..Len(s)
        OBVIOUS
    <2>2. Capacity(Prefix(Len(s))) >= need
        <3> HIDE DEF Prefix
        <3> QED
            BY <2>1
    <2> QED
        BY <2>1, <2>2
<1>2. PICK m \in T : \A k \in T : m <= k
    <2>1. T \subseteq Nat /\ T # {}
        BY <1>1
    <2> HIDE DEF T
    <2> QED
        BY <2>1, Least
<1>3. m \in 0..Len(s) /\ Shortest(s, need, m)
    <2>1. ASSUME NEW k \in 0..(m - 1)
          PROVE  ~(Capacity(Prefix(k)) >= need)
        <3>1. k \in 0..Len(s) /\ ~(m <= k)
            OBVIOUS
        <3> QED
            BY <1>2, <3>1
    <2> QED
        BY <2>1 DEF Shortest
<1> QED
    BY <1>3

------------------------------------------------------------------------------
(***************************************************************************)
(* Bytes                                                                   *)
(***************************************************************************)
LEMMA Division ==
    ASSUME NEW x \in Nat
    PROVE  /\ x \div Base \in Nat /\ x % Base \in Byte /\ x % Base \in Nat
           /\ x = Base * (x \div Base) + (x % Base)
<1>1. x \div Base \in Nat
    BY BaseAssumption
<1>2. x % Base \in 0..(Base - 1)
    BY BaseAssumption
<1>3. x = Base * (x \div Base) + (x % Base)
    BY BaseAssumption
<1> QED
    BY <1>1, <1>2, <1>3, BaseAssumption DEF Byte

LEMMA Multiplication ==
    ASSUME NEW x \in Nat, NEW y \in Nat
    PROVE  /\ Base * x \in Nat /\ x * y \in Nat
           /\ Base * x + y = 0 => x = 0 /\ y = 0
BY BaseAssumption

IsShifted(rest, n, width) ==
    /\ rest \in [0..width -> Nat]
    /\ rest[0] = n
    /\ \A i \in 1..width : rest[i] = rest[i - 1] \div Base

ShiftedBy(rest, n, width) ==
    rest = [i \in 0..width |-> IF i = 0 THEN n ELSE rest[i - 1] \div Base]

LEMMA ShiftedIs ==
    ASSUME NEW n \in Nat, NEW width \in Nat
    PROVE  IsShifted(Shifted(n, width), n, width)
<1> DEFINE F == [i \in 1..width |-> [x \in Nat |-> x \div Base]]
<1>1. \A x \in Nat, i \in 1..width : F[i][x] = x \div Base /\ F[i][x] \in Nat
    BY Division
<1>2. PICK g \in [0..width -> Nat] : Solves(g, F, width, n)
    <2>1. Steps(F, width, Nat)
        BY <1>1 DEF Steps
    <2> HIDE DEF F
    <2> QED
        BY <2>1, RecursionSolution
<1>3. g[0] = n /\ \A i \in 1..width : g[i] = g[i - 1] \div Base
    <2>1. ASSUME NEW i \in 1..width
          PROVE  g[i] = g[i - 1] \div Base
        <3>1. g[i - 1] \in Nat
            OBVIOUS
        <3>2. g[i] = F[i][g[i - 1]]
            BY <1>2 DEF Solves
        <3> HIDE DEF F
        <3> QED
            BY <1>1, <3>1, <3>2
    <2> QED
        BY <1>2, <2>1 DEF Solves
<1>4. ShiftedBy(g, n, width)
    BY <1>3 DEF ShiftedBy
<1> DEFINE f == CHOOSE f : ShiftedBy(f, n, width)
<1>5. ShiftedBy(f, n, width) /\ Shifted(n, width) = f
    BY <1>4 DEF Shifted, ShiftedBy
<1> HIDE DEF f, F
<1>6. /\ f[0] = n /\ \A i \in 1..width : f[i] = f[i - 1] \div Base
      /\ f = [i \in 0..width |-> f[i]]
    <2>1. f = [i \in 0..width |-> IF i = 0 THEN n ELSE f[i - 1] \div Base]
        BY <1>5 DEF ShiftedBy
    <2>2. \A i \in 0..width : f[i] = IF i = 0 THEN n ELSE f[i - 1] \div Base
        BY <2>1
    <2>3. 0 \in 0..width /\ \A i \in 1..width : i \in 0..width /\ i # 0
        OBVIOUS
    <2>4. f = [i \in 0..width |-> f[i]]
        BY <2>1
    <2>5. f[0] = n
        BY <2>2, <2>3
    <2>6. \A i \in 1..width : f[i] = f[i - 1] \div Base
        BY <2>2, <2>3
    <2> QED
        BY <2>4, <2>5, <2>6
<1>7. \A i \in 0..width : f[i] \in Nat
    <2> DEFINE T == {i \in 0..width : f[i] \in Nat}
    <2>1. 0 \in T
        BY <1>6
    <2>2. ASSUME NEW i \in 0..(width - 1), i \in T
          PROVE  i + 1 \in T
        <3>1. /\ i + 1 \in 1..width /\ i + 1 \in 0..width
              /\ (i + 1) - 1 = i /\ f[i] \in Nat
            BY <2>2
        <3>2. f[i + 1] = f[i] \div Base
            BY <1>6, <3>1
        <3>3. f[i] \div Base \in Nat
            BY <3>1, Division
        <3> QED
            BY <3>1, <3>2, <3>3
    <2> HIDE DEF T
    <2>3. \A i \in 0..width : i \in T
        BY <2>1, <2>2, SetInduction
    <2> QED
        BY <2>3 DEF T
<1>8. f \in [0..width -> Nat]
    BY <1>6, <1>7
<1> QED
    BY <1>5, <1>6, <1>8 DEF IsShifted

LEMMA LEIs ==
    ASSUME NEW n \in Nat, NEW width \in Nat
    PROVE  /\ LE(n, width) \in Seq(Byte) /\ Len(LE(n, width)) = width
           /\ \A i \in 1..width :
                 LE(n, width)[i] = Shifted(n, width)[i - 1] % Base
<1> DEFINE r == Shifted(n, width)
           b == LE(n, width)
<1>1. \A i \in 1..width : r[i - 1] \in Nat
    <2>1. r \in [0..width -> Nat]
        BY ShiftedIs DEF IsShifted
    <2> HIDE DEF r
    <2> QED
        BY <2>1
<1>2. b = [i \in 1..width |-> r[i - 1] % Base]
    BY DEF LE
<1> HIDE DEF r, b
<1>3. \A i \in 1..width : b[i] \in Byte
    BY <1>1, <1>2, Division
<1>4. b \in [1..width -> Byte]
    BY <1>2, <1>3
<1>5. b \in Seq(Byte) /\ Len(b) = width
    BY <1>4
<1> QED
    BY <1>2, <1>5 DEF r, b

IsNumber(g, bytes) ==
    /\ g \in [0..Len(bytes) -> Nat]
    /\ g[0] = 0
    /\ \A i \in 1..Len(bytes) :
          g[i] = Base * g[i - 1] + bytes[Len(bytes) - i + 1]

NumberBy(g, bytes) ==
    g = [i \in 0..Len(bytes) |->
            IF i = 0 THEN 0
            ELSE Base * g[i - 1] + bytes[Len(bytes) - i + 1]]

\* FromLE is the last of the numbers read from the highest byte down.
LEMMA NumberIs ==
    ASSUME NEW bytes \in Seq(Byte)
    PROVE  \E g : IsNumber(g, bytes) /\ FromLE(bytes) = g[Len(bytes)]
<1> DEFINE n == Len(bytes)
           F == [i \in 1..n |-> [x \in Nat |-> Base * x + bytes[n - i + 1]]]
<1>1. n \in Nat /\ 0 \in Nat /\ \A i \in 1..n : bytes[n - i + 1] \in Nat
    <2>1. n \in Nat /\ \A i \in 1..n : n - i + 1 \in DOMAIN bytes
        OBVIOUS
    <2>2. \A i \in DOMAIN bytes : bytes[i] \in Nat
        BY BaseAssumption DEF Byte
    <2> HIDE DEF n
    <2> QED
        BY <2>1, <2>2
<1>2. \A x \in Nat, i \in 1..n :
         F[i][x] = Base * x + bytes[n - i + 1] /\ F[i][x] \in Nat
    <2>1. \A x \in Nat : Base * x \in Nat
        BY Multiplication
    <2>2. ASSUME NEW x \in Nat, NEW i \in 1..n
          PROVE  F[i][x] = Base * x + bytes[n - i + 1]
        OBVIOUS
    <2>3. ASSUME NEW x \in Nat, NEW i \in 1..n
          PROVE  Base * x + bytes[n - i + 1] \in Nat
        <3>1. Base * x \in Nat
            BY <2>1
        <3>2. bytes[n - i + 1] \in Nat
            BY <1>1
        <3> HIDE DEF n
        <3> QED
            BY <3>1, <3>2
    <2> QED
        BY <2>2, <2>3
<1>3. PICK g \in [0..n -> Nat] : Solves(g, F, n, 0)
    <2>1. Steps(F, n, Nat)
        BY <1>2 DEF Steps
    <2> HIDE DEF F, n
    <2> QED
        BY <1>1, <2>1, RecursionSolution
<1>4. g[0] = 0 /\ \A i \in 1..n : g[i] = Base * g[i - 1] + bytes[n - i + 1]
    <2>1. ASSUME NEW i \in 1..n
          PROVE  g[i] = Base * g[i - 1] + bytes[n - i + 1]
        <3>0. i - 1 \in 0..n
            BY <1>1
        <3>1. g[i - 1] \in Nat
            <4>1. g \in [0..n -> Nat]
                BY <1>3
            <4> HIDE DEF F, n
            <4> QED
                BY <3>0, <4>1
        <3>2. g[i] = F[i][g[i - 1]]
            BY <1>3 DEF Solves
        <3> HIDE DEF F, n
        <3> QED
            BY <1>2, <3>1, <3>2
    <2> QED
        BY <1>3, <2>1 DEF Solves
<1>5. NumberBy(g, bytes)
    BY <1>1, <1>4 DEF NumberBy
<1> DEFINE f == CHOOSE f : NumberBy(f, bytes)
<1>6. NumberBy(f, bytes) /\ FromLE(bytes) = f[n]
    BY <1>5 DEF FromLE, NumberBy
<1> HIDE DEF f, F
<1>7. /\ f[0] = 0
      /\ \A i \in 1..n : f[i] = Base * f[i - 1] + bytes[n - i + 1]
      /\ f = [i \in 0..n |-> f[i]]
    <2>1. f = [i \in 0..n |-> IF i = 0 THEN 0
                              ELSE Base * f[i - 1] + bytes[n - i + 1]]
        BY <1>6 DEF NumberBy
    <2>2. \A i \in 0..n : f[i] = IF i = 0 THEN 0
                               ELSE Base * f[i - 1] + bytes[n - i + 1]
        BY <2>1
    <2>3. 0 \in 0..n /\ \A i \in 1..n : i \in 0..n /\ i # 0
        BY <1>1
    <2>4. f = [i \in 0..n |-> f[i]]
        BY <2>1
    <2>5. f[0] = 0
        BY <2>2, <2>3
    <2>6. \A i \in 1..n : f[i] = Base * f[i - 1] + bytes[n - i + 1]
        BY <2>2, <2>3
    <2> QED
        BY <2>4, <2>5, <2>6
<1> HIDE DEF n
<1>8. \A i \in 0..n : f[i] \in Nat
    <2> DEFINE T == {i \in 0..n : f[i] \in Nat}
    <2>1. 0 \in T
        BY <1>1, <1>7
    <2>2. ASSUME NEW i \in 0..(n - 1), i \in T
          PROVE  i + 1 \in T
        <3>1. i + 1 \in 1..n /\ (i + 1) - 1 = i /\ f[i] \in Nat
            BY <1>1, <2>2
        <3>2. f[i + 1] = Base * f[i] + bytes[n - (i + 1) + 1]
            BY <1>7, <3>1
        <3>3. bytes[n - (i + 1) + 1] \in Nat /\ Base * f[i] \in Nat
            BY <1>1, <3>1, Multiplication
        <3>4. f[i + 1] \in Nat
            BY <3>2, <3>3
        <3> QED
            BY <3>1, <3>4
    <2> HIDE DEF T
    <2>3. \A i \in 0..n : i \in T
        BY <1>1, <2>1, <2>2, SetInduction
    <2> QED
        BY <2>3 DEF T
<1>9. f \in [0..n -> Nat]
    BY <1>7, <1>8
<1> QED
    BY <1>6, <1>7, <1>9 DEF IsNumber, n

IsValues(v, width) ==
    /\ v \in [0..width -> Nat]
    /\ v[0] = 1
    /\ \A i \in 1..width : v[i] = Base * v[i - 1]

ValuesBy(v, width) ==
    v = [i \in 0..width |-> IF i = 0 THEN 1 ELSE Base * v[i - 1]]

LEMMA ValuesIs ==
    ASSUME NEW width \in Nat
    PROVE  \E v : IsValues(v, width) /\ Values(width) = v[width]
<1> DEFINE F == [i \in 1..width |-> [x \in Nat |-> Base * x]]
<1>1. \A x \in Nat, i \in 1..width : F[i][x] = Base * x /\ F[i][x] \in Nat
    BY Multiplication
<1>2. PICK g \in [0..width -> Nat] : Solves(g, F, width, 1)
    <2>1. Steps(F, width, Nat)
        BY <1>1 DEF Steps
    <2> HIDE DEF F
    <2> QED
        BY <2>1, RecursionSolution
<1>3. g[0] = 1 /\ \A i \in 1..width : g[i] = Base * g[i - 1]
    <2>1. ASSUME NEW i \in 1..width
          PROVE  g[i] = Base * g[i - 1]
        <3>1. g[i - 1] \in Nat
            OBVIOUS
        <3>2. g[i] = F[i][g[i - 1]]
            BY <1>2 DEF Solves
        <3> HIDE DEF F
        <3> QED
            BY <1>1, <3>1, <3>2
    <2> QED
        BY <1>2, <2>1 DEF Solves
<1>4. ValuesBy(g, width)
    BY <1>3 DEF ValuesBy
<1> DEFINE f == CHOOSE f : ValuesBy(f, width)
<1>5. ValuesBy(f, width) /\ Values(width) = f[width]
    BY <1>4 DEF Values, ValuesBy
<1> HIDE DEF f, F
<1>6. /\ f[0] = 1 /\ \A i \in 1..width : f[i] = Base * f[i - 1]
      /\ f = [i \in 0..width |-> f[i]]
    <2>1. f = [i \in 0..width |-> IF i = 0 THEN 1 ELSE Base * f[i - 1]]
        BY <1>5 DEF ValuesBy
    <2>2. \A i \in 0..width : f[i] = IF i = 0 THEN 1 ELSE Base * f[i - 1]
        BY <2>1
    <2>3. 0 \in 0..width /\ \A i \in 1..width : i \in 0..width /\ i # 0
        OBVIOUS
    <2>4. f = [i \in 0..width |-> f[i]]
        BY <2>1
    <2>5. f[0] = 1
        BY <2>2, <2>3
    <2>6. \A i \in 1..width : f[i] = Base * f[i - 1]
        BY <2>2, <2>3
    <2> QED
        BY <2>4, <2>5, <2>6
<1>7. \A i \in 0..width : f[i] \in Nat
    <2> DEFINE T == {i \in 0..width : f[i] \in Nat}
    <2>1. 0 \in T
        BY <1>6
    <2>2. ASSUME NEW i \in 0..(width - 1), i \in T
          PROVE  i + 1 \in T
        <3>1. /\ i + 1 \in 1..width /\ i + 1 \in 0..width
              /\ (i + 1) - 1 = i /\ f[i] \in Nat
            BY <2>2
        <3>2. f[i + 1] = Base * f[i]
            BY <1>6, <3>1
        <3>3. Base * f[i] \in Nat
            BY <3>1, Multiplication
        <3> QED
            BY <3>1, <3>2, <3>3
    <2> HIDE DEF T
    <2>3. \A i \in 0..width : i \in T
        BY <2>1, <2>2, SetInduction
    <2> QED
        BY <2>3 DEF T
<1>8. f \in [0..width -> Nat]
    BY <1>6, <1>7
<1> QED
    BY <1>5, <1>6, <1>8 DEF IsValues

LEMMA DivisionBound ==
    ASSUME NEW x \in Nat, NEW v \in Nat, x < Base * v
    PROVE  x \div Base < v
<1> DEFINE d == x \div Base
           m == x % Base
<1>1. d \in Nat /\ m \in Nat /\ x = Base * d + m
    BY Division
<1> HIDE DEF d, m
<1>2. ASSUME ~(d < v)
      PROVE  FALSE
    <2>1. PICK e \in Nat : d = v + e
        <3>1. d - v \in Nat /\ d = v + (d - v)
            BY <1>1, <1>2
        <3> QED
            BY <3>1
    <2>2. Base * d = Base * v + Base * e
        BY <1>1, <2>1, BaseAssumption
    <2>3. Base * e \in Nat /\ Base * v \in Nat
        BY <2>1, Multiplication
    <2> QED
        BY <1>1, <2>2, <2>3
<1> QED
    BY <1>2 DEF d

\* What is written in enough bytes is read back as it was: encode_bytes_field and
\* encode_timelock_witness against decode_amount and the generated readers.
THEOREM RoundTrip ==
    ASSUME NEW width \in Nat, NEW n \in Nat, n < Values(width)
    PROVE  FromLE(LE(n, width)) = n
<1> DEFINE r == Shifted(n, width)
           b == LE(n, width)
<1>1. /\ r \in [0..width -> Nat] /\ r[0] = n
      /\ \A i \in 1..width : r[i] = r[i - 1] \div Base
    BY ShiftedIs DEF IsShifted
<1>2. /\ b \in Seq(Byte) /\ Len(b) = width
      /\ \A i \in 1..width : b[i] = r[i - 1] % Base
    BY LEIs
<1> HIDE DEF r, b
<1>3. PICK v : IsValues(v, width) /\ Values(width) = v[width]
    BY ValuesIs
<1>4. PICK g : IsNumber(g, b) /\ FromLE(b) = g[Len(b)]
    BY <1>2, NumberIs
<1>5. \A i \in 0..width : r[i] < v[width - i]
    <2> DEFINE T == {i \in 0..width : r[i] < v[width - i]}
    <2>1. 0 \in T
        BY <1>1, <1>3
    <2>2. ASSUME NEW i \in 0..(width - 1), i \in T
          PROVE  i + 1 \in T
        <3>1. /\ i + 1 \in 1..width /\ i + 1 \in 0..width /\ (i + 1) - 1 = i
              /\ width - i \in 1..width /\ width - (i + 1) \in 0..width
              /\ (width - i) - 1 = width - (i + 1)
              /\ r[i] < v[width - i]
            BY <2>2
        <3>2. r[i] \in Nat /\ v[width - (i + 1)] \in Nat
            BY <1>1, <1>3, <3>1 DEF IsValues
        <3>3. v[width - i] = Base * v[width - (i + 1)]
            BY <1>3, <3>1 DEF IsValues
        <3>4. r[i] \div Base < v[width - (i + 1)]
            BY <3>1, <3>2, <3>3, DivisionBound
        <3>5. r[i + 1] = r[i] \div Base
            BY <1>1, <3>1
        <3> QED
            BY <3>1, <3>4, <3>5
    <2> HIDE DEF T
    <2>3. \A i \in 0..width : i \in T
        BY <2>1, <2>2, SetInduction
    <2> QED
        BY <2>3 DEF T
<1>6. r[width] = 0
    <2>1. width \in 0..width /\ width - width = 0
        OBVIOUS
    <2>2. r[width] \in Nat /\ r[width] < v[0] /\ v[0] = 1
        BY <1>1, <1>3, <1>5, <2>1 DEF IsValues
    <2> QED
        BY <2>2
<1>7. \A i \in 0..width : g[i] = r[width - i]
    <2> DEFINE T == {i \in 0..width : g[i] = r[width - i]}
    <2>1. 0 \in T
        <3>1. width - 0 = width /\ 0 \in 0..width
            OBVIOUS
        <3> QED
            BY <1>4, <1>6, <3>1 DEF IsNumber
    <2>2. ASSUME NEW i \in 0..(width - 1), i \in T
          PROVE  i + 1 \in T
        <3>1. /\ i + 1 \in 1..width /\ i + 1 \in 0..width /\ (i + 1) - 1 = i
              /\ width - i \in 1..width /\ width - (i + 1) \in 0..width
              /\ (width - i) - 1 = width - (i + 1)
              /\ width - (i + 1) + 1 = width - i
              /\ g[i] = r[width - i]
            BY <2>2
        <3>2. g[i + 1] = Base * g[i] + b[width - (i + 1) + 1]
            BY <1>2, <1>4, <3>1 DEF IsNumber
        <3>3. b[width - i] = r[width - (i + 1)] % Base
            BY <1>2, <3>1
        <3>4. r[width - i] = r[width - (i + 1)] \div Base
            BY <1>1, <3>1
        <3>5. r[width - (i + 1)] \in Nat
            BY <1>1, <3>1
        <3> DEFINE x == r[width - (i + 1)]
        <3>6. x = Base * (x \div Base) + (x % Base)
            BY <3>5, Division
        <3> QED
            BY <3>1, <3>2, <3>3, <3>4, <3>6
    <2> HIDE DEF T
    <2>3. \A i \in 0..width : i \in T
        BY <2>1, <2>2, SetInduction
    <2> QED
        BY <2>3 DEF T
<1>8. g[width] = n
    <2>1. width \in 0..width /\ width - width = 0
        OBVIOUS
    <2> QED
        BY <1>1, <1>7, <2>1
<1> QED
    BY <1>2, <1>4, <1>8 DEF b

AllZero(bytes) == \A i \in DOMAIN bytes : bytes[i] = 0

\* Zero is the number of the zero bytes, and of no others.
LEMMA ReadsZero ==
    ASSUME NEW bytes \in Seq(Byte)
    PROVE  FromLE(bytes) \in Nat /\ (FromLE(bytes) = 0 <=> AllZero(bytes))
<1> DEFINE n == Len(bytes)
<1>1. PICK g : IsNumber(g, bytes) /\ FromLE(bytes) = g[n]
    BY NumberIs
<1>2. /\ n \in Nat /\ \A i \in 1..n : n - i + 1 \in 1..n
      /\ \A i \in 1..n : bytes[n - i + 1] \in Nat
    <2>1. n \in Nat /\ \A i \in 1..n : n - i + 1 \in 1..n
        OBVIOUS
    <2>2. \A i \in 1..n : bytes[i] \in Nat
        BY BaseAssumption DEF Byte
    <2> HIDE DEF n
    <2> QED
        BY <2>1, <2>2
<1>3. DOMAIN bytes = 1..n
    OBVIOUS
<1>4. /\ \A i \in 0..n : g[i] \in Nat
      /\ g[0] = 0
      /\ \A i \in 1..n : g[i] = Base * g[i - 1] + bytes[n - i + 1]
    BY <1>1 DEF IsNumber
<1> HIDE DEF n
<1>5. ASSUME AllZero(bytes)
      PROVE  g[n] = 0
    <2> DEFINE T == {i \in 0..n : g[i] = 0}
    <2>1. 0 \in T
        BY <1>2, <1>4
    <2>2. ASSUME NEW i \in 0..(n - 1), i \in T
          PROVE  i + 1 \in T
        <3>1. i + 1 \in 1..n /\ i + 1 \in 0..n /\ (i + 1) - 1 = i /\ g[i] = 0
            BY <1>2, <2>2
        <3>2. bytes[n - (i + 1) + 1] = 0
            BY <1>2, <1>3, <1>5, <3>1 DEF AllZero
        <3>3. g[i + 1] = Base * 0 + 0
            BY <1>4, <3>1, <3>2
        <3> QED
            BY <3>1, <3>3, BaseAssumption
    <2> HIDE DEF T
    <2>3. \A i \in 0..n : i \in T
        BY <1>2, <2>1, <2>2, SetInduction
    <2>4. n \in 0..n
        BY <1>2
    <2> QED
        BY <2>3, <2>4 DEF T
<1>6. ASSUME g[n] = 0
      PROVE  AllZero(bytes)
    <2> DEFINE T == {i \in 0..n : g[n - i] = 0}
    <2>1. 0 \in T
        <3>1. n - 0 = n /\ 0 \in 0..n
            BY <1>2
        <3> QED
            BY <1>6, <3>1
    <2>2. ASSUME NEW i \in 1..n, g[i] = 0
          PROVE  g[i - 1] = 0 /\ bytes[n - i + 1] = 0
        <3>1. g[i - 1] \in Nat /\ bytes[n - i + 1] \in Nat
            <4>1. i - 1 \in 0..n
                BY <1>2
            <4> QED
                BY <1>2, <1>4, <4>1
        <3>2. Base * g[i - 1] + bytes[n - i + 1] = 0
            BY <1>4, <2>2
        <3> QED
            BY <3>1, <3>2, Multiplication
    <2>3. ASSUME NEW i \in 0..(n - 1), i \in T
          PROVE  i + 1 \in T
        <3>1. /\ i + 1 \in 0..n /\ n - i \in 1..n
              /\ (n - i) - 1 = n - (i + 1) /\ g[n - i] = 0
            BY <1>2, <2>3
        <3>2. g[(n - i) - 1] = 0
            BY <2>2, <3>1
        <3> QED
            BY <3>1, <3>2
    <2> HIDE DEF T
    <2>4. \A i \in 0..n : i \in T
        BY <1>2, <2>1, <2>3, SetInduction
    <2>5. ASSUME NEW i \in 1..n
          PROVE  bytes[i] = 0
        <3>1. /\ i - 1 \in 0..n /\ n - i + 1 \in 1..n
              /\ n - (i - 1) = n - i + 1 /\ n - (n - i + 1) + 1 = i
            BY <1>2
        <3>2. g[n - (i - 1)] = 0
            BY <2>4, <3>1 DEF T
        <3>3. g[n - i + 1] = 0
            BY <3>1, <3>2
        <3>4. bytes[n - (n - i + 1) + 1] = 0
            BY <2>2, <3>1, <3>3
        <3> QED
            BY <3>1, <3>4
    <2> QED
        BY <1>3, <2>5 DEF AllZero
<1>7. g[n] \in Nat
    <2>1. n \in 0..n
        BY <1>2
    <2> QED
        BY <1>4, <2>1
<1> QED
    BY <1>1, <1>5, <1>6, <1>7

\* A number that is not zero is not read as zero, in whatever order its bytes
\* were written.
LEMMA ReadsNonzero ==
    ASSUME NEW width \in Nat, NEW n \in Nat, n # 0, n < Values(width)
    PROVE  FromLE(BE(n, width)) \in Nat \ {0}
<1> DEFINE b == LE(n, width)
           e == BE(n, width)
<1>1. b \in Seq(Byte)
    BY LEIs
<1>2. FromLE(b) = n
    BY RoundTrip
<1>3. e = Reverse(b)
    BY DEF BE
<1> HIDE DEF b, e
<1>4. /\ e \in Seq(Byte) /\ Len(e) = Len(b)
      /\ \A i \in 1..Len(b) : e[i] = b[Len(b) - i + 1]
    BY <1>1, <1>3 DEF Reverse
<1>5. ASSUME AllZero(e)
      PROVE  AllZero(b)
    <2>1. ASSUME NEW i \in 1..Len(b)
          PROVE  b[i] = 0
        <3>1. /\ Len(b) \in Nat /\ Len(b) - i + 1 \in 1..Len(b)
              /\ Len(b) - (Len(b) - i + 1) + 1 = i
            BY <1>1
        <3>2. e[Len(b) - i + 1] = b[i]
            BY <1>4, <3>1
        <3>3. Len(b) - i + 1 \in DOMAIN e
            BY <1>4, <3>1
        <3> QED
            BY <1>5, <3>2, <3>3 DEF AllZero
    <2>2. DOMAIN b = 1..Len(b)
        BY <1>1
    <2> QED
        BY <2>1, <2>2 DEF AllZero
<1>6. FromLE(b) # 0
    BY <1>2
<1>7. ~AllZero(b)
    BY <1>1, <1>6, ReadsZero
<1>8. ~AllZero(e)
    BY <1>5, <1>7
<1>9. FromLE(e) \in Nat /\ FromLE(e) # 0
    BY <1>4, <1>8, ReadsZero
<1> QED
    BY <1>9 DEF e

LEMMA NextDigit ==
    ASSUME NEW x \in Nat, NEW v \in Nat, x < v, NEW y \in Byte
    PROVE  Base * x + y < Base * v
<1> DEFINE k == v - x - 1
<1>1. k \in Nat /\ v = x + 1 + k
    OBVIOUS
<1> HIDE DEF k
<1>2. Base * (x + 1 + k) = Base * x + Base + Base * k
    BY <1>1, BaseAssumption
<1>3. Base * k \in Nat /\ Base * x \in Nat
    BY <1>1, Multiplication
<1>4. y < Base /\ y \in Nat /\ Base \in Nat
    BY BaseAssumption DEF Byte
<1> QED
    BY <1>1, <1>2, <1>3, <1>4

\* What is read from some bytes is one of the numbers that have that many.
LEMMA ReadsBelow ==
    ASSUME NEW bytes \in Seq(Byte)
    PROVE  FromLE(bytes) \in Nat /\ FromLE(bytes) < Values(Len(bytes))
<1> DEFINE n == Len(bytes)
<1>1. n \in Nat /\ \A i \in 1..n : bytes[n - i + 1] \in Byte
    OBVIOUS
<1>2. PICK g : IsNumber(g, bytes) /\ FromLE(bytes) = g[n]
    BY NumberIs
<1>3. /\ \A i \in 0..n : g[i] \in Nat
      /\ g[0] = 0
      /\ \A i \in 1..n : g[i] = Base * g[i - 1] + bytes[n - i + 1]
    BY <1>2 DEF IsNumber
<1> HIDE DEF n
<1>4. PICK v : IsValues(v, n) /\ Values(n) = v[n]
    BY <1>1, ValuesIs
<1>5. /\ \A i \in 0..n : v[i] \in Nat
      /\ v[0] = 1 /\ \A i \in 1..n : v[i] = Base * v[i - 1]
    BY <1>4 DEF IsValues
<1> DEFINE T == {i \in 0..n : g[i] < v[i]}
<1>6. 0 \in T
    BY <1>1, <1>3, <1>5
<1>7. ASSUME NEW i \in 0..(n - 1), i \in T
      PROVE  i + 1 \in T
    <2>1. /\ i + 1 \in 1..n /\ i + 1 \in 0..n /\ (i + 1) - 1 = i
          /\ i \in 0..n /\ g[i] < v[i]
        BY <1>1, <1>7
    <2>2. /\ g[i + 1] = Base * g[i] + bytes[n - (i + 1) + 1]
          /\ v[i + 1] = Base * v[i]
        BY <1>3, <1>5, <2>1
    <2>3. g[i] \in Nat /\ v[i] \in Nat /\ bytes[n - (i + 1) + 1] \in Byte
        BY <1>1, <1>3, <1>5, <2>1
    <2>4. Base * g[i] + bytes[n - (i + 1) + 1] < Base * v[i]
        BY <2>1, <2>3, NextDigit
    <2> QED
        BY <2>1, <2>2, <2>4
<1>8. n \in T
    <2> HIDE DEF T
    <2>1. \A i \in 0..n : i \in T
        BY <1>1, <1>6, <1>7, SetInduction
    <2> QED
        BY <1>1, <2>1
<1>9. n \in 0..n
    BY <1>1
<1> QED
    BY <1>2, <1>3, <1>4, <1>8, <1>9 DEF n

------------------------------------------------------------------------------
(***************************************************************************)
(* The parts of a sequence that was put together from others.              *)
(***************************************************************************)
LEMMA SubSeqAll ==
    ASSUME NEW S, NEW s \in Seq(S)
    PROVE  SubSeq(s, 1, Len(s)) = s
<1> DEFINE u == SubSeq(s, 1, Len(s))
<1>1. u \in Seq(S) /\ Len(u) = Len(s) /\ \A i \in 1..Len(s) : u[i] = s[i]
    OBVIOUS
<1> HIDE DEF u
<1> QED
    BY <1>1, SeqEqual DEF u

\* A part of the first sequence.
LEMMA SubSeqLeft ==
    ASSUME NEW S, NEW s \in Seq(S), NEW t \in Seq(S),
           NEW a \in 1..(Len(s) + 1), NEW b \in (a - 1)..Len(s)
    PROVE  SubSeq(s \o t, a, b) = SubSeq(s, a, b)
<1> DEFINE w == s \o t
           u == SubSeq(w, a, b)
           v == SubSeq(s, a, b)
<1>1. w \in Seq(S) /\ Len(w) = Len(s) + Len(t)
      /\ \A i \in 1..Len(s) : w[i] = s[i]
    OBVIOUS
<1> HIDE DEF w
<1>2. u \in Seq(S) /\ Len(u) = b - a + 1
      /\ \A i \in 1..(b - a + 1) : u[i] = w[a + i - 1]
    BY <1>1
<1>3. v \in Seq(S) /\ Len(v) = b - a + 1
      /\ \A i \in 1..(b - a + 1) : v[i] = s[a + i - 1]
    OBVIOUS
<1>4. \A i \in 1..(b - a + 1) : a + i - 1 \in 1..Len(s)
    OBVIOUS
<1> HIDE DEF u, v
<1>5. \A i \in 1..(b - a + 1) : u[i] = v[i]
    BY <1>1, <1>2, <1>3, <1>4
<1>6. u = v
    BY <1>2, <1>3, <1>5, SeqEqual
<1> QED
    BY <1>6 DEF u, v, w

\* A part of the second sequence.
LEMMA SubSeqRight ==
    ASSUME NEW S, NEW s \in Seq(S), NEW t \in Seq(S),
           NEW a \in 1..(Len(t) + 1), NEW b \in (a - 1)..Len(t)
    PROVE  SubSeq(s \o t, Len(s) + a, Len(s) + b) = SubSeq(t, a, b)
<1> DEFINE n == Len(s)
           w == s \o t
           u == SubSeq(w, n + a, n + b)
           v == SubSeq(t, a, b)
<1>1. /\ n \in Nat /\ w \in Seq(S) /\ Len(w) = n + Len(t)
      /\ \A i \in 1..Len(t) : w[n + i] = t[i]
    OBVIOUS
<1> HIDE DEF w, n
<1>2. u \in Seq(S) /\ Len(u) = b - a + 1
      /\ \A i \in 1..(b - a + 1) : u[i] = w[n + a + i - 1]
    <2> DEFINE p == n + a
               q == n + b
    <2>1. p \in 1..(Len(w) + 1) /\ q \in (p - 1)..Len(w)
          /\ q - p + 1 = b - a + 1
        BY <1>1
    <2> HIDE DEF p, q
    <2>2. /\ SubSeq(w, p, q) \in Seq(S) /\ Len(SubSeq(w, p, q)) = q - p + 1
          /\ \A i \in 1..(q - p + 1) : SubSeq(w, p, q)[i] = w[p + i - 1]
        BY <1>1, <2>1
    <2> QED
        BY <2>1, <2>2 DEF p, q
<1>3. v \in Seq(S) /\ Len(v) = b - a + 1
      /\ \A i \in 1..(b - a + 1) : v[i] = t[a + i - 1]
    OBVIOUS
<1>4. \A i \in 1..(b - a + 1) :
         a + i - 1 \in 1..Len(t) /\ n + (a + i - 1) = n + a + i - 1
    BY <1>1
<1> HIDE DEF u, v
<1>5. \A i \in 1..(b - a + 1) : u[i] = v[i]
    BY <1>1, <1>2, <1>3, <1>4
<1>6. u = v
    BY <1>2, <1>3, <1>5, SeqEqual
<1> QED
    BY <1>6 DEF u, v, w, n
==============================================================================
