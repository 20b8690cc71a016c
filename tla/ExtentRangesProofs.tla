------------------------ MODULE ExtentRangesProofs -------------------------
(***************************************************************************)
(* ExtentRanges and lists of extents for images of any size: what          *)
(* AddExtent, SubtractExtent, ContainsBlock, OverlapsWithExtent,           *)
(* FilterExtentRanges, GetExtentsForBlockCount and SplitSourceCopy do to   *)
(* the blocks that the extents stand for.  Each loop of the code is a      *)
(* recursive function over the list that it goes through: RecursionExists  *)
(* gives its values, an invariant of the loop is proved by induction over  *)
(* the list, and what the loop returns follows.                            *)
(* Induction and recursion rest on one fact that speaks of sets only: no   *)
(* set of natural numbers is without a least element.                      *)
(***************************************************************************)
EXTENDS ExtentRanges, SequenceTheorems, FiniteSetTheorems, WellFoundedInduction, TLAPS

(* The order of the natural numbers, as a relation.                        *)
Below == {p \in Nat \X Nat : p[1] < p[2]}

(* It is well founded.                                                     *)
LEMMA BelowIsWellFounded == IsWellFoundedOn(Below, Nat)
<1>1. OpToRel(<, Nat) = Below
  BY Zenon DEF OpToRel, Below
<1> QED
  BY <1>1, NatLessThanWellFounded, Zenon

(* A set of natural numbers that is not empty has a least one.             *)
LEMMA LeastNumber ==
    ASSUME NEW T, T \subseteq Nat, T # {}
    PROVE  \E m \in T : \A k \in T : m <= k
<1>1. PICK m \in T : \A k \in T : ~(<<k, m>> \in Below)
  BY BelowIsWellFounded, WFMin, Zenon
<1>2. \A k \in T : ~(k < m)
  BY <1>1, Zenon DEF Below
<1> QED
  BY <1>1, <1>2

(* Induction: a set with zero and every successor has all the numbers.     *)
LEMMA Induction ==
    ASSUME NEW S, S \subseteq Nat, 0 \in S, \A n \in S : n + 1 \in S
    PROVE  S = Nat
<1> SUFFICES ASSUME S # Nat PROVE FALSE
  OBVIOUS
<1> DEFINE T == Nat \ S
<1>1. T \subseteq Nat /\ T # {}
  BY Zenon
<1> HIDE DEF T
<1>2. PICK m \in T : \A k \in T : m <= k
  BY <1>1, LeastNumber, Zenon
<1>3. m # 0 /\ m - 1 \in Nat /\ m - 1 \in S
  BY <1>2 DEF T
<1> QED
  BY <1>2, <1>3 DEF T

(* step leads from each value to the next.                                 *)
Steps(step, n, A) == step \in [1..n -> [A -> A]]

(* f is defined on 0..n from its value before.                             *)
DefinedBy(f, n, A, base, step) ==
    f \in [0..n -> A] /\ f[0] = base /\ \A i \in 1..n : f[i] = step[i][f[i - 1]]

(* Such a function exists.                                                 *)
LEMMA RecursionExists ==
    ASSUME NEW A, NEW base \in A, NEW n \in Nat, NEW step, Steps(step, n, A)
    PROVE  \E f : DefinedBy(f, n, A, base, step)
<1> DEFINE Good(m) == \E f : DefinedBy(f, m, A, base, step)
           S == {m \in Nat : m <= n => Good(m)}
<1>1. Good(0)
  <2> DEFINE f == [i \in 0..0 |-> base]
  <2>1. DefinedBy(f, 0, A, base, step)
    BY DEF DefinedBy
  <2> QED  BY <2>1
<1>2. ASSUME NEW m \in Nat, m + 1 <= n, Good(m) PROVE Good(m + 1)
  <2>1. m + 1 \in 1..n /\ m \in 0..m
    BY <1>2
  <2>2. PICK f : DefinedBy(f, m, A, base, step)
    BY <1>2
  <2> DEFINE g == [i \in 0..(m + 1) |-> IF i = m + 1 THEN step[m + 1][f[m]] ELSE f[i]]
  <2>3. f[m] \in A /\ step[m + 1][f[m]] \in A
    BY <2>1, <2>2 DEF DefinedBy, Steps
  <2>4. g \in [0..(m + 1) -> A] /\ g[0] = base
    BY <2>1, <2>2, <2>3 DEF DefinedBy
  <2>5. ASSUME NEW i \in 1..(m + 1) PROVE g[i] = step[i][g[i - 1]]
    <3>1. CASE i = m + 1
      BY <3>1, <2>1
    <3>2. CASE i \in 1..m
      <4>1. g[i] = f[i] /\ g[i - 1] = f[i - 1]
        BY <3>2
      <4>2. f[i] = step[i][f[i - 1]]
        BY <3>2, <2>2 DEF DefinedBy
      <4> QED  BY <4>1, <4>2
    <3> QED  BY <3>1, <3>2
  <2>6. DefinedBy(g, m + 1, A, base, step)
    BY <2>4, <2>5, Zenon DEF DefinedBy
  <2> QED  BY <2>6
<1> HIDE DEF Good
<1>3. S = Nat
  <2>1. \A m \in S : m + 1 \in S
    BY <1>2
  <2> QED  BY <1>1, <2>1, Induction, Zenon
<1>4. Good(n)
  BY <1>3
<1> QED
  BY <1>4 DEF Good

(* A function that follows the steps from each value of the right type has *)
(* values of that type throughout.                                         *)
LEMMA RecursionTyped ==
    ASSUME NEW A, NEW base \in A, NEW n \in Nat, NEW step, Steps(step, n, A), NEW f,
           f = [i \in 0..n |-> f[i]], f[0] = base,
           \A i \in 1..n : f[i - 1] \in A => f[i] = step[i][f[i - 1]]
    PROVE  DefinedBy(f, n, A, base, step)
<1> DEFINE S == {i \in Nat : i <= n => f[i] \in A}
<1>1. 0 \in S
  OBVIOUS
<1>2. ASSUME NEW i \in S PROVE i + 1 \in S
  <2> SUFFICES ASSUME i + 1 <= n PROVE f[i + 1] \in A
    OBVIOUS
  <2>1. i + 1 \in 1..n /\ (i + 1) - 1 = i /\ f[i] \in A
    OBVIOUS
  <2>2. step[i + 1] \in [A -> A]
    BY <2>1 DEF Steps
  <2> QED  BY <2>1, <2>2, Zenon
<1>3. S = Nat
  BY <1>1, <1>2, Induction, Zenon
<1>4. \A i \in 0..n : f[i] \in A
  BY <1>3
<1>5. \A i \in 1..n : i - 1 \in 0..n
  OBVIOUS
<1> QED
  BY <1>4, <1>5 DEF DefinedBy

-----------------------------------------------------------------------------
(* The numbers of a set that are below one.                                *)
LessThan(set, a) == {b \in set : b < a}

(* s is in strictly ascending order.                                       *)
Rising(s) == \A i, j \in DOMAIN s : i < j => s[i] < s[j]

(* Elements of a finite set of numbers are told apart by how many are      *)
(* below them.                                                             *)
LEMMA RanksDiffer ==
    ASSUME NEW set, set \subseteq Int, IsFiniteSet(set), NEW a \in set, NEW b \in set, a < b
    PROVE  /\ Cardinality(LessThan(set, a)) \in Nat
           /\ Cardinality(LessThan(set, a)) < Cardinality(LessThan(set, b))
           /\ Cardinality(LessThan(set, b)) < Cardinality(set)
<1>1. ASSUME NEW S, IsFiniteSet(S), NEW T, T \subseteq S, NEW x \in S, x \notin T
      PROVE  Cardinality(T) \in Nat /\ Cardinality(T) < Cardinality(S) /\ IsFiniteSet(T)
  <2>1. T \in SUBSET S /\ T # S
    BY <1>1
  <2>2. IsFiniteSet(T) /\ Cardinality(T) <= Cardinality(S) /\ (Cardinality(S) = Cardinality(T) => S = T)
    BY <2>1, <1>1, FS_Subset, Zenon
  <2>3. Cardinality(T) \in Nat /\ Cardinality(S) \in Nat
    BY <1>1, <2>2, FS_CardinalityType, Zenon
  <2> QED  BY <2>1, <2>2, <2>3
<1>2. /\ LessThan(set, a) \subseteq LessThan(set, b) /\ a \in LessThan(set, b)
      /\ a \notin LessThan(set, a)
  <2>1. a \in Int /\ b \in Int /\ ~(a < a)
    OBVIOUS
  <2>2. ASSUME NEW x \in set, x < a PROVE x < b
    <3>1. x \in Int
      OBVIOUS
    <3> QED  BY <2>1, <2>2, <3>1
  <2> QED  BY <2>1, <2>2, Zenon DEF LessThan
<1>3. LessThan(set, b) \subseteq set /\ b \notin LessThan(set, b)
  BY DEF LessThan
<1>4. Cardinality(LessThan(set, b)) < Cardinality(set) /\ IsFiniteSet(LessThan(set, b))
  BY <1>1, <1>3, Zenon
<1>5. /\ Cardinality(LessThan(set, a)) \in Nat
      /\ Cardinality(LessThan(set, a)) < Cardinality(LessThan(set, b))
  BY <1>1, <1>2, <1>4, Zenon
<1> QED  BY <1>4, <1>5, Zenon

(* The rank of a number in a finite set is one of 0 .. Cardinality - 1.    *)
LEMMA RankInRange ==
    ASSUME NEW set, set \subseteq Int, IsFiniteSet(set), NEW a \in set
    PROVE  Cardinality(LessThan(set, a)) \in 0..(Cardinality(set) - 1)
<1>1. LessThan(set, a) \in SUBSET set /\ a \notin LessThan(set, a)
  BY DEF LessThan
<1>2. /\ IsFiniteSet(LessThan(set, a)) /\ Cardinality(LessThan(set, a)) <= Cardinality(set)
      /\ (Cardinality(set) = Cardinality(LessThan(set, a)) => set = LessThan(set, a))
  BY <1>1, FS_Subset, Zenon
<1>3. Cardinality(LessThan(set, a)) \in Nat /\ Cardinality(set) \in Nat
  BY <1>2, FS_CardinalityType, Zenon
<1> QED  BY <1>1, <1>2, <1>3

(* Ascending lists every element, in ascending order.                      *)
LEMMA AscendingLists ==
    ASSUME NEW set, set \subseteq Int, IsFiniteSet(set)
    PROVE  /\ Cardinality(set) \in Nat
           /\ Ascending(set) \in [1..Cardinality(set) -> set]
           /\ Rising(Ascending(set))
           /\ \A a \in set : \E i \in 1..Cardinality(set) : Ascending(set)[i] = a
<1> DEFINE n == Cardinality(set)
           Rank(a) == Cardinality(LessThan(set, a))
           rank == [a \in set |-> Rank(a) + 1]
           P(i, a) == a \in set /\ Rank(a) = i - 1
<1>1. n \in Nat
  BY FS_CardinalityType, Zenon
<1>2. \A a \in set : Rank(a) \in 0..(n - 1)
  BY RankInRange, Zenon
<1>3. \A a, b \in set : a < b => Rank(a) < Rank(b)
  BY RanksDiffer, Zenon
<1> HIDE DEF n, Rank
<1>4. rank \in [set -> 1..n]
  BY <1>1, <1>2
<1>5. \A a, b \in set : rank[a] = rank[b] => a = b
  BY <1>2, <1>3
<1>6. rank \in Injection(set, 1..n)
  BY <1>4, <1>5, Zenon DEF Injection, IsInjective
<1>7. IsFiniteSet(1..n) /\ Cardinality(1..n) = n
  BY <1>1, FS_Interval
<1>8. rank \in Surjection(set, 1..n)
  BY <1>6, <1>7, FS_Injection, Zenon DEF n
<1>9. \A i \in 1..n : \E a : P(i, a)
  <2>1. \A i \in 1..n : \E a \in set : rank[a] = i
    BY <1>8, Zenon DEF Surjection
  <2> QED  BY <2>1, <1>2
<1>10. Ascending(set) = [i \in 1..n |-> CHOOSE a \in set : Rank(a) = i - 1]
  BY Zenon DEF Ascending, n, Rank, LessThan
<1>11. \A i \in 1..n : Ascending(set)[i] \in set /\ Rank(Ascending(set)[i]) = i - 1
  BY <1>9, <1>10
<1>12. Ascending(set) \in [1..n -> set]
  BY <1>10, <1>11
<1>13. Rising(Ascending(set))
  <2> SUFFICES ASSUME NEW i \in 1..n, NEW j \in 1..n, i < j
               PROVE  Ascending(set)[i] < Ascending(set)[j]
    BY <1>12 DEF Rising
  <2> DEFINE a == Ascending(set)[i]
             b == Ascending(set)[j]
  <2>1. a \in set /\ b \in set /\ Rank(a) = i - 1 /\ Rank(b) = j - 1
    BY <1>11
  <2> HIDE DEF a, b
  <2>2. a # b /\ ~(b < a)
    BY <2>1, <1>3, <1>1
  <2>3. a \in Int /\ b \in Int
    BY <2>1
  <2>4. a < b
    BY <2>2, <2>3
  <2> QED  BY <2>4 DEF a, b
<1>14. \A a \in set : \E i \in 1..n : Ascending(set)[i] = a
  <2> SUFFICES ASSUME NEW a \in set PROVE \E i \in 1..n : Ascending(set)[i] = a
    OBVIOUS
  <2> DEFINE i == Rank(a) + 1
             b == Ascending(set)[i]
  <2>1. i \in 1..n /\ i - 1 = Rank(a)
    BY <1>1, <1>2
  <2>2. b \in set /\ Rank(b) = Rank(a)
    BY <2>1, <1>11, Zenon
  <2> HIDE DEF b
  <2>3. a = b
    BY <2>2, <1>3, <1>2
  <2> QED  BY <2>1, <2>3 DEF b
<1> QED  BY <1>1, <1>12, <1>13, <1>14, Zenon DEF n

(* It is the only list that does.                                          *)
LEMMA AscendingIsUnique ==
    ASSUME NEW set, set \subseteq Int, NEW s \in Seq(set), Rising(s),
           \A a \in set : \E i \in DOMAIN s : s[i] = a
    PROVE  Ascending(set) = s /\ IsFiniteSet(set) /\ Cardinality(set) = Len(s)
<1> DEFINE n == Len(s)
           Rank(a) == Cardinality(LessThan(set, a))
<1>1. n \in Nat /\ s \in [1..n -> set] /\ DOMAIN s = 1..n
  BY LenProperties
<1>2. \A i, j \in 1..n : (i < j => s[i] < s[j]) /\ (s[i] = s[j] => i = j) /\ s[i] \in Int
  <2>1. \A i \in 1..n : s[i] \in Int
    BY <1>1, Zenon
  <2>2. \A i, j \in 1..n : i < j => s[i] < s[j]
    BY <1>1 DEF Rising
  <2> QED  BY <2>1, <2>2, <1>1
<1> HIDE DEF n
<1>3. ASSUME NEW k \in 0..n, NEW T, T = {s[i] : i \in 1..k}
      PROVE  IsFiniteSet(T) /\ Cardinality(T) = k
  <2> DEFINE f == [i \in 1..k |-> s[i]]
  <2>1. f \in Bijection(1..k, T)
    <3>1. f \in [1..k -> T] /\ \A i, j \in 1..k : f[i] = f[j] => i = j
      BY <1>1, <1>2, <1>3
    <3>2. \A x \in T : \E i \in 1..k : f[i] = x
      BY <1>3
    <3> QED  BY <3>1, <3>2, Zenon DEF Bijection, Injection, Surjection, IsInjective
  <2>2. ExistsBijection(1..k, T)
    BY <2>1, Zenon DEF ExistsBijection
  <2>3. k \in Int /\ k \in Nat /\ IsFiniteSet(1..k) /\ Cardinality(1..k) = k
    BY <1>1, FS_Interval
  <2> QED  BY <2>2, <2>3, FS_Bijection
<1>4. set = {s[i] : i \in 1..n}
  BY <1>1, Zenon
<1>5. IsFiniteSet(set) /\ Cardinality(set) = n
  BY <1>1, <1>3, <1>4
<1>6. ASSUME NEW i \in 1..n PROVE Rank(s[i]) = i - 1
  <2>1. LessThan(set, s[i]) = {s[j] : j \in 1..(i - 1)}
    <3>1. ASSUME NEW x \in LessThan(set, s[i]) PROVE x \in {s[j] : j \in 1..(i - 1)}
      <4>1. PICK j \in 1..n : s[j] = x
        BY <1>1 DEF LessThan
      <4>2. s[j] < s[i]
        BY <4>1 DEF LessThan
      <4>3. j < i
        BY <4>2, <1>2, <1>1
      <4> QED  BY <4>1, <4>3
    <3>2. ASSUME NEW j \in 1..(i - 1) PROVE s[j] \in LessThan(set, s[i])
      BY <1>1, <1>2 DEF LessThan
    <3> QED  BY <3>1, <3>2
  <2>2. i - 1 \in 0..n
    BY <1>1
  <2> QED  BY <2>1, <2>2, <1>3
<1>7. /\ Ascending(set) \in [1..n -> set]
      /\ \A i \in 1..n : Ascending(set)[i] = CHOOSE a \in set : Rank(a) = i - 1
  <2>1. Ascending(set) = [i \in 1..n |-> CHOOSE a \in set : Rank(a) = i - 1]
    BY <1>5, Zenon DEF Ascending, LessThan
  <2>2. Ascending(set) \in [1..n -> set]
    BY <1>5, AscendingLists, Zenon
  <2> QED  BY <2>1, <2>2
<1>8. \A a, b \in set : a < b => Rank(a) < Rank(b) /\ Rank(a) \in Nat /\ Rank(b) \in Nat
  <2>1. \A a, b \in set : a < b => Rank(a) < Rank(b)
    BY <1>5, RanksDiffer, Zenon
  <2>2. \A a \in set : Rank(a) \in 0..(Cardinality(set) - 1)
    BY <1>5, RankInRange, Zenon
  <2> QED  BY <2>1, <2>2
<1> HIDE DEF Rank
<1>9. ASSUME NEW i \in 1..n PROVE Ascending(set)[i] = s[i]
  <2>1. s[i] \in set /\ Rank(s[i]) = i - 1
    BY <1>1, <1>6
  <2>2. \A a \in set : a \in Int
    OBVIOUS
  <2>3. ASSUME NEW a \in set, Rank(a) = i - 1 PROVE a = s[i]
    <3>1. a \in Int /\ s[i] \in Int
      BY <2>1, <2>2, Zenon
    <3>2. a < s[i] \/ s[i] < a \/ a = s[i]
      BY <3>1
    <3>3. ~(i - 1 < i - 1)
      BY <1>1
    <3> QED  BY <2>1, <2>3, <3>2, <3>3, <1>8, Zenon
  <2> QED  BY <2>1, <2>3, <1>7, Zenon
<1>10. Ascending(set) = s
  BY <1>1, <1>7, <1>9
<1> QED  BY <1>5, <1>10 DEF n

-----------------------------------------------------------------------------
(* The extents are told apart by their starts.                             *)
StartsDiffer(set) ==
    (\A e \in set : e.start \in Int) /\ \A a, b \in set : a.start = b.start => a = b

(* s lists the extents of a set in the order of their starts.              *)
Lists(s, set) ==
    /\ s \in Seq(set)
    /\ \A i, j \in DOMAIN s : i < j => s[i].start < s[j].start
    /\ \A e \in set : \E i \in DOMAIN s : s[i] = e

(* InOrder does.                                                           *)
LEMMA InOrderLists ==
    ASSUME NEW set, IsFiniteSet(set), StartsDiffer(set)
    PROVE  Lists(InOrder(set), set)
<1> DEFINE K == {e.start : e \in set}
           f == [e \in set |-> e.start]
           a == Ascending(K)
           n == Cardinality(K)
           s == InOrder(set)
<1>1. K \subseteq Int
  BY DEF StartsDiffer
<1>2. f \in Surjection(set, K)
  <2>1. f \in [set -> K] /\ \A k \in K : \E e \in set : f[e] = k
    OBVIOUS
  <2> QED  BY <2>1, Zenon DEF Surjection
<1> HIDE DEF f
<1>3. IsFiniteSet(K)
  BY <1>2, FS_Surjection, Zenon
<1>4. /\ n \in Nat /\ a \in [1..n -> K] /\ Rising(a)
      /\ \A k \in K : \E i \in 1..n : a[i] = k
  <2> HIDE DEF K
  <2> QED  BY <1>1, <1>3, AscendingLists, Zenon
<1>5. s = [i \in DOMAIN a |-> CHOOSE e \in set : e.start = a[i]]
  BY Zenon DEF InOrder
<1> HIDE DEF n, a, s
<1>6. DOMAIN a = 1..n
  BY <1>4
<1>7. \A i \in 1..n : s[i] \in set /\ s[i].start = a[i]
  <2> SUFFICES ASSUME NEW i \in 1..n PROVE s[i] \in set /\ s[i].start = a[i]
    OBVIOUS
  <2>1. \E e \in set : e.start = a[i]
    BY <1>4
  <2> QED  BY <2>1, <1>5, <1>6
<1>8. s \in [1..n -> set] /\ DOMAIN s = 1..n
  BY <1>5, <1>6, <1>7
<1>9. s \in Seq(set)
  BY <1>4, <1>8, SeqDef
<1>10. \A i, j \in DOMAIN s : i < j => s[i].start < s[j].start
  BY <1>7, <1>8, <1>4 DEF Rising
<1>11. \A e \in set : \E i \in DOMAIN s : s[i] = e
  <2> SUFFICES ASSUME NEW e \in set PROVE \E i \in 1..n : s[i] = e
    BY <1>8
  <2>1. PICK i \in 1..n : a[i] = e.start
    BY <1>4
  <2> QED  BY <2>1, <1>7 DEF StartsDiffer
<1> QED  BY <1>9, <1>10, <1>11 DEF s, Lists

-----------------------------------------------------------------------------
(* What may stand in a list of extents.                                    *)
Extents == [start : Int, num : Nat]

(* b has the blocks of each beginning of s.                                *)
Listing(b, s) ==
    /\ b \in [0..Len(s) -> Seq(Int)]
    /\ b[0] = <<>>
    /\ \A i \in 1..Len(s) : b[i] = b[i - 1] \o Run(s[i])

(* The blocks of one extent, as a list.                                    *)
LEMMA RunIsSeq ==
    ASSUME NEW e \in Extents
    PROVE  /\ Run(e) \in Seq(Int) /\ Len(Run(e)) = e.num
           /\ \A k \in 1..e.num : Run(e)[k] = e.start + k - 1
<1>1. e.num \in Nat /\ e.start \in Int
  BY DEF Extents
<1>2. Run(e) \in [1..e.num -> Int]
  BY <1>1 DEF Run
<1>3. Run(e) \in Seq(Int)
  BY <1>1, <1>2, SeqDef
<1> QED  BY <1>1, <1>2, <1>3, LenProperties DEF Run

(* Blocks follows its recursion.                                           *)
LEMMA BlocksFollows ==
    ASSUME NEW s \in Seq(Extents)
    PROVE  \E b : Listing(b, s) /\ Blocks(s) = b[Len(s)]
<1> DEFINE n == Len(s)
           A == Seq(Int)
           Step(q, i) == q \o Run(s[i])
           step == [i \in 1..n |-> [q \in A |-> Step(q, i)]]
           Body(g) == [i \in 0..n |-> IF i = 0 THEN <<>> ELSE Step(g[i - 1], i)]
           b == CHOOSE g : g = Body(g)
<1>1. n \in Nat /\ <<>> \in A
  OBVIOUS
<1>2. \A q \in A : \A i \in 1..n : Step(q, i) \in A
  <2> SUFFICES ASSUME NEW q \in A, NEW i \in 1..n PROVE q \o Run(s[i]) \in A
    OBVIOUS
  <2>1. s[i] \in Extents
    BY ElementOfSeq
  <2>2. Run(s[i]) \in A
    BY <2>1, RunIsSeq
  <2> QED  BY <2>2, ConcatProperties
<1>3. Blocks(s) = b[n]
  BY Zenon DEF Blocks
<1> HIDE DEF n, A, Step
<1>4. Steps(step, n, A)
  BY <1>2 DEF Steps
<1>5. \A i \in 1..n : \A q \in A : step[i][q] = Step(q, i)
  OBVIOUS
<1> HIDE DEF step
<1>6. PICK f : DefinedBy(f, n, A, <<>>, step)
  BY <1>1, <1>4, RecursionExists, Zenon
<1>7. \A i \in 1..n : i - 1 \in 0..n
  BY <1>1
<1>8. f = Body(f)
  <2>1. ASSUME NEW i \in 1..n PROVE f[i] = Step(f[i - 1], i)
    BY <1>5, <1>6, <1>7 DEF DefinedBy
  <2>2. \A i \in 0..n : i = 0 \/ i \in 1..n
    BY <1>1
  <2> QED  BY <1>6, <2>1, <2>2, Zenon DEF DefinedBy
<1>9. b = Body(b)
  <2> HIDE DEF Body
  <2> QED  BY <1>8
<1> HIDE DEF b
<1>10. /\ b = [i \in 0..n |-> b[i]] /\ b[0] = <<>>
       /\ \A i \in 1..n : b[i] = Step(b[i - 1], i)
  <2>1. \A i \in 1..n : i \in 0..n /\ i # 0
    BY <1>1
  <2> QED  BY <1>9, <1>1, <2>1
<1> HIDE DEF Body
<1>11. DefinedBy(b, n, A, <<>>, step)
  BY <1>1, <1>4, <1>5, <1>10, RecursionTyped, Zenon
<1> QED  BY <1>10, <1>11, <1>3, Zenon DEF DefinedBy, Listing, n, A, Step

(* What the blocks of a longer list are.                                   *)
LEMMA BlocksAppend ==
    ASSUME NEW s \in Seq(Extents), NEW e \in Extents
    PROVE  Blocks(s) \in Seq(Int) /\ Blocks(Append(s, e)) = Blocks(s) \o Run(e)
<1> DEFINE n == Len(s)
           t == Append(s, e)
<1>1. n \in Nat /\ t \in Seq(Extents) /\ Len(t) = n + 1 /\ t[n + 1] = e
  BY AppendProperties
<1>2. \A i \in 1..n : t[i] = s[i]
  BY AppendProperties
<1>3. PICK b : Listing(b, s) /\ Blocks(s) = b[n]
  BY BlocksFollows
<1> HIDE DEF n, t
<1>4. PICK c : Listing(c, t) /\ Blocks(t) = c[n + 1]
  BY <1>1, BlocksFollows
<1> DEFINE S == {i \in Nat : i <= n => c[i] = b[i]}
<1>5. 0 \in S
  BY <1>3, <1>4 DEF Listing
<1>6. ASSUME NEW i \in S PROVE i + 1 \in S
  <2> SUFFICES ASSUME i + 1 <= n PROVE c[i + 1] = b[i + 1]
    OBVIOUS
  <2>1. i + 1 \in 1..n /\ i + 1 \in 1..(n + 1) /\ (i + 1) - 1 = i /\ c[i] = b[i]
    BY <1>1
  <2>2. b[i + 1] = b[i] \o Run(s[i + 1])
    BY <2>1, <1>3, Zenon DEF Listing, n
  <2>3. c[i + 1] = c[i] \o Run(t[i + 1])
    BY <2>1, <1>4, <1>1, Zenon DEF Listing
  <2> QED  BY <2>1, <2>2, <2>3, <1>2, Zenon
<1>7. S = Nat
  BY <1>5, <1>6, Induction, Zenon
<1>8. c[n] = b[n]
  BY <1>7, <1>1
<1>9. n + 1 \in 1..(n + 1) /\ (n + 1) - 1 = n /\ n \in 0..n
  BY <1>1
<1>10. c[n + 1] = c[n] \o Run(e)
  BY <1>1, <1>4, <1>9, Zenon DEF Listing
<1>11. b[n] \in Seq(Int)
  BY <1>3, <1>9 DEF Listing, n
<1> QED  BY <1>3, <1>4, <1>8, <1>10, <1>11 DEF t

(* The blocks of a list are a list of numbers.                             *)
LEMMA BlocksIsSeq == \A s \in Seq(Extents) : Blocks(s) \in Seq(Int) /\ Len(Blocks(s)) \in Nat
<1> TAKE s \in Seq(Extents)
<1>1. [start |-> 0, num |-> 0] \in Extents
  BY DEF Extents
<1>2. Blocks(s) \in Seq(Int)
  BY <1>1, BlocksAppend
<1> QED  BY <1>2, LenProperties

(* An empty list has none.                                                 *)
LEMMA BlocksOfNothing == Blocks(<<>>) = <<>>
<1>1. <<>> \in Seq(Extents) /\ Len(<<>>) = 0
  BY EmptySeq
<1>2. PICK b : Listing(b, <<>>) /\ Blocks(<<>>) = b[0]
  BY <1>1, BlocksFollows, Zenon
<1> QED  BY <1>2 DEF Listing

(* The blocks of a list of one extent.                                     *)
LEMMA BlocksOfOne ==
    ASSUME NEW e \in Extents
    PROVE  Blocks(<<e>>) = Run(e)
<1>1. <<>> \in Seq(Extents) /\ Append(<<>>, e) = <<e>>
  OBVIOUS
<1>2. Blocks(<<e>>) = <<>> \o Run(e)
  BY <1>1, BlocksAppend, BlocksOfNothing, Zenon
<1>3. Run(e) \in Seq(Int)
  BY RunIsSeq
<1> QED  BY <1>2, <1>3, ConcatEmptySeq

-----------------------------------------------------------------------------
(* q lists the blocks of the first n extents of s in ascending order.      *)
ListsBlocks(q, s, n) ==
    /\ \A k, l \in DOMAIN q : k < l => q[k] < q[l]
    /\ \A k \in DOMAIN q : \E j \in 1..n : q[k] \in BlocksOf(s[j])
    /\ \A j \in 1..n : \A x \in BlocksOf(s[j]) : \E k \in DOMAIN q : q[k] = x

(* Which blocks an extent has.                                             *)
LEMMA InBlocks ==
    ASSUME NEW e \in Extents
    PROVE  /\ e.start \in Int /\ e.num \in Nat /\ End(e) \in Int /\ End(e) = e.start + e.num
           /\ \A x : x \in BlocksOf(e) <=> x \in Int /\ e.start <= x /\ x < End(e)
<1>1. e.start \in Int /\ e.num \in Nat
  BY DEF Extents
<1> DEFINE a == e.start
           b == End(e)
<1>2. b \in Int /\ b = a + e.num /\ a \in Int
  BY <1>1 DEF End
<1>3. BlocksOf(e) = a..(b - 1)
  BY Zenon DEF BlocksOf
<1> HIDE DEF a, b
<1>4. \A x : x \in a..(b - 1) <=> x \in Int /\ a <= x /\ x < b
  BY <1>2
<1> QED  BY <1>1, <1>2, <1>3, <1>4 DEF a, b

(* One extent more.                                                        *)
LEMMA ListsOneMore ==
    ASSUME NEW s \in Seq(Extents), NEW n \in Nat, n + 1 <= Len(s),
           \A j \in 1..n : End(s[j]) <= s[n + 1].start,
           NEW q \in Seq(Int), ListsBlocks(q, s, n)
    PROVE  ListsBlocks(q \o Run(s[n + 1]), s, n + 1)
<1> DEFINE e == s[n + 1]
           a == e.start
           c == e.num
           m == Len(q)
           run == Run(e)
           t == q \o run
<1>1. n + 1 \in 1..Len(s) /\ \A j \in 1..n : j \in 1..Len(s)
  BY LenProperties
<1>2. e \in Extents /\ \A j \in 1..n : s[j] \in Extents
  BY <1>1, ElementOfSeq
<1>3. a \in Int /\ c \in Nat /\ m \in Nat
  BY <1>2, LenProperties DEF Extents
<1>4. run \in Seq(Int) /\ Len(run) = c /\ \A k \in 1..c : run[k] = a + k - 1
  BY <1>2, RunIsSeq
<1>5. \A j \in 1..n : \A x \in BlocksOf(s[j]) : x \in Int /\ x < a
  <2> SUFFICES ASSUME NEW j \in 1..n, NEW x \in BlocksOf(s[j]) PROVE x \in Int /\ x < a
    OBVIOUS
  <2>1. x \in Int /\ x < End(s[j]) /\ End(s[j]) \in Int
    BY <1>2, InBlocks
  <2> HIDE DEF a
  <2> QED  BY <2>1, <1>3 DEF a, e
<1>6. \A x : x \in BlocksOf(e) <=> x \in Int /\ a <= x /\ x < a + c
  BY <1>2, InBlocks
<1> HIDE DEF e, a, c, run
<1>7. /\ t \in Seq(Int) /\ Len(t) = m + c
      /\ \A i \in 1..(m + c) : t[i] = IF i <= m THEN q[i] ELSE run[i - m]
  BY <1>4, ConcatProperties
<1>8. DOMAIN t = 1..(m + c) /\ DOMAIN q = 1..m
  BY <1>7, LenProperties
<1> HIDE DEF m, t
<1>9. \A k \in 1..m : t[k] = q[k]
  BY <1>3, <1>7
<1>10. \A k \in 1..(m + c) : k > m => t[k] = a + (k - m) - 1
  <2> SUFFICES ASSUME NEW k \in 1..(m + c), k > m PROVE t[k] = a + (k - m) - 1
    OBVIOUS
  <2>1. k - m \in 1..c /\ t[k] = run[k - m]
    BY <1>3, <1>7
  <2> QED  BY <2>1, <1>4
<1>11. \A k \in 1..m : q[k] \in Int /\ q[k] < a
  BY <1>5, <1>8 DEF ListsBlocks
<1>12. \A k, l \in DOMAIN t : k < l => t[k] < t[l]
  <2> SUFFICES ASSUME NEW k \in 1..(m + c), NEW l \in 1..(m + c), k < l PROVE t[k] < t[l]
    BY <1>8
  <2>1. CASE l <= m
    <3>1. k \in 1..m /\ l \in 1..m
      BY <2>1, <1>3
    <3> QED  BY <3>1, <1>8, <1>9 DEF ListsBlocks
  <2>2. CASE l > m /\ k <= m
    <3>1. k \in 1..m /\ t[l] = a + (l - m) - 1
      BY <2>2, <1>3, <1>10
    <3>2. t[k] \in Int /\ t[k] < a
      BY <3>1, <1>9, <1>11
    <3> QED  BY <3>1, <3>2, <2>2, <1>3
  <2>3. CASE k > m
    <3>1. t[k] = a + (k - m) - 1 /\ t[l] = a + (l - m) - 1
      BY <2>3, <1>3, <1>10
    <3> QED  BY <3>1, <2>3, <1>3
  <2> QED  BY <2>1, <2>2, <2>3, <1>3
<1>13. ASSUME NEW k \in DOMAIN t PROVE \E j \in 1..(n + 1) : t[k] \in BlocksOf(s[j])
  <2>1. CASE k \in 1..m
    <3>1. PICK j \in 1..n : q[k] \in BlocksOf(s[j])
      BY <2>1, <1>8 DEF ListsBlocks
    <3> QED  BY <3>1, <2>1, <1>9
  <2>2. CASE k > m
    <3>1. t[k] = a + (k - m) - 1 /\ k \in 1..(m + c)
      BY <2>2, <1>8, <1>10
    <3>2. t[k] \in Int /\ a <= t[k] /\ t[k] < a + c
      BY <3>1, <2>2, <1>3
    <3> QED  BY <3>2, <1>6 DEF e
  <2> QED  BY <2>1, <2>2, <1>3, <1>8
<1>14. ASSUME NEW j \in 1..(n + 1), NEW x \in BlocksOf(s[j]) PROVE \E k \in DOMAIN t : t[k] = x
  <2>1. CASE j \in 1..n
    <3>1. PICK k \in 1..m : q[k] = x
      BY <2>1, <1>8, Zenon DEF ListsBlocks
    <3>2. k \in 1..(m + c)
      BY <1>3
    <3> QED  BY <3>1, <3>2, <1>8, <1>9
  <2>2. CASE j = n + 1
    <3>1. x \in Int /\ a <= x /\ x < a + c
      BY <2>2, <1>6 DEF e
    <3> DEFINE k == m + (x - a) + 1
    <3>2. k \in 1..(m + c) /\ k > m /\ x = a + (k - m) - 1
      BY <3>1, <1>3
    <3> HIDE DEF k
    <3> QED  BY <3>2, <1>8, <1>10
  <2> QED  BY <2>1, <2>2
<1> QED  BY <1>12, <1>13, <1>14, Zenon DEF ListsBlocks, t, run, e

(* A list of extents that follow one another names its blocks in ascending *)
(* order.                                                                  *)
LEMMA BlocksAscend ==
    ASSUME NEW s \in Seq(Extents),
           \A i, j \in 1..Len(s) : i < j => End(s[i]) <= s[j].start,
           NEW U, U = UNION {BlocksOf(s[i]) : i \in 1..Len(s)}
    PROVE  /\ U \subseteq Int /\ IsFiniteSet(U)
           /\ Blocks(s) = Ascending(U) /\ Cardinality(U) = Len(Blocks(s))
<1> DEFINE n == Len(s)
<1>1. n \in Nat
  BY LenProperties
<1>2. PICK b : Listing(b, s) /\ Blocks(s) = b[n]
  BY BlocksFollows
<1>3. \A i \in 0..n : b[i] \in Seq(Int)
  BY <1>2 DEF Listing
<1> DEFINE S == {i \in Nat : i <= n => ListsBlocks(b[i], s, i)}
<1>4. 0 \in S
  <2>1. b[0] = <<>> /\ DOMAIN b[0] = {} /\ 1..0 = {}
    BY <1>2 DEF Listing
  <2> QED  BY <2>1 DEF ListsBlocks
<1>5. ASSUME NEW i \in S PROVE i + 1 \in S
  <2> SUFFICES ASSUME i + 1 <= n PROVE ListsBlocks(b[i + 1], s, i + 1)
    OBVIOUS
  <2>1. i \in Nat /\ i + 1 \in 1..n /\ i \in 0..n /\ (i + 1) - 1 = i /\ ListsBlocks(b[i], s, i)
    BY <1>1
  <2>2. b[i + 1] = b[i] \o Run(s[i + 1])
    BY <2>1, <1>2, Zenon DEF Listing
  <2>3. \A j \in 1..i : End(s[j]) <= s[i + 1].start
    BY <2>1, <1>1
  <2>4. b[i] \in Seq(Int)
    BY <2>1, <1>3
  <2> QED  BY <2>1, <2>2, <2>3, <2>4, ListsOneMore
<1>6. S = Nat
  BY <1>4, <1>5, Induction, Zenon
<1> DEFINE q == Blocks(s)
<1>7. q \in Seq(Int) /\ ListsBlocks(q, s, n)
  <2>1. n \in 0..n
    BY <1>1
  <2> QED  BY <2>1, <1>1, <1>2, <1>3, <1>6
<1> HIDE DEF q, S
<1>8. U \subseteq Int
  <2>1. ASSUME NEW i \in 1..n PROVE BlocksOf(s[i]) \subseteq Int
    <3>1. s[i] \in Extents
      BY ElementOfSeq
    <3> QED  BY <3>1, InBlocks
  <2> QED  BY <2>1
<1> HIDE DEF n
<1>9. \A k \in DOMAIN q : q[k] \in U
  BY <1>7 DEF ListsBlocks, n
<1>10. q \in Seq(U)
  <2>1. Len(q) \in Nat /\ DOMAIN q = 1..Len(q) /\ q \in [1..Len(q) -> Int]
    BY <1>7, LenProperties
  <2>2. q \in [1..Len(q) -> U]
    BY <2>1, <1>9
  <2> QED  BY <2>1, <2>2, SeqDef
<1>11. Rising(q)
  BY <1>7 DEF ListsBlocks, Rising
<1>12. \A x \in U : \E k \in DOMAIN q : q[k] = x
  BY <1>7, Zenon DEF ListsBlocks, n
<1>13. Ascending(U) = q /\ IsFiniteSet(U) /\ Cardinality(U) = Len(q)
  BY <1>8, <1>10, <1>11, <1>12, AscendingIsUnique, Zenon
<1> QED  BY <1>8, <1>13 DEF q

(* BlocksInExtents counts the blocks of the list.                          *)
LEMMA TotalCounts ==
    ASSUME NEW set, set \subseteq Extents, InOrder(set) \in Seq(set)
    PROVE  BlocksInExtents(set) = Len(Blocks(InOrder(set)))
<1> DEFINE s == InOrder(set)
           n == Len(s)
           Step(q, i) == q + s[i].num
           Body(g) == [i \in 0..n |-> IF i = 0 THEN 0 ELSE Step(g[i - 1], i)]
           total == CHOOSE g : g = Body(g)
<1>1. BlocksInExtents(set) = total[n]
  BY Zenon DEF BlocksInExtents
<1>2. s \in Seq(set) /\ n \in Nat
  BY LenProperties
<1>3. s \in Seq(Extents)
  BY <1>2, SeqMonotonic
<1> HIDE DEF s, n
<1>4. PICK b : Listing(b, s) /\ Blocks(s) = b[n]
  BY <1>3, BlocksFollows DEF n
<1> DEFINE f == [i \in 0..n |-> Len(b[i])]
<1>5. \A i \in 1..n : f[i - 1] \in Nat /\ f[i] = Step(f[i - 1], i)
  <2> SUFFICES ASSUME NEW i \in 1..n PROVE f[i - 1] \in Nat /\ f[i] = Step(f[i - 1], i)
    BY Zenon
  <2>1. i \in 0..n /\ i - 1 \in 0..n
    BY <1>2
  <2>2. b[i - 1] \in Seq(Int) /\ b[i] = b[i - 1] \o Run(s[i])
    BY <2>1, <1>4, Zenon DEF Listing, n
  <2>3. s[i] \in Extents
    BY <1>3, ElementOfSeq DEF n
  <2>4. Run(s[i]) \in Seq(Int) /\ Len(Run(s[i])) = s[i].num
    BY <2>3, RunIsSeq
  <2>5. Len(b[i]) = Len(b[i - 1]) + Len(Run(s[i])) /\ Len(b[i - 1]) \in Nat
    BY <2>2, <2>4, ConcatProperties, LenProperties, Zenon
  <2> QED  BY <2>1, <2>4, <2>5
<1>6. f[0] = 0
  <2>1. 0 \in 0..n /\ b[0] = <<>>
    BY <1>2, <1>4 DEF Listing
  <2> QED  BY <2>1
<1>7. f = Body(f)
  <2>1. \A i \in 0..n : i = 0 \/ i \in 1..n
    BY <1>2
  <2> QED  BY <2>1, <1>5, <1>6, Zenon
<1>8. total = Body(total)
  <2> HIDE DEF Body, f
  <2> QED  BY <1>7
<1> HIDE DEF total
<1>9. total[0] = 0 /\ \A i \in 1..n : total[i] = Step(total[i - 1], i)
  <2>1. 0 \in 0..n /\ \A i \in 1..n : i \in 0..n /\ i # 0
    BY <1>2
  <2> QED  BY <1>8, <2>1, Zenon
<1> HIDE DEF f, Step, Body
<1> DEFINE S == {i \in Nat : i <= n => total[i] = f[i]}
<1>10. 0 \in S
  BY <1>6, <1>9
<1>11. ASSUME NEW i \in S PROVE i + 1 \in S
  <2>1. i \in Nat /\ (i + 1) - 1 = i
    OBVIOUS
  <2>2. ASSUME i + 1 <= n PROVE total[i + 1] = f[i + 1]
    <3>1. i + 1 \in 1..n /\ total[i] = f[i]
      BY <2>1, <2>2, <1>2
    <3> QED  BY <3>1, <2>1, <1>5, <1>9
  <2> QED  BY <2>1, <2>2
<1>12. S = Nat
  BY <1>10, <1>11, Induction, Zenon
<1>13. total[n] = f[n]
  BY <1>12, <1>2
<1>14. f[n] = Len(b[n])
  BY <1>2 DEF f
<1> QED  BY <1>1, <1>4, <1>13, <1>14 DEF s

-----------------------------------------------------------------------------
(* The blocks of a set of extents.                                         *)
BlocksIn(set) == UNION {BlocksOf(e) : e \in set}

(* No two of them have a block in common.                                  *)
Apart(set) == \A a, b \in set : a # b => End(a) <= b.start \/ End(b) <= a.start

(* What the fields of an extent are.                                       *)
LEMMA RealFields ==
    ASSUME NEW e \in Solid
    PROVE  /\ e \in Extents /\ e.start \in Nat /\ e.num \in Nat /\ e.num > 0
           /\ End(e) \in Nat /\ End(e) = e.start + e.num /\ e.start < End(e)
           /\ \A x : x \in BlocksOf(e) <=> x \in Nat /\ e.start <= x /\ x < End(e)
           /\ e.start \in BlocksOf(e)
<1>1. e \in Extents /\ e.start \in Nat /\ e.num \in Nat /\ e.num > 0
  BY DEF Solid, Extents
<1>2. /\ End(e) = e.start + e.num
      /\ \A x : x \in BlocksOf(e) <=> x \in Int /\ e.start <= x /\ x < End(e)
  BY <1>1, InBlocks, Zenon
<1>3. End(e) \in Nat /\ e.start < End(e)
  BY <1>1, <1>2
<1>4. \A x : x \in Int /\ e.start <= x /\ x < End(e) <=> x \in Nat /\ e.start <= x /\ x < End(e)
  BY <1>1
<1> QED  BY <1>1, <1>2, <1>3, <1>4

(* Extents that are apart, in order: their blocks are named in ascending   *)
(* order, and BlocksInExtents is their number.                             *)
LEMMA ApartInOrder ==
    ASSUME NEW set, set \subseteq Solid, IsFiniteSet(set), Apart(set)
    PROVE  /\ Lists(InOrder(set), set)
           /\ \A i, j \in 1..Len(InOrder(set)) :
                i < j => End(InOrder(set)[i]) <= InOrder(set)[j].start
           /\ BlocksIn(set) \subseteq Nat /\ IsFiniteSet(BlocksIn(set))
           /\ Blocks(InOrder(set)) = Ascending(BlocksIn(set))
           /\ BlocksInExtents(set) = Cardinality(BlocksIn(set))
<1> DEFINE s == InOrder(set)
<1>1. StartsDiffer(set)
  <2>1. \A e \in set : e.start \in Int
    BY RealFields
  <2>2. ASSUME NEW a \in set, NEW b \in set, a.start = b.start PROVE a = b
    <3>1. a.start \in Int /\ End(a) \in Int /\ End(b) \in Int /\ a.start < End(a) /\ b.start < End(b)
      BY RealFields
    <3> QED  BY <2>2, <3>1 DEF Apart
  <2> QED  BY <2>1, <2>2, Zenon DEF StartsDiffer
<1>2. Lists(s, set)
  BY <1>1, InOrderLists
<1>3. s \in Seq(set) /\ DOMAIN s = 1..Len(s) /\ \A i \in 1..Len(s) : s[i] \in set
  BY <1>2, LenProperties, ElementOfSeq DEF Lists
<1>4. s \in Seq(Extents)
  <2>1. set \subseteq Extents
    BY RealFields
  <2> QED  BY <2>1, <1>3, SeqMonotonic
<1> HIDE DEF s
<1>5. ASSUME NEW i \in 1..Len(s), NEW j \in 1..Len(s), i < j PROVE End(s[i]) <= s[j].start
  <2>1. s[i].start < s[j].start
    BY <1>2, <1>3, <1>5 DEF Lists
  <2>2. s[i] \in set /\ s[j] \in set
    BY <1>3
  <2>3. /\ s[i].start \in Nat /\ s[j].start \in Nat /\ End(s[i]) \in Nat /\ End(s[j]) \in Nat
        /\ s[j].start < End(s[j])
    BY <2>2, RealFields
  <2>4. s[i] # s[j] /\ ~(End(s[j]) <= s[i].start)
    BY <2>1, <2>3
  <2> QED  BY <2>2, <2>4, Zenon DEF Apart
<1> DEFINE U == UNION {BlocksOf(s[i]) : i \in 1..Len(s)}
<1>6. BlocksIn(set) = U
  <2>1. {s[i] : i \in 1..Len(s)} = set
    BY <1>2, <1>3 DEF Lists
  <2>2. ASSUME NEW x \in BlocksIn(set) PROVE x \in U
    <3>1. PICK e \in set : x \in BlocksOf(e)
      BY DEF BlocksIn
    <3>2. PICK i \in 1..Len(s) : s[i] = e
      BY <2>1
    <3> QED  BY <3>1, <3>2
  <2>3. ASSUME NEW x \in U PROVE x \in BlocksIn(set)
    <3>1. PICK i \in 1..Len(s) : x \in BlocksOf(s[i])
      OBVIOUS
    <3> QED  BY <3>1, <1>3 DEF BlocksIn
  <2> QED  BY <2>2, <2>3
<1>7. IsFiniteSet(U) /\ Blocks(s) = Ascending(U) /\ Cardinality(U) = Len(Blocks(s))
  BY <1>4, <1>5, BlocksAscend
<1>8. BlocksIn(set) \subseteq Nat
  <2>1. \A e \in set : \A x \in BlocksOf(e) : x \in Nat
    BY RealFields
  <2> QED  BY <2>1 DEF BlocksIn
<1>9. BlocksInExtents(set) = Len(Blocks(s))
  <2>1. set \subseteq Extents
    BY RealFields
  <2> QED  BY <2>1, <1>3, TotalCounts DEF s
<1> HIDE DEF U
<1> QED  BY <1>2, <1>5, <1>6, <1>7, <1>8, <1>9 DEF s

-----------------------------------------------------------------------------
(* The smaller and the larger of two numbers.                              *)
LEMMA MinMaxOfTwo ==
    ASSUME NEW a \in Int, NEW b \in Int
    PROVE  /\ Min({a, b}) = (IF a <= b THEN a ELSE b)
           /\ Max({a, b}) = (IF a <= b THEN b ELSE a)
<1> DEFINE low == IF a <= b THEN a ELSE b
           high == IF a <= b THEN b ELSE a
<1>1. low \in {a, b} /\ \A x \in {a, b} : low <= x
  OBVIOUS
<1>2. high \in {a, b} /\ \A x \in {a, b} : high >= x
  OBVIOUS
<1>3. \A x \in {a, b} : (\A y \in {a, b} : x <= y) => x = low
  OBVIOUS
<1>4. \A x \in {a, b} : (\A y \in {a, b} : x >= y) => x = high
  OBVIOUS
<1>5. Min({a, b}) = CHOOSE x \in {a, b} : \A y \in {a, b} : x <= y
  BY Zenon DEF Min
<1>6. Max({a, b}) = CHOOSE x \in {a, b} : \A y \in {a, b} : x >= y
  BY Zenon DEF Max
<1> HIDE DEF low, high
<1>7. Min({a, b}) = low
  BY <1>1, <1>3, <1>5
<1>8. Max({a, b}) = high
  BY <1>2, <1>4, <1>6
<1> QED  BY <1>7, <1>8 DEF low, high

(* The comparisons of two extents.                                         *)
LEMMA OverlapMeans ==
    ASSUME NEW a \in Solid, NEW b \in Solid
    PROVE  /\ ExtentsOverlap(a, b) <=> a.start < End(b) /\ b.start < End(a)
           /\ ExtentsOverlapOrTouch(a, b) <=> a.start <= End(b) /\ b.start <= End(a)
<1>1. /\ a.start \in Nat /\ b.start \in Nat /\ End(a) \in Nat /\ End(b) \in Nat
      /\ a.start < End(a) /\ b.start < End(b)
  BY RealFields
<1>2. a.start # kSparseHole /\ b.start # kSparseHole
  BY <1>1 DEF kSparseHole
<1>3. ExtentsOverlap(a, b) <=>
        \/ a.start = b.start
        \/ IF a.start < b.start THEN End(a) > b.start ELSE End(b) > a.start
  BY <1>2, Zenon DEF ExtentsOverlap
<1>4. ExtentsOverlapOrTouch(a, b) <=>
        \/ a.start = b.start
        \/ IF a.start < b.start THEN End(a) >= b.start ELSE End(b) >= a.start
  BY <1>2, Zenon DEF ExtentsOverlapOrTouch
<1>5. ExtentsOverlap(a, b) <=> a.start < End(b) /\ b.start < End(a)
  BY <1>1, <1>3
<1>6. ExtentsOverlapOrTouch(a, b) <=> a.start <= End(b) /\ b.start <= End(a)
  BY <1>1, <1>4
<1> QED  BY <1>5, <1>6

(* The union of two extents reaches from the first start to the last end.  *)
LEMMA UnionReaches ==
    ASSUME NEW a \in Solid, NEW b \in Solid, NEW u, u = UnionOverlappingExtents(a, b)
    PROVE  /\ u \in Solid
           /\ u.start = (IF a.start <= b.start THEN a.start ELSE b.start)
           /\ End(u) = (IF End(a) <= End(b) THEN End(b) ELSE End(a))
<1> DEFINE low == IF a.start <= b.start THEN a.start ELSE b.start
           high == IF End(a) <= End(b) THEN End(b) ELSE End(a)
<1>1. /\ a.start \in Nat /\ b.start \in Nat /\ End(a) \in Nat /\ End(b) \in Nat
      /\ a.start < End(a) /\ b.start < End(b)
  BY RealFields
<1>2. low \in Nat /\ high \in Nat /\ low < high
  BY <1>1
<1>3. Min({a.start, b.start}) = low /\ Max({End(a), End(b)}) = high
  <2>1. a.start \in Int /\ b.start \in Int /\ End(a) \in Int /\ End(b) \in Int
    BY <1>1
  <2> QED  BY <2>1, MinMaxOfTwo, Zenon
<1> HIDE DEF low, high
<1>4. u = [start |-> low, num |-> high - low]
  BY <1>3 DEF UnionOverlappingExtents, ExtentForRange
<1>5. high - low \in Nat \ {0}
  BY <1>2
<1>6. u \in Solid /\ u.start = low /\ u.num = high - low
  BY <1>2, <1>4, <1>5 DEF Solid
<1>7. End(u) = high
  BY <1>2, <1>6 DEF End
<1> QED  BY <1>6, <1>7 DEF low, high

(* One step of AddExtent's loop.                                           *)
Visit1(acc, e) ==
    IF ExtentsOverlapOrTouch(e, acc.extent)
    THEN [extent |-> UnionOverlappingExtents(acc.extent, e), hits |-> acc.hits \union {e}]
    ELSE acc

Visits == [extent : Solid, hits : SUBSET Solid]

(* The loop follows its recursion.                                         *)
LEMMA VisitFollows ==
    ASSUME NEW s \in Seq(Solid), NEW extent \in Solid
    PROVE  \E f : /\ f \in [0..Len(s) -> Visits]
                  /\ f[0] = [extent |-> extent, hits |-> {}]
                  /\ \A i \in 1..Len(s) : f[i] = Visit1(f[i - 1], s[i])
                  /\ VisitExtents(s, extent) = f[Len(s)]
<1> DEFINE n == Len(s)
           A == Visits
           base == [extent |-> extent, hits |-> {}]
           Step(q, i) == Visit1(q, s[i])
           step == [i \in 1..n |-> [q \in A |-> Step(q, i)]]
           Body(g) == [i \in 0..n |-> IF i = 0 THEN base ELSE Step(g[i - 1], i)]
           b == CHOOSE g : g = Body(g)
<1>1. n \in Nat /\ base \in A
  BY LenProperties DEF Visits
<1>2. \A q \in A : \A i \in 1..n : Step(q, i) \in A
  <2> SUFFICES ASSUME NEW q \in A, NEW i \in 1..n PROVE Visit1(q, s[i]) \in A
    OBVIOUS
  <2>1. s[i] \in Solid
    BY ElementOfSeq
  <2>2. q.extent \in Solid /\ q.hits \in SUBSET Solid
    BY DEF Visits
  <2>3. UnionOverlappingExtents(q.extent, s[i]) \in Solid
    BY <2>1, <2>2, UnionReaches
  <2> QED  BY <2>1, <2>2, <2>3 DEF Visits, Visit1
<1>3. VisitExtents(s, extent) = b[n]
  BY Zenon DEF VisitExtents, Visit1
<1> HIDE DEF n, A, Step, base
<1>4. Steps(step, n, A)
  BY <1>2 DEF Steps
<1>5. \A i \in 1..n : \A q \in A : step[i][q] = Step(q, i)
  OBVIOUS
<1> HIDE DEF step
<1>6. PICK f : DefinedBy(f, n, A, base, step)
  BY <1>1, <1>4, RecursionExists, Zenon
<1>7. \A i \in 1..n : i - 1 \in 0..n
  BY <1>1
<1>8. f = Body(f)
  <2>1. ASSUME NEW i \in 1..n PROVE f[i] = Step(f[i - 1], i)
    BY <1>5, <1>6, <1>7 DEF DefinedBy
  <2>2. \A i \in 0..n : i = 0 \/ i \in 1..n
    BY <1>1
  <2> QED  BY <1>6, <2>1, <2>2 DEF DefinedBy
<1>9. b = Body(b)
  <2> HIDE DEF Body
  <2> QED  BY <1>8
<1> HIDE DEF b
<1>10. /\ b = [i \in 0..n |-> b[i]] /\ b[0] = base
       /\ \A i \in 1..n : b[i] = Step(b[i - 1], i)
  <2>1. \A i \in 1..n : i \in 0..n /\ i # 0
    BY <1>1
  <2> QED  BY <1>9, <1>1, <2>1
<1> HIDE DEF Body
<1>11. DefinedBy(b, n, A, base, step)
  BY <1>1, <1>4, <1>5, <1>10, RecursionTyped, Zenon
<1> QED  BY <1>10, <1>11, <1>3, Zenon DEF DefinedBy, n, A, Step, base

(* Two extents neither overlap nor touch.                                  *)
Clear(a, b) == End(a) < b.start \/ End(b) < a.start

(* What the loop knows after n extents: what is added has grown by the     *)
(* extents hit, and is clear of the others.                                *)
Grown(acc, s, n, extent) ==
    /\ acc.extent \in Solid /\ acc.hits \subseteq {s[j] : j \in 1..n}
    /\ BlocksOf(acc.extent) = BlocksOf(extent) \union BlocksIn(acc.hits)
    /\ \A h \in acc.hits : acc.extent.start <= h.start /\ End(h) <= End(acc.extent)
    /\ \A j \in 1..n : s[j] \notin acc.hits => Clear(s[j], acc.extent)

(* The extents of s follow one another with a gap.                         *)
Gaps(s) == \A i, j \in 1..Len(s) : i < j => End(s[i]) < s[j].start

(* One more step keeps it.                                                 *)
LEMMA GrowsOn ==
    ASSUME NEW s \in Seq(Solid), Gaps(s), NEW extent \in Solid,
           NEW n \in Nat, n + 1 <= Len(s), NEW acc \in Visits, Grown(acc, s, n, extent)
    PROVE  Grown(Visit1(acc, s[n + 1]), s, n + 1, extent)
<1> DEFINE e == s[n + 1]
           x == acc.extent
           new == Visit1(acc, e)
<1>1. n + 1 \in 1..Len(s) /\ \A j \in 1..n : j \in 1..Len(s) /\ j < n + 1
  BY LenProperties
<1>2. e \in Solid /\ \A j \in 1..n : s[j] \in Solid /\ End(s[j]) < e.start
  BY <1>1, ElementOfSeq DEF Gaps
<1>3. x \in Solid
  BY DEF Grown
<1>4. /\ e.start \in Nat /\ End(e) \in Nat /\ x.start \in Nat /\ End(x) \in Nat
      /\ e.start < End(e) /\ x.start < End(x)
      /\ \A j \in 1..n : s[j].start \in Nat /\ End(s[j]) \in Nat /\ s[j].start < End(s[j])
  BY <1>2, <1>3, RealFields
<1>5. \A j \in 1..n : s[j] # e
  BY <1>2, <1>4
<1>6. 1..(n + 1) = (1..n) \union {n + 1}
  OBVIOUS
<1>7. {s[j] : j \in 1..(n + 1)} = {s[j] : j \in 1..n} \union {e}
  BY <1>6
<1>8. CASE ExtentsOverlapOrTouch(e, x)
  <2> DEFINE u == UnionOverlappingExtents(x, e)
  <2>1. new.extent = u /\ new.hits = acc.hits \union {e}
    BY <1>8 DEF Visit1
  <2>2. e.start <= End(x) /\ x.start <= End(e)
    BY <1>2, <1>3, <1>8, OverlapMeans
  <2>3. /\ u \in Solid
        /\ u.start = (IF x.start <= e.start THEN x.start ELSE e.start)
        /\ End(u) = (IF End(x) <= End(e) THEN End(e) ELSE End(x))
    BY <1>2, <1>3, UnionReaches
  <2> HIDE DEF u, x, e
  <2>4. /\ u.start \in Nat /\ End(u) \in Nat /\ u.start <= x.start /\ u.start <= e.start
        /\ End(x) <= End(u) /\ End(e) <= End(u)
    BY <2>3, <1>4
  <2>5. BlocksOf(u) = BlocksOf(x) \union BlocksOf(e)
    <3>1. \A y : y \in BlocksOf(u) <=> y \in Nat /\ u.start <= y /\ y < End(u)
      BY <2>3, RealFields, Zenon
    <3>2. \A y : y \in BlocksOf(x) <=> y \in Nat /\ x.start <= y /\ y < End(x)
      BY <1>3, RealFields, Zenon
    <3>3. \A y : y \in BlocksOf(e) <=> y \in Nat /\ e.start <= y /\ y < End(e)
      BY <1>2, RealFields, Zenon
    <3>4. ASSUME NEW y \in Nat
          PROVE  u.start <= y /\ y < End(u) <=>
                    (x.start <= y /\ y < End(x)) \/ (e.start <= y /\ y < End(e))
      BY <2>2, <2>3, <1>4
    <3> QED  BY <3>1, <3>2, <3>3, <3>4, Zenon
  <2>6. BlocksIn(acc.hits \union {e}) = BlocksIn(acc.hits) \union BlocksOf(e)
    BY DEF BlocksIn
  <2>7. BlocksOf(u) = BlocksOf(extent) \union BlocksIn(new.hits)
    BY <2>1, <2>5, <2>6, Zenon DEF Grown, x
  <2>8. \A h \in new.hits : u.start <= h.start /\ End(h) <= End(u)
    <3> SUFFICES ASSUME NEW h \in acc.hits PROVE u.start <= h.start /\ End(h) <= End(u)
      BY <2>1, <2>4
    <3>1. x.start <= h.start /\ End(h) <= End(x)
      BY DEF Grown, x
    <3>2. h.start \in Nat /\ End(h) \in Nat
      BY RealFields DEF Visits
    <3> QED  BY <3>1, <3>2, <2>4, <1>4
  <2>9. ASSUME NEW j \in 1..(n + 1), s[j] \notin new.hits PROVE Clear(s[j], u)
    <3>1. j \in 1..n /\ s[j] \notin acc.hits
      BY <2>9, <2>1, <1>6 DEF e
    <3>2. End(s[j]) < x.start \/ End(x) < s[j].start
      BY <3>1, Zenon DEF Grown, Clear, x
    <3>3. End(s[j]) < e.start
      BY <3>1, <1>2
    <3>4. s[j].start \in Nat /\ End(s[j]) \in Nat /\ s[j].start < End(s[j])
      BY <3>1, <1>4
    <3>5. End(s[j]) < x.start
      BY <3>2, <3>3, <3>4, <2>2, <1>4
    <3>6. End(s[j]) < u.start
      BY <3>3, <3>4, <3>5, <2>3, <1>4
    <3> QED  BY <3>6 DEF Clear
  <2>10. new.hits \subseteq {s[j] : j \in 1..(n + 1)}
    BY <2>1, <1>7, Zenon DEF Grown
  <2> QED  BY <2>1, <2>3, <2>7, <2>8, <2>9, <2>10, Zenon DEF Grown, e
<1>9. CASE ~ExtentsOverlapOrTouch(e, x)
  <2>1. new = acc
    BY <1>9 DEF Visit1
  <2>2. Clear(e, x)
    <3>1. ~(e.start <= End(x) /\ x.start <= End(e))
      BY <1>2, <1>3, <1>9, OverlapMeans, Zenon
    <3> HIDE DEF e, x
    <3>2. End(e) < x.start \/ End(x) < e.start
      BY <3>1, <1>4
    <3> QED  BY <3>2 DEF Clear
  <2>3. ASSUME NEW j \in 1..(n + 1), s[j] \notin acc.hits PROVE Clear(s[j], x)
    <3>1. j \in 1..n \/ j = n + 1
      BY <1>6
    <3> QED  BY <3>1, <2>2, <2>3, Zenon DEF Grown
  <2>4. acc.hits \subseteq {s[j] : j \in 1..(n + 1)}
    BY <1>7, Zenon DEF Grown
  <2> HIDE DEF new, e
  <2>5. Grown(acc, s, n + 1, extent)
    BY <2>3, <2>4, Zenon DEF Grown
  <2> QED  BY <2>1, <2>5 DEF new, e
<1> QED  BY <1>8, <1>9

(* What the loop has done in the end.                                      *)
LEMMA VisitGrows ==
    ASSUME NEW s \in Seq(Solid), Gaps(s), NEW extent \in Solid
    PROVE  /\ VisitExtents(s, extent) \in Visits
           /\ Grown(VisitExtents(s, extent), s, Len(s), extent)
<1> DEFINE n == Len(s)
<1>1. PICK f : /\ f \in [0..n -> Visits]
               /\ f[0] = [extent |-> extent, hits |-> {}]
               /\ \A i \in 1..n : f[i] = Visit1(f[i - 1], s[i])
               /\ VisitExtents(s, extent) = f[n]
  BY VisitFollows
<1>2. n \in Nat
  BY LenProperties
<1> HIDE DEF n
<1> DEFINE S == {i \in Nat : i <= n => Grown(f[i], s, i, extent)}
<1>3. 0 \in S
  <2>1. f[0].extent = extent /\ f[0].hits = {} /\ 1..0 = {}
    BY <1>1
  <2>2. BlocksIn({}) = {}
    BY DEF BlocksIn
  <2> QED  BY <2>1, <2>2, Zenon DEF Grown
<1>4. ASSUME NEW i \in S PROVE i + 1 \in S
  <2> SUFFICES ASSUME i + 1 <= n PROVE Grown(f[i + 1], s, i + 1, extent)
    OBVIOUS
  <2>1. i \in Nat /\ i + 1 \in 1..n /\ i \in 0..n /\ (i + 1) - 1 = i
    BY <1>2
  <2>2. Grown(f[i], s, i, extent) /\ f[i] \in Visits /\ f[i + 1] = Visit1(f[i], s[i + 1])
    BY <2>1, <1>1, <1>2
  <2> QED  BY <2>1, <2>2, GrowsOn DEF n
<1>5. S = Nat
  BY <1>3, <1>4, Induction, Zenon
<1>6. n \in 0..n /\ Grown(f[n], s, n, extent)
  BY <1>2, <1>5
<1> QED  BY <1>1, <1>6 DEF n

-----------------------------------------------------------------------------
(* The extents of an ExtentRanges: no two of them overlap or touch.        *)
Disjoint(set) ==
    set \subseteq Solid /\ IsFiniteSet(set) /\ \A a, b \in set : a # b => Clear(a, b)

(* What holds of an ExtentRanges that stands for the set blocks.           *)
RangesInv(r, blocks) ==
    Disjoint(r.set) /\ blocks = BlocksIn(r.set) /\ r.blocks = Cardinality(blocks)

(* Such extents in order.                                                  *)
LEMMA DisjointInOrder ==
    ASSUME NEW set, Disjoint(set), NEW s, s = InOrder(set)
    PROVE  /\ Apart(set)
           /\ s \in Seq(set) /\ s \in Seq(Solid) /\ Gaps(s) /\ {s[j] : j \in 1..Len(s)} = set
           /\ \A i, j \in 1..Len(s) : i < j => s[i].start < s[j].start
           /\ BlocksIn(set) \subseteq Nat /\ IsFiniteSet(BlocksIn(set))
           /\ Cardinality(BlocksIn(set)) \in Nat
           /\ Blocks(s) = Ascending(BlocksIn(set))
           /\ BlocksInExtents(set) = Cardinality(BlocksIn(set))
<1>1. set \subseteq Solid /\ IsFiniteSet(set) /\ \A a, b \in set : a # b => Clear(a, b)
  BY DEF Disjoint
<1>2. Apart(set)
  <2> SUFFICES ASSUME NEW a \in set, NEW b \in set, a # b
               PROVE  End(a) <= b.start \/ End(b) <= a.start
    BY DEF Apart
  <2>1. End(a) < b.start \/ End(b) < a.start
    BY <1>1 DEF Clear
  <2>2. a.start \in Nat /\ b.start \in Nat /\ End(a) \in Nat /\ End(b) \in Nat
    BY <1>1, RealFields
  <2> QED  BY <2>1, <2>2
<1>3. /\ Lists(s, set)
      /\ BlocksIn(set) \subseteq Nat /\ IsFiniteSet(BlocksIn(set))
      /\ Blocks(s) = Ascending(BlocksIn(set))
      /\ BlocksInExtents(set) = Cardinality(BlocksIn(set))
  BY <1>1, <1>2, ApartInOrder, Zenon
<1>4. /\ s \in Seq(set) /\ DOMAIN s = 1..Len(s) /\ \A i \in 1..Len(s) : s[i] \in set
      /\ Len(s) \in Nat
  BY <1>3, LenProperties, ElementOfSeq DEF Lists
<1>5. \A i, j \in 1..Len(s) : i < j => s[i].start < s[j].start
  BY <1>3, <1>4 DEF Lists
<1>6. s \in Seq(Solid)
  BY <1>1, <1>4, SeqMonotonic
<1>7. {s[j] : j \in 1..Len(s)} = set
  BY <1>3, <1>4 DEF Lists
<1>8. ASSUME NEW i \in 1..Len(s), NEW j \in 1..Len(s), i < j PROVE End(s[i]) < s[j].start
  <2>1. s[i] \in set /\ s[j] \in set /\ s[i].start < s[j].start
    BY <1>4, <1>5, <1>8
  <2>2. /\ s[i].start \in Nat /\ s[j].start \in Nat /\ End(s[i]) \in Nat /\ End(s[j]) \in Nat
        /\ s[j].start < End(s[j])
    BY <1>1, <2>1, RealFields
  <2>3. s[i] # s[j] /\ ~(End(s[j]) < s[i].start)
    BY <2>1, <2>2
  <2> QED  BY <1>1, <2>1, <2>3, Zenon DEF Clear
<1>9. Cardinality(BlocksIn(set)) \in Nat
  BY <1>3, FS_CardinalityType
<1> QED  BY <1>2, <1>3, <1>4, <1>5, <1>6, <1>7, <1>8, <1>9 DEF Gaps

(* A part of such a set is one.                                            *)
LEMMA DisjointSubset ==
    ASSUME NEW set, Disjoint(set), NEW T, T \subseteq set
    PROVE  Disjoint(T)
<1>1. IsFiniteSet(T)
  <2>1. T \in SUBSET set /\ IsFiniteSet(set)
    BY DEF Disjoint
  <2> QED  BY <2>1, FS_Subset, Zenon
<1> QED  BY <1>1, Zenon DEF Disjoint

(* The blocks of a set are those of a part of it and those of the rest,    *)
(* which are others.                                                       *)
LEMMA BlocksOfParts ==
    ASSUME NEW set, Disjoint(set), NEW T, T \subseteq set
    PROVE  /\ BlocksIn(set) = BlocksIn(set \ T) \union BlocksIn(T)
           /\ BlocksIn(set \ T) \intersect BlocksIn(T) = {}
           /\ Cardinality(BlocksIn(set)) = Cardinality(BlocksIn(set \ T)) + Cardinality(BlocksIn(T))
<1> DEFINE R == set \ T
<1>1. Disjoint(T) /\ Disjoint(R)
  BY DisjointSubset
<1>2. BlocksIn(set) = BlocksIn(R) \union BlocksIn(T)
  BY DEF BlocksIn
<1>3. BlocksIn(R) \intersect BlocksIn(T) = {}
  <2> SUFFICES ASSUME NEW y, y \in BlocksIn(R), y \in BlocksIn(T) PROVE FALSE
    OBVIOUS
  <2>1. PICK a \in R : y \in BlocksOf(a)
    BY DEF BlocksIn
  <2>2. PICK b \in T : y \in BlocksOf(b)
    BY DEF BlocksIn
  <2>3. a \in Solid /\ b \in Solid /\ Clear(a, b)
    BY DEF Disjoint
  <2>4. /\ y \in Nat /\ a.start <= y /\ y < End(a) /\ b.start <= y /\ y < End(b)
        /\ a.start \in Nat /\ b.start \in Nat /\ End(a) \in Nat /\ End(b) \in Nat
    BY <2>1, <2>2, <2>3, RealFields
  <2> QED  BY <2>3, <2>4 DEF Clear
<1>4. /\ IsFiniteSet(BlocksIn(R)) /\ IsFiniteSet(BlocksIn(T))
      /\ Cardinality(BlocksIn(R)) \in Nat /\ Cardinality(BlocksIn(T)) \in Nat
  BY <1>1, DisjointInOrder
<1> HIDE DEF R
<1>5. Cardinality(BlocksIn(R) \union BlocksIn(T)) =
        Cardinality(BlocksIn(R)) + Cardinality(BlocksIn(T)) - Cardinality(BlocksIn(R) \intersect BlocksIn(T))
  BY <1>4, FS_Union, Zenon
<1>6. Cardinality(BlocksIn(R) \intersect BlocksIn(T)) = 0
  BY <1>3, FS_EmptySet
<1>7. Cardinality(BlocksIn(set)) = Cardinality(BlocksIn(R)) + Cardinality(BlocksIn(T))
  <2>1. \A a, b \in Nat : a + b - 0 = a + b
    OBVIOUS
  <2> QED  BY <1>2, <1>4, <1>5, <1>6, <2>1, Zenon
<1> QED  BY <1>2, <1>3, <1>7, Zenon DEF R

(* The blocks of one extent.                                               *)
LEMMA BlocksOfSingle ==
    ASSUME NEW e \in Solid
    PROVE  BlocksIn({e}) = BlocksOf(e) /\ Cardinality(BlocksOf(e)) = e.num
<1>1. BlocksIn({e}) = BlocksOf(e)
  BY DEF BlocksIn
<1> DEFINE a == e.start
           b == End(e) - 1
<1>2. a \in Int /\ b \in Int /\ a <= b /\ b - a + 1 = e.num
  BY RealFields
<1>3. BlocksOf(e) = a..b
  BY DEF BlocksOf
<1> HIDE DEF a, b
<1>4. Cardinality(a..b) = b - a + 1
  BY <1>2, FS_Interval
<1> QED  BY <1>1, <1>2, <1>3, <1>4

(* AddExtent adds the blocks of the extent.                                *)
LEMMA AddIsExact ==
    ASSUME NEW r, NEW blocks, RangesInv(r, blocks), NEW extent \in Solid
    PROVE  RangesInv(AddExtent(r, extent), blocks \union BlocksOf(extent))
<1> DEFINE set == r.set
           s == InOrder(set)
           scan == VisitExtents(s, extent)
           hits == scan.hits
           x == scan.extent
           new == AddExtent(r, extent)
           T == (set \ hits) \union {x}
<1>1. Disjoint(set) /\ blocks = BlocksIn(set) /\ r.blocks = Cardinality(BlocksIn(set))
  BY DEF RangesInv
<1>2. /\ s \in Seq(Solid) /\ Gaps(s) /\ {s[j] : j \in 1..Len(s)} = set
      /\ Cardinality(BlocksIn(set)) \in Nat
  <2> HIDE DEF set
  <2> QED  BY <1>1, DisjointInOrder
<1>3. scan \in Visits /\ Grown(scan, s, Len(s), extent)
  BY <1>2, VisitGrows
<1>4. /\ x \in Solid /\ hits \subseteq set
      /\ BlocksOf(x) = BlocksOf(extent) \union BlocksIn(hits)
      /\ \A h \in hits : x.start <= h.start /\ End(h) <= End(x)
  BY <1>2, <1>3, Zenon DEF Grown
<1>5. \A e \in set \ hits : Clear(e, x)
  <2> SUFFICES ASSUME NEW e \in set \ hits PROVE Clear(e, x)
    OBVIOUS
  <2>1. PICK j \in 1..Len(s) : s[j] = e
    BY <1>2
  <2> QED  BY <2>1, <1>3, Zenon DEF Grown
<1> HIDE DEF s, scan, hits, x
<1>6. ErasedRange(set, hits) = hits
  <2>1. hits \subseteq ErasedRange(set, hits)
    <3> SUFFICES ASSUME NEW h \in hits PROVE h \in ErasedRange(set, hits)
      OBVIOUS
    <3>1. h \in set /\ h.start \in Nat
      BY <1>1, <1>4, RealFields DEF Disjoint
    <3>2. h.start <= h.start
      BY <3>1
    <3> QED  BY <3>1, <3>2, Zenon DEF ErasedRange
  <2>2. ASSUME NEW e \in ErasedRange(set, hits), e \notin hits PROVE FALSE
    <3>1. PICK a \in hits, b \in hits : a.start <= e.start /\ e.start <= b.start
      BY DEF ErasedRange
    <3>2. e \in set \ hits
      BY <2>2 DEF ErasedRange
    <3>3. Clear(e, x)
      BY <3>2, <1>5
    <3>4. a \in Solid /\ b \in Solid /\ e \in Solid
      BY <3>2, <1>1, <1>4 DEF Disjoint
    <3>5. /\ a.start \in Nat /\ b.start \in Nat /\ e.start \in Nat /\ End(b) \in Nat
          /\ End(e) \in Nat /\ e.start < End(e) /\ b.start < End(b)
          /\ x.start \in Nat /\ End(x) \in Nat
      BY <3>4, <1>4, RealFields
    <3>6. x.start <= a.start /\ End(b) <= End(x)
      BY <1>4
    <3> QED  BY <3>1, <3>3, <3>5, <3>6 DEF Clear
  <2> QED  BY <2>1, <2>2
<1>7. new.set = T /\ new.blocks = r.blocks - BlocksInExtents(hits) + x.num
  <2>1. extent.start # kSparseHole /\ extent.num # 0
    BY RealFields DEF kSparseHole
  <2>2. new = [set |-> (set \ ErasedRange(set, hits)) \union {x},
               blocks |-> r.blocks - BlocksInExtents(hits) + x.num]
    BY <2>1, Zenon DEF AddExtent, s, scan, hits, x
  <2> QED  BY <2>2, <1>6
<1> HIDE DEF new
<1>8. x \notin set \ hits
  <2>1. ~Clear(x, x)
    <3>1. x.start \in Nat /\ End(x) \in Nat /\ x.start < End(x)
      BY <1>4, RealFields
    <3> QED  BY <3>1 DEF Clear
  <2> QED  BY <2>1, <1>5
<1>9. Disjoint(T)
  <2>1. T \subseteq Solid
    BY <1>1, <1>4 DEF Disjoint
  <2>2. IsFiniteSet(T)
    <3>1. IsFiniteSet(set \ hits)
      BY <1>1, DisjointSubset DEF Disjoint
    <3> QED  BY <3>1, FS_AddElement, Zenon
  <2>3. ASSUME NEW a \in T, NEW b \in T, a # b PROVE Clear(a, b)
    <3>1. CASE a \in set \ hits /\ b \in set \ hits
      BY <3>1, <2>3, <1>1, Zenon DEF Disjoint
    <3>2. CASE a \in set \ hits /\ b = x
      BY <3>2, <1>5, Zenon
    <3>3. CASE a = x /\ b \in set \ hits
      BY <3>3, <1>5, Zenon DEF Clear
    <3> QED  BY <2>3, <3>1, <3>2, <3>3
  <2> QED  BY <2>1, <2>2, <2>3, Zenon DEF Disjoint
<1>10. BlocksIn(set) = BlocksIn(set \ hits) \union BlocksIn(hits)
  BY <1>1, <1>4, BlocksOfParts, Zenon
<1>11. BlocksIn(T) = BlocksIn(set \ hits) \union BlocksOf(x)
  BY DEF BlocksIn
<1>12. BlocksIn(T) = blocks \union BlocksOf(extent)
  BY <1>1, <1>4, <1>10, <1>11, Zenon
<1>13. Cardinality(BlocksIn(set)) = Cardinality(BlocksIn(set \ hits)) + Cardinality(BlocksIn(hits))
  BY <1>1, <1>4, BlocksOfParts, Zenon
<1>14. Cardinality(BlocksIn(T)) = Cardinality(BlocksIn(set \ hits)) + x.num
  <2>1. {x} \subseteq T /\ T \ {x} = set \ hits
    BY <1>8
  <2> HIDE DEF T
  <2>2. Cardinality(BlocksIn(T)) = Cardinality(BlocksIn(T \ {x})) + Cardinality(BlocksIn({x}))
    BY <2>1, <1>9, BlocksOfParts, Zenon
  <2> QED  BY <2>1, <2>2, <1>4, BlocksOfSingle, Zenon
<1>15. /\ BlocksInExtents(hits) = Cardinality(BlocksIn(hits))
       /\ Cardinality(BlocksIn(hits)) \in Nat /\ Cardinality(BlocksIn(set \ hits)) \in Nat
  BY <1>1, <1>4, DisjointSubset, DisjointInOrder
<1>16. x.num \in Nat
  BY <1>4, RealFields
<1>17. new.blocks = Cardinality(BlocksIn(T))
  <2> DEFINE p == Cardinality(BlocksIn(set \ hits))
             q == Cardinality(BlocksIn(hits))
  <2>1. p \in Nat /\ q \in Nat /\ x.num \in Nat
    BY <1>15, <1>16
  <2>2. new.blocks = (p + q) - q + x.num /\ Cardinality(BlocksIn(T)) = p + x.num
    BY <1>1, <1>7, <1>13, <1>14, <1>15, Zenon
  <2> HIDE DEF p, q
  <2> QED  BY <2>1, <2>2
<1> QED  BY <1>7, <1>9, <1>12, <1>17, Zenon DEF RangesInv, new

(* What is left of an extent: its blocks without those taken away, in      *)
(* pieces that lie inside of it and do not touch.                          *)
LEMMA SubtractPieces ==
    ASSUME NEW e \in Solid, NEW x \in Solid, e.start < End(x), x.start < End(e),
           NEW P, P = SubtractOverlappingExtents(e, x)
    PROVE  /\ P \subseteq Solid /\ IsFiniteSet(P)
           /\ \A p \in P : e.start <= p.start /\ End(p) <= End(e)
           /\ \A p, q \in P : p # q => Clear(p, q)
           /\ BlocksIn(P) = BlocksOf(e) \ BlocksOf(x)
<1> DEFINE a == e.start
           b == End(e)
           c == x.start
           d == End(x)
           p1 == [start |-> a, num |-> c - a]
           p2 == [start |-> d, num |-> b - d]
<1>1. a \in Nat /\ b \in Nat /\ c \in Nat /\ d \in Nat /\ a < b /\ c < d /\ a < d /\ c < b
  BY RealFields
<1>2. P = {p \in {p1, p2} : p.num > 0}
  BY Zenon DEF SubtractOverlappingExtents, ExtentForRange
<1>3. \A y : y \in BlocksOf(e) \ BlocksOf(x) <=> y \in Nat /\ a <= y /\ y < b /\ ~(c <= y /\ y < d)
  <2>1. \A y : y \in BlocksOf(e) <=> y \in Nat /\ a <= y /\ y < b
    BY RealFields, Zenon
  <2>2. \A y : y \in BlocksOf(x) <=> y \in Nat /\ c <= y /\ y < d
    BY RealFields, Zenon
  <2> QED  BY <2>1, <2>2, Zenon
<1> HIDE DEF a, b, c, d
<1>4. p1.start = a /\ p1.num = c - a /\ p2.start = d /\ p2.num = b - d
  OBVIOUS
<1>5. End(p1) = c /\ End(p2) = b
  BY <1>1 DEF End
<1>6. /\ p1 \in P <=> a < c
      /\ p2 \in P <=> d < b
      /\ \A p \in P : p = p1 \/ p = p2
  <2>1. p1.num > 0 <=> a < c
    BY <1>1
  <2>2. p2.num > 0 <=> d < b
    BY <1>1
  <2> QED  BY <2>1, <2>2, <1>2, Zenon
<1>7. a < c => p1 \in Solid
  BY <1>1 DEF Solid
<1>8. d < b => p2 \in Solid
  BY <1>1 DEF Solid
<1> HIDE DEF p1, p2
<1>9. P \subseteq Solid
  BY <1>6, <1>7, <1>8
<1>10. IsFiniteSet(P)
  <2>1. IsFiniteSet({p1}) /\ IsFiniteSet({p1} \union {p2})
    BY FS_Singleton, FS_AddElement, Zenon
  <2>2. P \in SUBSET ({p1} \union {p2})
    BY <1>6
  <2> QED  BY <2>1, <2>2, FS_Subset, Zenon
<1>11. \A p \in P : a <= p.start /\ End(p) <= b
  BY <1>1, <1>4, <1>5, <1>6
<1>12. \A p, q \in P : p # q => Clear(p, q)
  <2>1. Clear(p1, p2) /\ Clear(p2, p1)
    BY <1>1, <1>4, <1>5 DEF Clear
  <2> QED  BY <2>1, <1>6
<1>13. BlocksIn(P) = BlocksOf(e) \ BlocksOf(x)
  <2>1. ASSUME NEW y \in BlocksIn(P) PROVE y \in BlocksOf(e) \ BlocksOf(x)
    <3>1. PICK p \in P : y \in BlocksOf(p)
      BY DEF BlocksIn
    <3>2. y \in Nat /\ p.start <= y /\ y < End(p)
      BY <3>1, <1>9, RealFields
    <3>3. CASE p = p1
      BY <3>2, <3>3, <1>1, <1>3, <1>4, <1>5
    <3>4. CASE p = p2
      BY <3>2, <3>4, <1>1, <1>3, <1>4, <1>5
    <3> QED  BY <3>3, <3>4, <1>6
  <2>2. ASSUME NEW y \in BlocksOf(e) \ BlocksOf(x) PROVE y \in BlocksIn(P)
    <3>1. y \in Nat /\ a <= y /\ y < b /\ ~(c <= y /\ y < d)
      BY <1>3
    <3>2. CASE y < c
      <4>1. p1 \in P /\ p1 \in Solid
        BY <3>1, <3>2, <1>1, <1>6, <1>7
      <4>2. y \in BlocksOf(p1)
        BY <4>1, <3>1, <3>2, <1>4, <1>5, RealFields
      <4> QED  BY <4>1, <4>2 DEF BlocksIn
    <3>3. CASE y >= d
      <4>1. p2 \in P /\ p2 \in Solid
        BY <3>1, <3>3, <1>1, <1>6, <1>8
      <4>2. y \in BlocksOf(p2)
        BY <4>1, <3>1, <3>3, <1>4, <1>5, RealFields
      <4> QED  BY <4>1, <4>2 DEF BlocksIn
    <3> QED  BY <3>1, <3>2, <3>3, <1>1
  <2> QED  BY <2>1, <2>2
<1> QED  BY <1>9, <1>10, <1>11, <1>12, <1>13 DEF a, b

(* An extent clear of another one does not overlap it.                     *)
LEMMA ClearParts ==
    ASSUME NEW a \in Solid, NEW b \in Solid, Clear(a, b),
           NEW p \in Solid, a.start <= p.start, End(p) <= End(a),
           NEW q \in Solid, b.start <= q.start, End(q) <= End(b)
    PROVE  Clear(p, q)
<1>1. /\ a.start \in Nat /\ b.start \in Nat /\ p.start \in Nat /\ q.start \in Nat
      /\ End(a) \in Nat /\ End(b) \in Nat /\ End(p) \in Nat /\ End(q) \in Nat
  BY RealFields
<1> QED  BY <1>1 DEF Clear

(* SubtractExtent takes the blocks of the extent away.                     *)
LEMMA SubtractIsExact ==
    ASSUME NEW r, NEW blocks, RangesInv(r, blocks), NEW x \in Solid
    PROVE  RangesInv(SubtractExtent(r, x), blocks \ BlocksOf(x))
<1> DEFINE set == r.set
           hits == {e \in set : ExtentsOverlap(e, x)}
           Pieces(e) == SubtractOverlappingExtents(e, x)
           all == {Pieces(e) : e \in hits}
           rest == UNION all
           new == SubtractExtent(r, x)
           T == (set \ hits) \union rest
<1>1. Disjoint(set) /\ blocks = BlocksIn(set) /\ r.blocks = Cardinality(BlocksIn(set))
  BY DEF RangesInv
<1>2. \A e \in set : e \in Solid
  BY <1>1 DEF Disjoint
<1>3. /\ x.start \in Nat /\ End(x) \in Nat /\ x.start < End(x)
      /\ \A e \in set : e.start \in Nat /\ End(e) \in Nat /\ e.start < End(e)
  BY <1>2, RealFields
<1>4. \A e \in set : e \in hits <=> e.start < End(x) /\ x.start < End(e)
  BY <1>2, OverlapMeans
<1>5. new = IF x.start = kSparseHole \/ x.num = 0 THEN r
            ELSE [set |-> (set \ ErasedRange(set, hits)) \union rest,
                  blocks |-> r.blocks - (BlocksInExtents(hits) - BlocksInExtents(rest))]
  BY Zenon DEF SubtractExtent
<1>6. hits \subseteq set
  OBVIOUS
<1> HIDE DEF hits, new
<1>7. ErasedRange(set, hits) = hits
  <2>1. ASSUME NEW h \in hits PROVE h \in ErasedRange(set, hits)
    <3>1. h \in set /\ h.start <= h.start
      BY <1>3, <1>6
    <3> QED  BY <3>1, Zenon DEF ErasedRange
  <2>2. ASSUME NEW e \in ErasedRange(set, hits), e \notin hits PROVE FALSE
    <3>1. PICK a \in hits, b \in hits : a.start <= e.start /\ e.start <= b.start
      BY DEF ErasedRange
    <3>2. e \in set /\ a \in set /\ b \in set /\ a # e /\ b # e
      BY <2>2, <1>6 DEF ErasedRange
    <3>3. Clear(a, e) /\ Clear(e, b)
      BY <3>2, <1>1 DEF Disjoint
    <3>4. x.start < End(a) /\ b.start < End(x) /\ ~(e.start < End(x) /\ x.start < End(e))
      BY <3>2, <2>2, <1>4
    <3>5. /\ a.start \in Nat /\ End(a) \in Nat /\ a.start < End(a)
          /\ b.start \in Nat /\ End(b) \in Nat /\ b.start < End(b)
          /\ e.start \in Nat /\ End(e) \in Nat /\ e.start < End(e)
      BY <3>2, <1>3
    <3> QED  BY <3>1, <3>3, <3>4, <3>5, <1>3 DEF Clear
  <2> QED  BY <2>1, <2>2, Zenon
<1>8. new.set = T /\ new.blocks = r.blocks - (BlocksInExtents(hits) - BlocksInExtents(rest))
  <2>1. x.start # kSparseHole /\ x.num # 0
    BY RealFields DEF kSparseHole
  <2> HIDE DEF set, rest
  <2> QED  BY <2>1, <1>5, <1>7
<1>9. ASSUME NEW e \in hits
      PROVE  /\ Pieces(e) \subseteq Solid /\ IsFiniteSet(Pieces(e))
             /\ \A p \in Pieces(e) : e.start <= p.start /\ End(p) <= End(e)
             /\ \A p, q \in Pieces(e) : p # q => Clear(p, q)
             /\ BlocksIn(Pieces(e)) = BlocksOf(e) \ BlocksOf(x)
  <2>1. e \in Solid /\ e.start < End(x) /\ x.start < End(e)
    BY <1>2, <1>4, <1>6
  <2> QED  BY <2>1, SubtractPieces, Zenon
<1> HIDE DEF Pieces
<1>10. \A p \in rest : p \in Solid /\ \E e \in hits : p \in Pieces(e) /\ e.start <= p.start /\ End(p) <= End(e)
  <2> SUFFICES ASSUME NEW p \in rest
               PROVE  p \in Solid /\ \E e \in hits : p \in Pieces(e) /\ e.start <= p.start /\ End(p) <= End(e)
    OBVIOUS
  <2>1. PICK e \in hits : p \in Pieces(e)
    OBVIOUS
  <2> QED  BY <2>1, <1>9
<1>11. IsFiniteSet(rest)
  <2> DEFINE f == [e \in hits |-> Pieces(e)]
  <2>1. f \in Surjection(hits, all)
    <3>1. f \in [hits -> all] /\ \A P \in all : \E e \in hits : f[e] = P
      OBVIOUS
    <3> QED  BY <3>1, Zenon DEF Surjection
  <2> HIDE DEF f
  <2>2. IsFiniteSet(hits)
    BY <1>1, <1>6, DisjointSubset DEF Disjoint
  <2>3. \A P \in all : IsFiniteSet(P)
    BY <1>9
  <2> HIDE DEF all
  <2>4. IsFiniteSet(all)
    BY <2>1, <2>2, FS_Surjection, Zenon
  <2> QED  BY <2>3, <2>4, FS_UNION
<1>12. BlocksIn(rest) = BlocksIn(hits) \ BlocksOf(x)
  <2>1. ASSUME NEW y \in BlocksIn(rest) PROVE y \in BlocksIn(hits) \ BlocksOf(x)
    <3>0. PICK p \in rest : y \in BlocksOf(p)
      BY DEF BlocksIn
    <3>1. PICK e \in hits : p \in Pieces(e)
      BY <3>0
    <3>2. y \in BlocksIn(Pieces(e))
      BY <3>0, <3>1 DEF BlocksIn
    <3>3. y \in BlocksOf(e) \ BlocksOf(x)
      BY <3>2, <1>9
    <3> QED  BY <3>3 DEF BlocksIn
  <2>2. ASSUME NEW y \in BlocksIn(hits) \ BlocksOf(x) PROVE y \in BlocksIn(rest)
    <3>1. PICK e \in hits : y \in BlocksOf(e)
      BY DEF BlocksIn
    <3>2. y \in BlocksIn(Pieces(e))
      BY <3>1, <1>9
    <3>3. PICK p \in Pieces(e) : y \in BlocksOf(p)
      BY <3>2 DEF BlocksIn
    <3> QED  BY <3>3 DEF BlocksIn
  <2> QED  BY <2>1, <2>2
<1> HIDE DEF all, rest
<1>13. ASSUME NEW p \in rest, NEW b \in set \ hits PROVE Clear(p, b) /\ Clear(b, p)
  <2>1. p \in Solid /\ b \in Solid
    BY <1>2, <1>10
  <2>2. PICK e \in hits : e.start <= p.start /\ End(p) <= End(e)
    BY <1>10
  <2>3. e \in Solid /\ Clear(e, b)
    BY <1>1, <1>2, <1>6 DEF Disjoint
  <2>4. b.start <= b.start /\ End(b) <= End(b)
    BY <1>3
  <2>5. Clear(p, b)
    BY <2>1, <2>2, <2>3, <2>4, ClearParts
  <2> QED  BY <2>5 DEF Clear
<1>14. ASSUME NEW p \in rest, NEW q \in rest, p # q PROVE Clear(p, q)
  <2>1. p \in Solid /\ q \in Solid
    BY <1>10
  <2>2. PICK d \in hits : p \in Pieces(d) /\ d.start <= p.start /\ End(p) <= End(d)
    BY <1>10
  <2>3. PICK e \in hits : q \in Pieces(e) /\ e.start <= q.start /\ End(q) <= End(e)
    BY <1>10
  <2>4. CASE d = e
    BY <2>2, <2>3, <2>4, <1>9, <1>14
  <2>5. CASE d # e
    <3>1. d \in Solid /\ e \in Solid /\ Clear(d, e)
      BY <2>5, <1>1, <1>2, <1>6 DEF Disjoint
    <3> QED  BY <3>1, <2>1, <2>2, <2>3, ClearParts
  <2> QED  BY <2>4, <2>5
<1>15. rest \intersect (set \ hits) = {}
  <2> SUFFICES ASSUME NEW p \in rest, p \in set \ hits PROVE FALSE
    OBVIOUS
  <2>1. Clear(p, p) /\ p \in Solid
    BY <1>10, <1>13
  <2>2. p.start \in Nat /\ End(p) \in Nat /\ p.start < End(p)
    BY <2>1, RealFields
  <2> QED  BY <2>1, <2>2 DEF Clear
<1>16. Disjoint(T)
  <2>1. T \subseteq Solid
    BY <1>2, <1>10
  <2>2. IsFiniteSet(T)
    <3>1. IsFiniteSet(set \ hits)
      BY <1>1, DisjointSubset DEF Disjoint
    <3> QED  BY <3>1, <1>11, FS_Union, Zenon
  <2>3. ASSUME NEW a \in T, NEW b \in T, a # b PROVE Clear(a, b)
    <3>1. CASE a \in set \ hits /\ b \in set \ hits
      BY <3>1, <2>3, <1>1, Zenon DEF Disjoint
    <3> QED  BY <3>1, <2>3, <1>13, <1>14, Zenon
  <2> QED  BY <2>1, <2>2, <2>3, Zenon DEF Disjoint
<1>17. /\ BlocksIn(set) = BlocksIn(set \ hits) \union BlocksIn(hits)
       /\ BlocksIn(set \ hits) \intersect BlocksIn(hits) = {}
       /\ Cardinality(BlocksIn(set)) = Cardinality(BlocksIn(set \ hits)) + Cardinality(BlocksIn(hits))
  BY <1>1, <1>6, BlocksOfParts, Zenon
<1>18. BlocksIn(set \ hits) \intersect BlocksOf(x) = {}
  <2> SUFFICES ASSUME NEW e \in set \ hits, NEW y, y \in BlocksOf(e), y \in BlocksOf(x) PROVE FALSE
    BY DEF BlocksIn
  <2>1. y \in Nat /\ e.start <= y /\ y < End(e) /\ x.start <= y /\ y < End(x)
    BY <1>2, RealFields
  <2>2. ~(e.start < End(x) /\ x.start < End(e))
    BY <1>4
  <2> QED  BY <2>1, <2>2, <1>3
<1>19. BlocksIn(T) = BlocksIn(set \ hits) \union BlocksIn(rest)
  BY DEF BlocksIn
<1>20. BlocksIn(T) = blocks \ BlocksOf(x)
  BY <1>1, <1>12, <1>17, <1>18, <1>19
<1>21. /\ BlocksInExtents(hits) = Cardinality(BlocksIn(hits))
       /\ Cardinality(BlocksIn(hits)) \in Nat /\ Cardinality(BlocksIn(set \ hits)) \in Nat
  BY <1>1, <1>6, DisjointSubset, DisjointInOrder
<1>22. /\ rest \subseteq T /\ T \ rest = set \ hits
  BY <1>15
<1> HIDE DEF T
<1>23. BlocksInExtents(rest) = Cardinality(BlocksIn(rest)) /\ Cardinality(BlocksIn(rest)) \in Nat
  BY <1>16, <1>22, DisjointSubset, DisjointInOrder
<1>24. Cardinality(BlocksIn(T)) = Cardinality(BlocksIn(set \ hits)) + Cardinality(BlocksIn(rest))
  BY <1>16, <1>22, BlocksOfParts
<1>25. new.blocks = Cardinality(BlocksIn(T))
  <2> DEFINE p == Cardinality(BlocksIn(set \ hits))
             q == Cardinality(BlocksIn(hits))
             u == Cardinality(BlocksIn(rest))
  <2>1. p \in Nat /\ q \in Nat /\ u \in Nat
    BY <1>21, <1>23
  <2>2. new.blocks = (p + q) - (q - u) /\ Cardinality(BlocksIn(T)) = p + u
    BY <1>1, <1>8, <1>17, <1>21, <1>23, <1>24, Zenon
  <2> HIDE DEF p, q, u
  <2> QED  BY <2>1, <2>2
<1> QED  BY <1>8, <1>16, <1>20, <1>25, Zenon DEF RangesInv, new

-----------------------------------------------------------------------------
(* LowerBound separates the extents that start before a block from those   *)
(* that do not.                                                            *)
LEMMA LowerBoundSeparates ==
    ASSUME NEW s \in Seq(Solid), \A i, j \in 1..Len(s) : i < j => s[i].start < s[j].start,
           NEW block \in Int
    PROVE  /\ LowerBound(s, block) \in 1..(Len(s) + 1)
           /\ \A i \in 1..Len(s) : i < LowerBound(s, block) <=> s[i].start < block
<1> DEFINE n == Len(s)
           X == {i \in 1..n : s[i].start >= block} \union {n + 1}
           m == LowerBound(s, block)
<1>1. n \in Nat /\ DOMAIN s = 1..n /\ \A i \in 1..n : s[i] \in Solid
  BY LenProperties, ElementOfSeq
<1>2. \A i \in 1..n : s[i].start \in Int
  BY <1>1, RealFields
<1>3. m = CHOOSE i \in X : \A j \in X : i <= j
  BY <1>1, Zenon DEF LowerBound, Min
<1> HIDE DEF n, m
<1>4. X \subseteq Nat /\ X # {} /\ n + 1 \in X
  BY <1>1
<1>5. \E i \in X : \A j \in X : i <= j
  <2> HIDE DEF X
  <2> QED  BY <1>4, LeastNumber, Zenon
<1>6. m \in X /\ \A j \in X : m <= j
  <2> HIDE DEF X
  <2> QED  BY <1>3, <1>5
<1>7. m \in 1..(n + 1)
  BY <1>1, <1>6
<1>8. ASSUME NEW i \in 1..n, i < m PROVE s[i].start < block
  <2>1. i \notin X
    BY <1>1, <1>6, <1>7, <1>8
  <2>2. ~(s[i].start >= block)
    BY <2>1
  <2> QED  BY <2>2, <1>2
<1>9. ASSUME NEW i \in 1..n, ~(i < m) PROVE ~(s[i].start < block)
  <2>1. m \in 1..n /\ m <= i
    BY <1>1, <1>7, <1>9
  <2>2. s[m].start >= block
    BY <2>1, <1>1, <1>6
  <2>3. m = i \/ s[m].start < s[i].start
    BY <2>1, <1>1 DEF n
  <2> QED  BY <2>1, <2>2, <2>3, <1>2
<1> QED  BY <1>7, <1>8, <1>9 DEF n, m

(* An extent before the place where a search for a block begins ends       *)
(* before the block.                                                       *)
LEMMA BeforeIsClear ==
    ASSUME NEW s \in Seq(Solid), Gaps(s),
           \A i, j \in 1..Len(s) : i < j => s[i].start < s[j].start, NEW block \in Int
    PROVE  /\ Before(s, block) \in Nat /\ Before(s, block) >= 1
           /\ \A i \in 1..Len(s) : i < Before(s, block) => End(s[i]) < block
<1> DEFINE n == Len(s)
           m == LowerBound(s, block)
<1>1. n \in Nat /\ \A i \in 1..n : s[i] \in Solid
  BY LenProperties, ElementOfSeq
<1>2. m \in 1..(n + 1) /\ \A i \in 1..n : i < m <=> s[i].start < block
  BY LowerBoundSeparates
<1>3. Before(s, block) = Max({1, m - 1})
  BY Zenon DEF Before
<1> HIDE DEF n, m
<1>4. m - 1 \in Int
  BY <1>1, <1>2
<1>5. Before(s, block) = IF 1 <= m - 1 THEN m - 1 ELSE 1
  <2>1. 1 \in Int
    OBVIOUS
  <2> QED  BY <2>1, <1>3, <1>4, MinMaxOfTwo, Zenon
<1>6. ASSUME NEW i \in 1..n, i < Before(s, block) PROVE End(s[i]) < block
  <2>1. i + 1 \in 1..n /\ i + 1 < m
    BY <1>1, <1>2, <1>5, <1>6
  <2>2. s[i + 1].start < block
    BY <2>1, <1>2
  <2>3. End(s[i]) < s[i + 1].start
    BY <2>1, <1>1 DEF Gaps, n
  <2>4. End(s[i]) \in Nat /\ s[i + 1].start \in Nat
    BY <2>1, <1>1, RealFields
  <2> QED  BY <2>2, <2>3, <2>4
<1>7. Before(s, block) \in Nat /\ Before(s, block) >= 1
  BY <1>1, <1>2, <1>5
<1> QED  BY <1>6, <1>7 DEF n

(* ContainsBlock is right.                                                 *)
LEMMA ContainsIsExact ==
    ASSUME NEW r, NEW blocks, RangesInv(r, blocks), NEW block \in Int
    PROVE  ContainsBlock(r, block) <=> block \in blocks
<1> DEFINE s == InOrder(r.set)
           n == Len(s)
           low == Before(s, block)
           high == LowerBound(s, block + 1)
<1>1. Disjoint(r.set) /\ blocks = BlocksIn(r.set)
  BY DEF RangesInv
<1>2. /\ s \in Seq(Solid) /\ Gaps(s) /\ {s[j] : j \in 1..n} = r.set
      /\ \A i, j \in 1..n : i < j => s[i].start < s[j].start
  BY <1>1, DisjointInOrder
<1>3. n \in Nat /\ \A i \in 1..n : s[i] \in Solid
  BY <1>2, LenProperties, ElementOfSeq
<1>4. ContainsBlock(r, block) <=>
        \E i \in low..(high - 1) : s[i].start <= block /\ block < End(s[i])
  BY Zenon DEF ContainsBlock
<1> HIDE DEF s
<1>5. block + 1 \in Int
  OBVIOUS
<1>6. high \in 1..(n + 1) /\ \A i \in 1..n : i < high <=> s[i].start < block + 1
  BY <1>2, <1>5, LowerBoundSeparates, Zenon
<1>7. low \in Nat /\ low >= 1 /\ \A i \in 1..n : i < low => End(s[i]) < block
  BY <1>2, BeforeIsClear, Zenon
<1> HIDE DEF n, low, high
<1>8. \A i \in 1..n : s[i].start \in Nat /\ End(s[i]) \in Nat
  BY <1>3, RealFields
<1>9. \A i \in 1..n : block \in BlocksOf(s[i]) <=> s[i].start <= block /\ block < End(s[i])
  <2> SUFFICES ASSUME NEW i \in 1..n
               PROVE  block \in BlocksOf(s[i]) <=> s[i].start <= block /\ block < End(s[i])
    OBVIOUS
  <2>1. block \in BlocksOf(s[i]) <=> block \in Nat /\ s[i].start <= block /\ block < End(s[i])
    BY <1>3, RealFields
  <2> QED  BY <2>1, <1>8
<1>10. ASSUME ContainsBlock(r, block) PROVE block \in blocks
  <2>1. PICK i \in low..(high - 1) : s[i].start <= block /\ block < End(s[i])
    BY <1>4, <1>10
  <2>2. i \in 1..n
    BY <1>3, <1>6, <1>7
  <2>3. s[i] \in r.set /\ block \in BlocksOf(s[i])
    BY <2>1, <2>2, <1>2, <1>9 DEF n
  <2> QED  BY <2>3, <1>1 DEF BlocksIn
<1>11. ASSUME block \in blocks PROVE ContainsBlock(r, block)
  <2>1. PICK e \in r.set : block \in BlocksOf(e)
    BY <1>1, <1>11 DEF BlocksIn
  <2>2. PICK i \in 1..n : s[i] = e
    BY <1>2 DEF n
  <2>3. s[i].start <= block /\ block < End(s[i])
    BY <2>1, <2>2, <1>9
  <2>4. i < high /\ ~(i < low)
    BY <2>3, <1>6, <1>7, <1>8
  <2>5. i \in low..(high - 1)
    BY <2>4, <1>3, <1>6, <1>7
  <2> QED  BY <2>3, <2>5, <1>4
<1> QED  BY <1>10, <1>11

(* OverlapsWithExtent is right.                                            *)
LEMMA OverlapsIsExact ==
    ASSUME NEW r, NEW blocks, RangesInv(r, blocks), NEW x \in Solid
    PROVE  OverlapsWithExtent(r, x) <=> BlocksOf(x) \intersect blocks # {}
<1>1. Disjoint(r.set) /\ blocks = BlocksIn(r.set)
  BY DEF RangesInv
<1>2. \A e \in r.set : e \in Solid
  BY <1>1 DEF Disjoint
<1>3. ASSUME NEW e \in r.set
      PROVE  ExtentsOverlap(e, x) <=> \E y : y \in BlocksOf(e) /\ y \in BlocksOf(x)
  <2>1. e \in Solid
    BY <1>2
  <2>2. ExtentsOverlap(e, x) <=> e.start < End(x) /\ x.start < End(e)
    BY <2>1, OverlapMeans
  <2>3. \A y : y \in BlocksOf(e) <=> y \in Nat /\ e.start <= y /\ y < End(e)
    BY <2>1, RealFields, Zenon
  <2>4. \A y : y \in BlocksOf(x) <=> y \in Nat /\ x.start <= y /\ y < End(x)
    BY RealFields, Zenon
  <2>5. /\ e.start \in Nat /\ End(e) \in Nat /\ e.start < End(e)
        /\ x.start \in Nat /\ End(x) \in Nat /\ x.start < End(x)
    BY <2>1, RealFields
  <2>6. ASSUME ExtentsOverlap(e, x) PROVE \E y : y \in BlocksOf(e) /\ y \in BlocksOf(x)
    <3>1. CASE e.start <= x.start
      <4>1. x.start \in BlocksOf(e) /\ x.start \in BlocksOf(x)
        BY <3>1, <2>2, <2>3, <2>4, <2>5, <2>6
      <4> QED  BY <4>1
    <3>2. CASE x.start <= e.start
      <4>1. e.start \in BlocksOf(e) /\ e.start \in BlocksOf(x)
        BY <3>2, <2>2, <2>3, <2>4, <2>5, <2>6
      <4> QED  BY <4>1
    <3> QED  BY <3>1, <3>2, <2>5
  <2>7. ASSUME NEW y, y \in BlocksOf(e), y \in BlocksOf(x) PROVE ExtentsOverlap(e, x)
    BY <2>2, <2>3, <2>4, <2>5, <2>7
  <2> QED  BY <2>6, <2>7
<1> QED  BY <1>1, <1>3 DEF OverlapsWithExtent, BlocksIn

-----------------------------------------------------------------------------
(* One step of FilterExtentRanges' inner loop.                             *)
Cut1(acc, e) ==
    IF acc.rest.num = 0 \/ ~ExtentsOverlap(acc.rest, e) THEN acc
    ELSE [out |-> IF e.start <= acc.rest.start THEN acc.out
                  ELSE Append(acc.out, ExtentForRange(acc.rest.start, e.start - acc.rest.start)),
          rest |-> IF End(e) >= End(acc.rest) THEN [acc.rest EXCEPT !.num = 0]
                   ELSE ExtentForRange(End(e), End(acc.rest) - End(e))]

Places == [start : Nat, num : Nat]

Cuts == [out : Seq(Solid), rest : Places]

(* What a step does to an extent that is not used up and is hit.           *)
LEMMA CutHits ==
    ASSUME NEW acc \in Cuts, NEW e \in Solid, acc.rest.num # 0, ExtentsOverlap(acc.rest, e),
           NEW new, new = Cut1(acc, e)
    PROVE  /\ acc.rest \in Solid /\ e.start < End(acc.rest) /\ acc.rest.start < End(e)
           /\ e.start <= acc.rest.start => new.out = acc.out
           /\ e.start > acc.rest.start =>
                \E p \in Solid : /\ new.out = Append(acc.out, p)
                                 /\ p.start = acc.rest.start /\ End(p) = e.start
           /\ new.rest \in Places
           /\ End(e) >= End(acc.rest) => new.rest.num = 0 /\ new.rest.start = acc.rest.start
           /\ End(e) < End(acc.rest) =>
                new.rest.num # 0 /\ new.rest.start = End(e) /\ End(new.rest) = End(acc.rest)
           /\ new = [out |-> new.out, rest |-> new.rest]
<1> DEFINE x == acc.rest
           a == x.start
           b == End(x)
           c == e.start
           d == End(e)
<1>1. x \in Solid /\ acc.out \in Seq(Solid)
  BY DEF Cuts, Places, Solid
<1>2. a \in Nat /\ b \in Nat /\ a < b /\ c \in Nat /\ d \in Nat /\ c < d /\ x.num \in Nat
  BY <1>1, RealFields
<1>3. c < b /\ a < d
  BY <1>1, OverlapMeans
<1>4. new = [out |-> IF c <= a THEN acc.out ELSE Append(acc.out, [start |-> a, num |-> c - a]),
             rest |-> IF d >= b THEN [x EXCEPT !.num = 0] ELSE [start |-> d, num |-> b - d]]
  BY Zenon DEF Cut1, ExtentForRange
<1>5. [x EXCEPT !.num = 0] = [start |-> a, num |-> 0]
  BY <1>1 DEF Solid
<1> HIDE DEF x, a, b, c, d
<1>6. /\ new.out = (IF c <= a THEN acc.out ELSE Append(acc.out, [start |-> a, num |-> c - a]))
      /\ new.rest = (IF d >= b THEN [start |-> a, num |-> 0] ELSE [start |-> d, num |-> b - d])
      /\ new = [out |-> new.out, rest |-> new.rest]
  BY <1>4, <1>5
<1>7. c > a => \E p \in Solid : new.out = Append(acc.out, p) /\ p.start = a /\ End(p) = c
  <2> SUFFICES ASSUME c > a
               PROVE  \E p \in Solid : new.out = Append(acc.out, p) /\ p.start = a /\ End(p) = c
    OBVIOUS
  <2> DEFINE p == [start |-> a, num |-> c - a]
  <2>1. p \in Solid /\ p.start = a /\ End(p) = c
    BY <1>2 DEF Solid, End
  <2>2. ~(c <= a)
    BY <1>2
  <2>3. new.out = Append(acc.out, p)
    BY <2>2, <1>6
  <2> QED  BY <2>1, <2>3
<1>8. CASE d >= b
  <2>1. new.rest = [start |-> a, num |-> 0]
    BY <1>8, <1>6
  <2>2. new.rest \in Places /\ new.rest.num = 0 /\ new.rest.start = a
    BY <2>1, <1>2 DEF Places
  <2> QED  BY <2>2, <1>1, <1>2, <1>3, <1>6, <1>7, <1>8 DEF x, a, b, c, d
<1>9. CASE d < b
  <2>1. new.rest = [start |-> d, num |-> b - d]
    BY <1>2, <1>6, <1>9
  <2>2. new.rest \in Places /\ new.rest.num # 0 /\ new.rest.start = d /\ End(new.rest) = b
    BY <2>1, <1>2, <1>9 DEF Places, End
  <2> QED  BY <2>2, <1>1, <1>2, <1>3, <1>6, <1>7, <1>9 DEF x, a, b, c, d
<1> QED  BY <1>2, <1>8, <1>9

(* The loop follows its recursion.                                         *)
LEMMA CutFollows ==
    ASSUME NEW s \in Seq(Solid), NEW extent \in Solid
    PROVE  \E f : /\ f \in [0..Len(s) -> Cuts]
                  /\ f[0] = [out |-> <<>>, rest |-> extent]
                  /\ \A i \in 1..Len(s) : f[i] = Cut1(f[i - 1], s[i])
                  /\ CutExtents(s, extent) = f[Len(s)]
<1> DEFINE n == Len(s)
           A == Cuts
           base == [out |-> <<>>, rest |-> extent]
           Step(q, i) == Cut1(q, s[i])
           step == [i \in 1..n |-> [q \in A |-> Step(q, i)]]
           Body(g) == [i \in 0..n |-> IF i = 0 THEN base ELSE Step(g[i - 1], i)]
           b == CHOOSE g : g = Body(g)
<1>1. n \in Nat /\ base \in A
  <2>1. extent \in Places
    BY DEF Solid, Places
  <2>2. <<>> \in Seq(Solid)
    BY EmptySeq
  <2> QED  BY <2>1, <2>2, LenProperties DEF Cuts
<1>2. \A q \in A : \A i \in 1..n : Step(q, i) \in A
  <2> SUFFICES ASSUME NEW q \in A, NEW i \in 1..n PROVE Cut1(q, s[i]) \in A
    OBVIOUS
  <2> DEFINE e == s[i]
             new == Cut1(q, e)
  <2>1. e \in Solid
    BY ElementOfSeq
  <2> HIDE DEF e
  <2>2. CASE q.rest.num = 0 \/ ~ExtentsOverlap(q.rest, e)
    BY <2>2 DEF Cut1, e
  <2>3. CASE ~(q.rest.num = 0 \/ ~ExtentsOverlap(q.rest, e))
    <3>1. /\ e.start <= q.rest.start => new.out = q.out
          /\ e.start > q.rest.start => \E p \in Solid : new.out = Append(q.out, p)
          /\ q.rest \in Solid
          /\ new.rest \in Places /\ new = [out |-> new.out, rest |-> new.rest]
      <4> HIDE DEF new
      <4> QED  BY <2>1, <2>3, CutHits DEF new
    <3>2. e.start \in Nat /\ q.rest.start \in Nat
      BY <3>1, <2>1, RealFields
    <3>3. q.out \in Seq(Solid)
      BY DEF Cuts
    <3> HIDE DEF new
    <3>4. new.out \in Seq(Solid)
      <4>1. CASE e.start <= q.rest.start
        BY <4>1, <3>1, <3>3
      <4>2. CASE e.start > q.rest.start
        <5>1. PICK p \in Solid : new.out = Append(q.out, p)
          BY <4>2, <3>1
        <5> QED  BY <5>1, <3>3, AppendProperties
      <4> QED  BY <4>1, <4>2, <3>2
    <3>5. new \in Cuts
      BY <3>1, <3>4 DEF Cuts
    <3> QED  BY <3>5 DEF new, e
  <2> QED  BY <2>2, <2>3
<1>3. CutExtents(s, extent) = b[n]
  BY Zenon DEF CutExtents, Cut1
<1> HIDE DEF n, A, Step, base
<1>4. Steps(step, n, A)
  BY <1>2 DEF Steps
<1>5. \A i \in 1..n : \A q \in A : step[i][q] = Step(q, i)
  OBVIOUS
<1> HIDE DEF step
<1>6. PICK f : DefinedBy(f, n, A, base, step)
  BY <1>1, <1>4, RecursionExists, Zenon
<1>7. \A i \in 1..n : i - 1 \in 0..n
  BY <1>1
<1>8. f = Body(f)
  <2>1. ASSUME NEW i \in 1..n PROVE f[i] = Step(f[i - 1], i)
    BY <1>5, <1>6, <1>7 DEF DefinedBy
  <2>2. \A i \in 0..n : i = 0 \/ i \in 1..n
    BY <1>1
  <2> QED  BY <1>6, <2>1, <2>2 DEF DefinedBy
<1>9. b = Body(b)
  <2> HIDE DEF Body
  <2> QED  BY <1>8
<1> HIDE DEF b
<1>10. /\ b = [i \in 0..n |-> b[i]] /\ b[0] = base
       /\ \A i \in 1..n : b[i] = Step(b[i - 1], i)
  <2>1. \A i \in 1..n : i \in 0..n /\ i # 0
    BY <1>1
  <2> QED  BY <1>9, <1>1, <2>1
<1> HIDE DEF Body
<1>11. DefinedBy(b, n, A, base, step)
  BY <1>1, <1>4, <1>5, <1>10, RecursionTyped, Zenon
<1> QED  BY <1>10, <1>11, <1>3, Zenon DEF DefinedBy, n, A, Step, base

(* A block is in one of the extents of a list.                             *)
InList(y, list) == \E j \in 1..Len(list) : y \in BlocksOf(list[j])

(* The extents of a list follow one another.                               *)
Follow(list) == \A j, k \in 1..Len(list) : j < k => End(list[j]) <= list[k].start

(* They end at or before a block.                                          *)
EndBy(list, block) == \A j \in 1..Len(list) : End(list[j]) <= block

(* What the loop knows after n extents: what was put out and what is left  *)
(* make up what is not in those extents.                                   *)
LeftOver(acc, s, n, extent) ==
    /\ Follow(acc.out)
    /\ acc.rest.num # 0 => \A j \in 1..Len(acc.out) : End(acc.out[j]) <= acc.rest.start
    /\ \A j \in 1..Len(acc.out) : \E k \in 1..n : End(acc.out[j]) <= s[k].start
    /\ \A y : InList(y, acc.out) \/ y \in BlocksOf(acc.rest) <=>
                y \in BlocksOf(extent) /\ \A k \in 1..n : y \notin BlocksOf(s[k])

(* A list with one extent more.                                            *)
LEMMA FollowAppend ==
    ASSUME NEW out \in Seq(Solid), Follow(out), NEW p \in Solid,
           EndBy(out, p.start), NEW new, new = Append(out, p)
    PROVE  /\ new \in Seq(Solid) /\ Follow(new)
           /\ \A y : InList(y, new) <=> InList(y, out) \/ y \in BlocksOf(p)
           /\ \A j \in 1..Len(new) : (j \in 1..Len(out) /\ new[j] = out[j]) \/ new[j] = p
<1> DEFINE n == Len(out)
<1>1. /\ n \in Nat /\ new \in Seq(Solid) /\ Len(new) = n + 1 /\ new[n + 1] = p
      /\ \A j \in 1..n : new[j] = out[j]
  BY AppendProperties, LenProperties
<1> HIDE DEF n
<1>2. 1..(n + 1) = (1..n) \union {n + 1} /\ \A j \in 1..n : j < n + 1 /\ ~(n + 1 < j)
  BY <1>1
<1>3. Follow(new)
  <2> SUFFICES ASSUME NEW j \in 1..(n + 1), NEW k \in 1..(n + 1), j < k
               PROVE  End(new[j]) <= new[k].start
    BY <1>1 DEF Follow
  <2>1. j \in 1..n
    BY <1>1
  <2>2. CASE k \in 1..n
    BY <2>1, <2>2, <1>1 DEF Follow, n
  <2>3. CASE k = n + 1
    BY <2>1, <2>3, <1>1 DEF EndBy, n
  <2> QED  BY <2>2, <2>3, <1>2, Zenon
<1>4. \A y : InList(y, new) <=> InList(y, out) \/ y \in BlocksOf(p)
  <2> SUFFICES ASSUME NEW y PROVE InList(y, new) <=> InList(y, out) \/ y \in BlocksOf(p)
    OBVIOUS
  <2>1. InList(y, new) <=> \E j \in 1..(n + 1) : y \in BlocksOf(new[j])
    BY <1>1, Zenon DEF InList
  <2>2. InList(y, out) <=> \E j \in 1..n : y \in BlocksOf(out[j])
    BY Zenon DEF InList, n
  <2> QED  BY <2>1, <2>2, <1>1, <1>2
<1>5. \A j \in 1..Len(new) : (j \in 1..n /\ new[j] = out[j]) \/ new[j] = p
  BY <1>1, <1>2
<1> QED  BY <1>1, <1>3, <1>4, <1>5 DEF n

(* One more step keeps it.                                                 *)
LEMMA CutsOn ==
    ASSUME NEW s \in Seq(Solid), Gaps(s), NEW extent \in Solid,
           NEW n \in Nat, n + 1 <= Len(s), NEW acc \in Cuts, LeftOver(acc, s, n, extent)
    PROVE  LeftOver(Cut1(acc, s[n + 1]), s, n + 1, extent)
<1> DEFINE e == s[n + 1]
           x == acc.rest
           new == Cut1(acc, e)
<1>1. n + 1 \in 1..Len(s) /\ \A j \in 1..n : j \in 1..Len(s) /\ j < n + 1
  BY LenProperties
<1>2. e \in Solid /\ \A j \in 1..n : s[j] \in Solid /\ End(s[j]) < e.start
  BY <1>1, ElementOfSeq DEF Gaps
<1>3. 1..(n + 1) = (1..n) \union {n + 1}
  OBVIOUS
<1>4. acc.out \in Seq(Solid) /\ x \in Places /\ \A j \in 1..Len(acc.out) : acc.out[j] \in Solid
  <2>1. acc.out \in Seq(Solid) /\ x \in Places
    BY DEF Cuts
  <2> QED  BY <2>1, ElementOfSeq
<1>5. \A j \in 1..Len(acc.out) : \A y \in BlocksOf(acc.out[j]) : y \notin BlocksOf(e)
  <2> SUFFICES ASSUME NEW j \in 1..Len(acc.out), NEW y, y \in BlocksOf(acc.out[j]), y \in BlocksOf(e)
               PROVE  FALSE
    OBVIOUS
  <2>1. PICK k \in 1..n : End(acc.out[j]) <= s[k].start
    BY DEF LeftOver
  <2>2. y \in Nat /\ y < End(acc.out[j]) /\ e.start <= y /\ End(acc.out[j]) \in Nat /\ e.start \in Nat
    BY <1>2, <1>4, RealFields, Zenon
  <2>3. s[k].start \in Nat /\ End(s[k]) \in Nat /\ s[k].start < End(s[k]) /\ End(s[k]) < e.start
    BY <1>2, RealFields
  <2> QED  BY <2>1, <2>2, <2>3
<1>6. \A y : InList(y, acc.out) => y \notin BlocksOf(e)
  BY <1>5 DEF InList
<1>7. \A y : (\A k \in 1..(n + 1) : y \notin BlocksOf(s[k])) <=>
                (\A k \in 1..n : y \notin BlocksOf(s[k])) /\ y \notin BlocksOf(e)
  BY <1>3
<1>8. \A y : InList(y, acc.out) \/ y \in BlocksOf(x) <=>
                y \in BlocksOf(extent) /\ \A k \in 1..n : y \notin BlocksOf(s[k])
  BY Zenon DEF LeftOver
<1>9. SUFFICES /\ Follow(new.out)
               /\ new.rest.num # 0 => \A j \in 1..Len(new.out) : End(new.out[j]) <= new.rest.start
               /\ \A j \in 1..Len(new.out) : \E k \in 1..(n + 1) : End(new.out[j]) <= s[k].start
               /\ \A y : InList(y, new.out) \/ y \in BlocksOf(new.rest) <=>
                            InList(y, acc.out) \/ (y \in BlocksOf(x) /\ y \notin BlocksOf(e))
  <2>1. \A y : InList(y, new.out) \/ y \in BlocksOf(new.rest) <=>
                y \in BlocksOf(extent) /\ \A k \in 1..(n + 1) : y \notin BlocksOf(s[k])
    <3> HIDE DEF new, x, e
    <3> QED  BY <1>6, <1>7, <1>8, <1>9, Zenon
  <2> HIDE DEF new
  <2>2. LeftOver(new, s, n + 1, extent)
    BY <2>1, <1>9, Zenon DEF LeftOver
  <2> QED  BY <2>2 DEF new
<1>10. CASE x.num = 0 \/ ~ExtentsOverlap(x, e)
  <2>1. new = acc
    BY <1>10 DEF Cut1
  <2>2. \A y \in BlocksOf(x) : y \notin BlocksOf(e)
    <3>1. CASE x.num = 0
      <4>1. \A y : y \in BlocksOf(x) <=> y \in Int /\ x.start <= y /\ y < End(x)
        BY <1>4, InBlocks DEF Places, Extents
      <4>2. End(x) = x.start /\ x.start \in Nat
        BY <3>1, <1>4 DEF End, Places
      <4> QED  BY <4>1, <4>2
    <3>2. CASE x.num # 0 /\ ~ExtentsOverlap(x, e)
      <4>1. x \in Solid
        BY <3>2, <1>4 DEF Places, Solid
      <4>2. ~(x.start < End(e) /\ e.start < End(x))
        BY <4>1, <3>2, <1>2, OverlapMeans
      <4>3. \A y \in BlocksOf(x) : y \in Nat /\ x.start <= y /\ y < End(x)
        BY <4>1, RealFields
      <4>4. \A y \in BlocksOf(e) : y \in Nat /\ e.start <= y /\ y < End(e)
        BY <1>2, RealFields
      <4>5. x.start \in Nat /\ End(x) \in Nat /\ e.start \in Nat /\ End(e) \in Nat
        BY <4>1, <1>2, RealFields
      <4> QED  BY <4>2, <4>3, <4>4, <4>5
    <3> QED  BY <3>1, <3>2, <1>10
  <2>3. \A j \in 1..Len(acc.out) : \E k \in 1..(n + 1) : End(acc.out[j]) <= s[k].start
    BY <1>3, Zenon DEF LeftOver
  <2> HIDE DEF e, new
  <2> QED  BY <2>1, <2>2, <2>3, Zenon DEF LeftOver
<1>11. CASE ~(x.num = 0 \/ ~ExtentsOverlap(x, e))
  <2>1. /\ x \in Solid /\ e.start < End(x) /\ x.start < End(e)
        /\ e.start <= x.start => new.out = acc.out
        /\ e.start > x.start =>
             \E p \in Solid : new.out = Append(acc.out, p) /\ p.start = x.start /\ End(p) = e.start
        /\ new.rest \in Places
        /\ End(e) >= End(x) => new.rest.num = 0 /\ new.rest.start = x.start
        /\ End(e) < End(x) => new.rest.num # 0 /\ new.rest.start = End(e) /\ End(new.rest) = End(x)
    <3> HIDE DEF e, new
    <3> QED  BY <1>2, <1>11, CutHits DEF new
  <2> HIDE DEF e, new
  <2>2. /\ x.start \in Nat /\ End(x) \in Nat /\ x.start < End(x)
        /\ e.start \in Nat /\ End(e) \in Nat /\ e.start < End(e)
    BY <1>2, <2>1, RealFields
  <2>3. \A y : y \in BlocksOf(x) /\ y \notin BlocksOf(e) <=>
                y \in Nat /\ x.start <= y /\ y < End(x) /\ ~(e.start <= y /\ y < End(e))
    <3>1. \A y : y \in BlocksOf(x) <=> y \in Nat /\ x.start <= y /\ y < End(x)
      BY <2>1, RealFields, Zenon
    <3>2. \A y : y \in BlocksOf(e) <=> y \in Nat /\ e.start <= y /\ y < End(e)
      BY <1>2, RealFields, Zenon
    <3> QED  BY <3>1, <3>2, Zenon
  <2>4. \A y : y \in BlocksOf(new.rest) <=>
                y \in Nat /\ End(e) <= y /\ y < End(x) /\ End(e) < End(x)
    <3>1. \A y : y \in BlocksOf(new.rest) <=> y \in Int /\ new.rest.start <= y /\ y < End(new.rest)
      <4>1. new.rest \in Extents
        BY <2>1 DEF Places, Extents
      <4> QED  BY <4>1, InBlocks, Zenon
    <3>2. CASE End(e) < End(x)
      BY <3>1, <3>2, <2>1, <2>2
    <3>3. CASE End(e) >= End(x)
      <4>1. End(new.rest) = new.rest.start /\ new.rest.start \in Nat
        BY <3>3, <2>1, <2>2 DEF End, Places
      <4> QED  BY <3>1, <3>3, <4>1, <2>2
    <3> QED  BY <3>2, <3>3, <2>2
  <2>5. \A j \in 1..Len(acc.out) : End(acc.out[j]) <= x.start /\ End(acc.out[j]) \in Nat
    <3>1. x.num # 0
      BY <1>11
    <3>2. \A j \in 1..Len(acc.out) : End(acc.out[j]) \in Nat
      BY <1>4, RealFields
    <3> QED  BY <3>1, <3>2, Zenon DEF LeftOver
  <2>6. Follow(acc.out) /\ \A j \in 1..Len(acc.out) : \E k \in 1..(n + 1) : End(acc.out[j]) <= s[k].start
    BY <1>3, Zenon DEF LeftOver
  <2>7. CASE e.start <= x.start
    <3>1. new.out = acc.out
      BY <2>1, <2>7
    <3>2. new.rest.num # 0 => \A j \in 1..Len(acc.out) : End(acc.out[j]) <= new.rest.start
      <4> SUFFICES ASSUME new.rest.num # 0, NEW j \in 1..Len(acc.out)
                   PROVE  End(acc.out[j]) <= new.rest.start
        OBVIOUS
      <4>1. new.rest.start = End(e)
        BY <2>1, <2>2
      <4>2. End(acc.out[j]) <= x.start /\ End(acc.out[j]) \in Nat
        BY <2>5
      <4> QED  BY <4>1, <4>2, <2>1, <2>2
    <3>3. \A y : y \in BlocksOf(new.rest) <=> y \in BlocksOf(x) /\ y \notin BlocksOf(e)
      <4>1. ASSUME NEW y \in Nat
            PROVE  End(e) <= y /\ y < End(x) /\ End(e) < End(x) <=>
                    x.start <= y /\ y < End(x) /\ ~(e.start <= y /\ y < End(e))
        BY <2>1, <2>2, <2>7
      <4> QED  BY <4>1, <2>3, <2>4, Zenon
    <3> HIDE DEF x
    <3> QED  BY <3>1, <3>2, <3>3, <2>6, Zenon
  <2>8. CASE e.start > x.start
    <3>1. PICK p \in Solid : new.out = Append(acc.out, p) /\ p.start = x.start /\ End(p) = e.start
      BY <2>1, <2>8
    <3>2. /\ new.out \in Seq(Solid) /\ Follow(new.out)
          /\ \A y : InList(y, new.out) <=> InList(y, acc.out) \/ y \in BlocksOf(p)
          /\ \A j \in 1..Len(new.out) :
                (j \in 1..Len(acc.out) /\ new.out[j] = acc.out[j]) \/ new.out[j] = p
      <4>1. EndBy(acc.out, p.start)
        BY <3>1, <2>5 DEF EndBy
      <4>2. acc.out \in Seq(Solid) /\ Follow(acc.out)
        BY <2>6, <1>4
      <4>3. new.out = Append(acc.out, p)
        BY <3>1
      <4>4. new.out \in Seq(Solid) /\ Follow(new.out)
        BY <4>1, <4>2, <4>3, FollowAppend, Zenon
      <4>5. \A y : InList(y, new.out) <=> InList(y, acc.out) \/ y \in BlocksOf(p)
        BY <4>1, <4>2, <4>3, FollowAppend, Zenon
      <4>6. \A j \in 1..Len(new.out) :
                (j \in 1..Len(acc.out) /\ new.out[j] = acc.out[j]) \/ new.out[j] = p
        BY <4>1, <4>2, <4>3, FollowAppend
      <4> QED  BY <4>4, <4>5, <4>6
    <3>3. new.rest.num # 0 => \A j \in 1..Len(new.out) : End(new.out[j]) <= new.rest.start
      <4> SUFFICES ASSUME new.rest.num # 0, NEW j \in 1..Len(new.out)
                   PROVE  End(new.out[j]) <= new.rest.start
        OBVIOUS
      <4>1. new.rest.start = End(e)
        BY <2>1, <2>2
      <4>2. CASE j \in 1..Len(acc.out) /\ new.out[j] = acc.out[j]
        <5>1. End(acc.out[j]) <= x.start /\ End(acc.out[j]) \in Nat
          BY <4>2, <2>5
        <5> QED  BY <5>1, <4>1, <4>2, <2>1, <2>2
      <4>3. CASE new.out[j] = p
        BY <4>1, <4>3, <3>1, <2>2
      <4> QED  BY <4>2, <4>3, <3>2
    <3>4. \A j \in 1..Len(new.out) : \E k \in 1..(n + 1) : End(new.out[j]) <= s[k].start
      <4> SUFFICES ASSUME NEW j \in 1..Len(new.out)
                   PROVE  \E k \in 1..(n + 1) : End(new.out[j]) <= s[k].start
        OBVIOUS
      <4>1. CASE j \in 1..Len(acc.out) /\ new.out[j] = acc.out[j]
        BY <4>1, <2>6
      <4>2. CASE new.out[j] = p
        <5>1. End(p) <= s[n + 1].start /\ n + 1 \in 1..(n + 1)
          BY <3>1, <2>2 DEF e
        <5> QED  BY <5>1, <4>2
      <4> QED  BY <4>1, <4>2, <3>2
    <3>5. \A y : y \in BlocksOf(p) \/ y \in BlocksOf(new.rest) <=> y \in BlocksOf(x) /\ y \notin BlocksOf(e)
      <4>1. \A y : y \in BlocksOf(p) <=> y \in Nat /\ x.start <= y /\ y < e.start
        BY <3>1, RealFields, Zenon
      <4>2. ASSUME NEW y \in Nat
            PROVE  (x.start <= y /\ y < e.start) \/ (End(e) <= y /\ y < End(x) /\ End(e) < End(x)) <=>
                    x.start <= y /\ y < End(x) /\ ~(e.start <= y /\ y < End(e))
        BY <2>1, <2>2, <2>8
      <4> QED  BY <4>1, <4>2, <2>3, <2>4, Zenon
    <3> HIDE DEF x
    <3>6. \A y : InList(y, new.out) \/ y \in BlocksOf(new.rest) <=>
                    InList(y, acc.out) \/ (y \in BlocksOf(x) /\ y \notin BlocksOf(e))
      BY <3>2, <3>5, Zenon
    <3> QED  BY <3>2, <3>3, <3>4, <3>6, Zenon
  <2> QED  BY <2>2, <2>7, <2>8
<1> QED  BY <1>10, <1>11

(* What the loop has left in the end.                                      *)
LEMMA CutLeaves ==
    ASSUME NEW s \in Seq(Solid), Gaps(s), NEW extent \in Solid
    PROVE  /\ CutExtents(s, extent) \in Cuts
           /\ LeftOver(CutExtents(s, extent), s, Len(s), extent)
<1> DEFINE n == Len(s)
<1>1. PICK f : /\ f \in [0..n -> Cuts]
               /\ f[0] = [out |-> <<>>, rest |-> extent]
               /\ \A i \in 1..n : f[i] = Cut1(f[i - 1], s[i])
               /\ CutExtents(s, extent) = f[n]
  BY CutFollows
<1>2. n \in Nat
  BY LenProperties
<1> HIDE DEF n
<1> DEFINE S == {i \in Nat : i <= n => LeftOver(f[i], s, i, extent)}
<1>3. 0 \in S
  <2>1. f[0].out = <<>> /\ f[0].rest = extent /\ 1..0 = {} /\ Len(<<>>) = 0
    BY <1>1
  <2>2. Follow(<<>>)
    BY <2>1, Zenon DEF Follow
  <2>3. \A y : ~InList(y, <<>>)
    BY <2>1, Zenon DEF InList
  <2>4. LeftOver(f[0], s, 0, extent)
    BY <2>1, <2>2, <2>3, Zenon DEF LeftOver
  <2> QED  BY <2>4
<1>4. ASSUME NEW i \in S PROVE i + 1 \in S
  <2> SUFFICES ASSUME i + 1 <= n PROVE LeftOver(f[i + 1], s, i + 1, extent)
    OBVIOUS
  <2>1. i \in Nat /\ i + 1 \in 1..n /\ i \in 0..n /\ (i + 1) - 1 = i
    BY <1>2
  <2>2. LeftOver(f[i], s, i, extent) /\ f[i] \in Cuts /\ f[i + 1] = Cut1(f[i], s[i + 1])
    BY <2>1, <1>1, <1>2
  <2> QED  BY <2>1, <2>2, CutsOn DEF n
<1>5. S = Nat
  BY <1>3, <1>4, Induction, Zenon
<1>6. n \in 0..n /\ LeftOver(f[n], s, n, extent)
  BY <1>2, <1>5
<1> QED  BY <1>1, <1>6 DEF n

(* part has the mth to the nth extent of s, and no other.                  *)
PartHas(part, s, m, n) ==
    /\ \A i \in m..n : \E k \in 1..Len(part) : part[k] = s[i]
    /\ \A k \in 1..Len(part) : \E i \in m..n : part[k] = s[i]

(* A part of a list of extents with gaps.                                  *)
LEMMA GapsOfPart ==
    ASSUME NEW s \in Seq(Solid), Gaps(s), NEW m \in Nat, m >= 1, NEW n \in Nat, n <= Len(s),
           NEW part, part = SubSeq(s, m, n)
    PROVE  part \in Seq(Solid) /\ Gaps(part) /\ PartHas(part, s, m, n)
<1>1. Len(s) \in Nat /\ \A i \in 1..Len(s) : s[i] \in Solid
  BY LenProperties, ElementOfSeq
<1>2. m \in Int /\ n \in Int /\ \A i \in m..n : i \in 1..Len(s) /\ s[i] \in Solid
  BY <1>1
<1>3. /\ part \in Seq(Solid)
      /\ Len(part) = IF m <= n THEN n - m + 1 ELSE 0
      /\ \A i \in 1..(n - m + 1) : part[i] = s[m + i - 1]
  BY <1>2, SubSeqProperties
<1>4. \A k \in 1..Len(part) : k \in 1..(n - m + 1) /\ m + k - 1 \in m..n
  BY <1>3
<1>5. \A i \in m..n : i - m + 1 \in 1..Len(part) /\ m + (i - m + 1) - 1 = i /\ i - m + 1 \in 1..(n - m + 1)
  BY <1>3
<1>6. Gaps(part)
  <2> SUFFICES ASSUME NEW i \in 1..Len(part), NEW j \in 1..Len(part), i < j
               PROVE  End(part[i]) < part[j].start
    BY DEF Gaps
  <2>1. part[i] = s[m + i - 1] /\ part[j] = s[m + j - 1]
    BY <1>3, <1>4
  <2>2. m + i - 1 \in 1..Len(s) /\ m + j - 1 \in 1..Len(s) /\ m + i - 1 < m + j - 1
    BY <1>2, <1>3, <1>4
  <2> QED  BY <2>1, <2>2, Zenon DEF Gaps
<1>7. \A i \in m..n : \E k \in 1..Len(part) : part[k] = s[i]
  <2> TAKE i \in m..n
  <2>1. part[i - m + 1] = s[i]
    BY <1>3, <1>5
  <2> QED  BY <2>1, <1>5
<1>8. \A k \in 1..Len(part) : \E i \in m..n : part[k] = s[i]
  <2> TAKE k \in 1..Len(part)
  <2>1. part[k] = s[m + k - 1]
    BY <1>3, <1>4
  <2> QED  BY <2>1, <1>4
<1> QED  BY <1>3, <1>6, <1>7, <1>8, Zenon DEF PartHas

(* FilterExtentRanges is right, for one extent.                            *)
LEMMA FilterIsExact ==
    ASSUME NEW r, NEW blocks, RangesInv(r, blocks), NEW x \in Solid
    PROVE  /\ FilterExtent(x, r) \in Seq(Solid)
           /\ Blocks(FilterExtent(x, r)) = Ascending(BlocksOf(x) \ blocks)
<1> DEFINE s == InOrder(r.set)
           low == Before(s, x.start)
           high == LowerBound(s, End(x))
           near == SubSeq(s, low, high - 1)
           cut == CutExtents(near, x)
           out == FilterExtent(x, r)
<1>1. Disjoint(r.set) /\ blocks = BlocksIn(r.set)
  BY DEF RangesInv
<1>2. /\ s \in Seq(Solid) /\ Gaps(s) /\ {s[j] : j \in 1..Len(s)} = r.set
      /\ \A i, j \in 1..Len(s) : i < j => s[i].start < s[j].start
  BY <1>1, DisjointInOrder
<1>3. out = IF cut.rest.num > 0 THEN Append(cut.out, cut.rest) ELSE cut.out
  BY Zenon DEF FilterExtent
<1> HIDE DEF s, out
<1>4. Len(s) \in Nat /\ \A i \in 1..Len(s) : s[i] \in Solid
  BY <1>2, LenProperties, ElementOfSeq
<1>5. x.start \in Int /\ End(x) \in Int /\ x.start \in Nat /\ End(x) \in Nat
  BY RealFields
<1>6. high \in 1..(Len(s) + 1) /\ \A i \in 1..Len(s) : i < high <=> s[i].start < End(x)
  BY <1>2, <1>5, LowerBoundSeparates, Zenon
<1>7. low \in Nat /\ low >= 1 /\ \A i \in 1..Len(s) : i < low => End(s[i]) < x.start
  BY <1>2, <1>5, BeforeIsClear, Zenon
<1> HIDE DEF low, high
<1>8. high - 1 \in Nat /\ high - 1 <= Len(s)
  BY <1>4, <1>6
<1>9. /\ near \in Seq(Solid) /\ Gaps(near)
      /\ \A i \in low..(high - 1) : \E k \in 1..Len(near) : near[k] = s[i]
      /\ \A k \in 1..Len(near) : \E i \in low..(high - 1) : near[k] = s[i]
  <2> DEFINE last == high - 1
  <2> HIDE DEF near
  <2>1. near = SubSeq(s, low, last) /\ last \in Nat /\ last <= Len(s)
    BY <1>8 DEF near
  <2> HIDE DEF last
  <2>2. near \in Seq(Solid) /\ Gaps(near)
    BY <2>1, <1>2, <1>7, GapsOfPart, Zenon
  <2>3. PartHas(near, s, low, last)
    BY <2>1, <1>2, <1>7, GapsOfPart, Zenon
  <2> QED  BY <2>2, <2>3 DEF last, PartHas
<1> HIDE DEF near
<1>10. cut \in Cuts /\ LeftOver(cut, near, Len(near), x)
  BY <1>9, CutLeaves
<1> HIDE DEF cut
<1>11. /\ cut.out \in Seq(Solid) /\ cut.rest \in Places /\ Follow(cut.out)
       /\ cut.rest.num # 0 => EndBy(cut.out, cut.rest.start)
       /\ \A y : InList(y, cut.out) \/ y \in BlocksOf(cut.rest) <=>
                    y \in BlocksOf(x) /\ \A k \in 1..Len(near) : y \notin BlocksOf(near[k])
  BY <1>10 DEF LeftOver, Cuts, EndBy
<1>12. \A y \in BlocksOf(x) : (\A k \in 1..Len(near) : y \notin BlocksOf(near[k])) <=> y \notin blocks
  <2> SUFFICES ASSUME NEW y \in BlocksOf(x)
               PROVE  (\E k \in 1..Len(near) : y \in BlocksOf(near[k])) <=> y \in blocks
    OBVIOUS
  <2>1. y \in Nat /\ x.start <= y /\ y < End(x)
    BY RealFields
  <2>2. ASSUME NEW k \in 1..Len(near), y \in BlocksOf(near[k]) PROVE y \in blocks
    <3>1. PICK i \in low..(high - 1) : near[k] = s[i]
      BY <1>9
    <3>2. i \in 1..Len(s)
      BY <1>7, <1>8
    <3>3. near[k] \in r.set
      BY <3>1, <3>2, <1>2
    <3> QED  BY <2>2, <3>3, <1>1 DEF BlocksIn
  <2>3. ASSUME y \in blocks PROVE \E k \in 1..Len(near) : y \in BlocksOf(near[k])
    <3>1. PICK e \in r.set : y \in BlocksOf(e)
      BY <2>3, <1>1 DEF BlocksIn
    <3>2. PICK i \in 1..Len(s) : s[i] = e
      BY <1>2
    <3>3. s[i].start <= y /\ y < End(s[i]) /\ s[i].start \in Nat /\ End(s[i]) \in Nat
      BY <3>1, <3>2, <1>4, RealFields
    <3>4. i < high /\ ~(i < low)
      BY <3>3, <2>1, <1>5, <1>6, <1>7
    <3>5. i \in low..(high - 1)
      BY <3>4, <1>4, <1>6, <1>7
    <3>6. PICK k \in 1..Len(near) : near[k] = s[i]
      BY <3>5, <1>9
    <3> QED  BY <3>1, <3>2, <3>6
  <2> QED  BY <2>2, <2>3
<1>13. \A y : InList(y, cut.out) \/ y \in BlocksOf(cut.rest) <=> y \in BlocksOf(x) \ blocks
  BY <1>11, <1>12
<1>14. /\ out \in Seq(Solid) /\ Follow(out)
       /\ \A y : InList(y, out) <=> InList(y, cut.out) \/ y \in BlocksOf(cut.rest)
  <2>1. CASE cut.rest.num > 0
    <3>1. cut.rest \in Solid /\ cut.rest.num # 0
      BY <2>1, <1>11 DEF Places, Solid
    <3>2. out = Append(cut.out, cut.rest) /\ EndBy(cut.out, cut.rest.start)
      BY <2>1, <3>1, <1>3, <1>11
    <3> DEFINE p == cut.rest
               some == cut.out
    <3> HIDE DEF p, some
    <3>5. /\ p \in Solid /\ some \in Seq(Solid) /\ Follow(some)
          /\ out = Append(some, p) /\ EndBy(some, p.start)
      BY <3>1, <3>2, <1>11, Zenon DEF p, some
    <3>3. out \in Seq(Solid) /\ Follow(out)
      BY <3>5, FollowAppend, Zenon
    <3>4. \A y : InList(y, out) <=> InList(y, cut.out) \/ y \in BlocksOf(cut.rest)
      <4>1. \A y : InList(y, out) <=> InList(y, some) \/ y \in BlocksOf(p)
        BY <3>5, FollowAppend, Zenon
      <4> QED  BY <4>1 DEF p, some
    <3> QED  BY <3>3, <3>4
  <2>2. CASE ~(cut.rest.num > 0)
    <3>1. cut.rest \in Extents /\ cut.rest.num = 0
      BY <2>2, <1>11 DEF Places, Extents
    <3>2. \A y : y \in BlocksOf(cut.rest) <=> y \in Int /\ cut.rest.start <= y /\ y < End(cut.rest)
      BY <3>1, InBlocks, Zenon
    <3>3. End(cut.rest) = cut.rest.start /\ cut.rest.start \in Int
      BY <3>1 DEF End, Extents
    <3>4. \A y : y \notin BlocksOf(cut.rest)
      BY <3>2, <3>3
    <3> QED  BY <2>2, <3>4, <1>3, <1>11
  <2> QED  BY <2>1, <2>2
<1>15. out \in Seq(Extents)
  <2>1. Solid \subseteq Extents
    BY RealFields
  <2>2. \A i \in 1..Len(out) : out[i] \in Extents
    BY <2>1, <1>14, ElementOfSeq
  <2> QED  BY <2>2, <1>14, IsASeq, LenProperties
<1> DEFINE U == UNION {BlocksOf(out[i]) : i \in 1..Len(out)}
<1>16. U = BlocksOf(x) \ blocks
  <2>1. \A y : y \in U <=> InList(y, out)
    BY DEF InList
  <2> QED  BY <2>1, <1>13, <1>14
<1>17. Blocks(out) = Ascending(U)
  <2>1. \A i, j \in 1..Len(out) : i < j => End(out[i]) <= out[j].start
    BY <1>14, Zenon DEF Follow
  <2> QED  BY <2>1, <1>15, BlocksAscend
<1> QED  BY <1>14, <1>16, <1>17, Zenon DEF out

(* A list of one extent is filtered as the extent is.                      *)
LEMMA FilterOne ==
    ASSUME NEW x, NEW r, FilterExtent(x, r) \in Seq(Solid)
    PROVE  FilterExtentRanges(<<x>>, r) = FilterExtent(x, r)
<1> DEFINE out == FilterExtent(x, r)
           Body(g) == [i \in 0..Len(<<x>>) |->
                        IF i = 0 THEN <<>> ELSE g[i - 1] \o FilterExtent(<<x>>[i], r)]
           b == CHOOSE g : g = Body(g)
           f == [i \in 0..1 |-> IF i = 0 THEN <<>> ELSE out]
<1>1. Len(<<x>>) = 1 /\ <<x>>[1] = x
  OBVIOUS
<1>2. FilterExtentRanges(<<x>>, r) = b[1]
  <2>1. FilterExtentRanges(<<x>>, r) = b[Len(<<x>>)]
    BY Zenon DEF FilterExtentRanges
  <2> QED  BY <2>1, <1>1
<1>3. <<>> \o out = out
  BY ConcatEmptySeq
<1> HIDE DEF out
<1>4. \A g : g[0] = <<>> => Body(g) = [i \in 0..1 |-> IF i = 0 THEN <<>> ELSE out]
  <2> SUFFICES ASSUME NEW g, g[0] = <<>> PROVE Body(g) = f
    OBVIOUS
  <2>1. \A i \in 0..1 : i = 0 \/ (i = 1 /\ i - 1 = 0)
    OBVIOUS
  <2>2. \A i \in 0..1 : (IF i = 0 THEN <<>> ELSE g[i - 1] \o FilterExtent(<<x>>[i], r)) =
                            (IF i = 0 THEN <<>> ELSE out)
    BY <2>1, <1>1, <1>3, Zenon DEF out
  <2> QED  BY <2>2, <1>1
<1>5. f = Body(f)
  <2>1. f[0] = <<>>
    OBVIOUS
  <2> HIDE DEF Body
  <2> QED  BY <1>4, <2>1
<1>6. b = Body(b)
  <2> HIDE DEF Body
  <2> QED  BY <1>5
<1>7. b[0] = <<>>
  <2>1. b[0] = Body(b)[0]
    BY <1>6, Zenon
  <2> HIDE DEF b
  <2> QED  BY <2>1, <1>1
<1>8. b[1] = out
  <2>1. b = f
    BY <1>4, <1>6, <1>7, Zenon
  <2> HIDE DEF b
  <2> QED  BY <2>1
<1> QED  BY <1>2, <1>8 DEF out

-----------------------------------------------------------------------------
(* An extent cut in two.                                                   *)
LEMMA RunSplits ==
    ASSUME NEW e \in Extents, NEW k \in Nat, k <= e.num,
           NEW p, p = [start |-> e.start, num |-> k],
           NEW q, q = [start |-> e.start + k, num |-> e.num - k]
    PROVE  p \in Extents /\ q \in Extents /\ Run(p) \o Run(q) = Run(e)
<1>1. e.start \in Int /\ e.num \in Nat
  BY DEF Extents
<1> DEFINE a == e.start
           n == e.num
<1>2. a \in Int /\ n \in Nat /\ k \in 0..n /\ n - k \in Nat /\ a + k \in Int
  BY <1>1
<1> HIDE DEF a, n
<1>3. p \in Extents /\ q \in Extents /\ p.start = a /\ p.num = k /\ q.start = a + k /\ q.num = n - k
  BY <1>2 DEF Extents, a, n
<1>4. /\ Run(p) \in Seq(Int) /\ Len(Run(p)) = k /\ \A i \in 1..k : Run(p)[i] = a + i - 1
  BY <1>3, RunIsSeq
<1>5. /\ Run(q) \in Seq(Int) /\ Len(Run(q)) = n - k
      /\ \A i \in 1..(n - k) : Run(q)[i] = a + k + i - 1
  BY <1>3, RunIsSeq
<1>6. /\ Run(e) \in Seq(Int) /\ Len(Run(e)) = n /\ \A i \in 1..n : Run(e)[i] = a + i - 1
  BY RunIsSeq DEF a, n
<1> DEFINE x == Run(p)
           y == Run(q)
           z == Run(e)
           w == x \o y
<1> HIDE DEF x, y, z
<1>11. x \in Seq(Int) /\ y \in Seq(Int) /\ Len(x) = k /\ Len(y) = n - k
  BY <1>4, <1>5 DEF x, y
<1>7. /\ w \in Seq(Int) /\ Len(w) = Len(x) + Len(y)
      /\ \A i \in 1..(Len(x) + Len(y)) : w[i] = IF i <= Len(x) THEN x[i] ELSE y[i - Len(x)]
  BY <1>11, ConcatProperties, Zenon
<1> HIDE DEF w
<1>12. Len(x) + Len(y) = n
  BY <1>2, <1>11
<1>8. Len(w) = n /\ \A i \in 1..n : w[i] = IF i <= k THEN x[i] ELSE y[i - k]
  BY <1>7, <1>11, <1>12, Zenon
<1>9. ASSUME NEW i \in 1..n PROVE w[i] = z[i]
  <2>1. CASE i <= k
    <3>1. i \in 1..k
      BY <2>1, <1>2
    <3> QED  BY <2>1, <3>1, <1>4, <1>6, <1>8, Zenon DEF x, z
  <2>2. CASE ~(i <= k)
    <3>1. i - k \in 1..(n - k) /\ a + k + (i - k) - 1 = a + i - 1
      BY <2>2, <1>2
    <3>2. w[i] = y[i - k]
      BY <2>2, <1>8
    <3>3. y[i - k] = a + k + (i - k) - 1
      BY <3>1, <1>5 DEF y
    <3> QED  BY <3>1, <3>2, <3>3, <1>6 DEF z
  <2> QED  BY <2>1, <2>2
<1>10. w = z
  <2>1. z \in Seq(Int) /\ Len(w) = Len(z) /\ \A i \in 1..Len(w) : w[i] = z[i]
    BY <1>6, <1>8, <1>9 DEF z
  <2> QED  BY <2>1, <1>7, SeqEqual, Zenon
<1> QED  BY <1>3, <1>10, Zenon DEF w, x, y, z

(* The two parts name the blocks of the extent.                            *)
LEMMA RunIsSplit ==
    \A e \in Extents, k \in Nat : k <= e.num =>
        Run([start |-> e.start, num |-> k]) \o Run([start |-> e.start + k, num |-> e.num - k]) = Run(e)
<1> SUFFICES ASSUME NEW e \in Extents, NEW k \in Nat, k <= e.num
             PROVE  Run([start |-> e.start, num |-> k]) \o
                        Run([start |-> e.start + k, num |-> e.num - k]) = Run(e)
  BY Zenon
<1> QED  BY RunSplits

(* Lists of blocks are joined in any order.                                *)
LEMMA JoinedInAnyOrder ==
    \A x, y, z \in Seq(Int) : (x \o y) \o z = x \o (y \o z)
BY ConcatAssociative

(* A part of a sequence.                                                   *)
LEMMA PartOf ==
    ASSUME NEW S, NEW w \in Seq(S), NEW m \in Nat, m >= 1, NEW n \in Nat, m <= n + 1, n <= Len(w),
           NEW u, u = SubSeq(w, m, n)
    PROVE  u \in Seq(S) /\ Len(u) = n - m + 1 /\ \A i \in 1..(n - m + 1) : u[i] = w[m + i - 1]
<1>1. m \in Int /\ n \in Int /\ \A i \in m..n : i \in 1..Len(w)
  BY LenProperties
<1>2. \A i \in m..n : w[i] \in S
  BY <1>1, ElementOfSeq
<1>3. /\ u \in Seq(S) /\ Len(u) = IF m <= n THEN n - m + 1 ELSE 0
      /\ \A i \in 1..(n - m + 1) : u[i] = w[m + i - 1]
  BY <1>1, <1>2, SubSeqProperties
<1> QED  BY <1>3

(* The two parts of a sequence.                                            *)
LEMMA PartsOfConcat ==
    ASSUME NEW q \in Seq(Int), NEW t \in Seq(Int), NEW w, w = q \o t
    PROVE  /\ w \in Seq(Int) /\ Len(w) = Len(q) + Len(t)
           /\ SubSeq(w, 1, Len(q)) = q
           /\ SubSeq(w, Len(q) + 1, Len(w)) = t
<1> DEFINE m == Len(q)
           n == Len(t)
<1>1. m \in Nat /\ n \in Nat
  BY LenProperties
<1>2. /\ w \in Seq(Int) /\ Len(w) = m + n
      /\ \A i \in 1..(m + n) : w[i] = IF i <= m THEN q[i] ELSE t[i - m]
  BY ConcatProperties, Zenon
<1> HIDE DEF m, n
<1>4. SubSeq(w, 1, m) = q
  <2> DEFINE u == SubSeq(w, 1, m)
  <2>1. 1 \in Nat /\ 1 >= 1 /\ 1 <= m + 1 /\ m <= Len(w) /\ \A i \in 1..m : i \in 1..(m + n) /\ i <= m
    BY <1>1, <1>2
  <2>6. u = SubSeq(w, 1, m)
    OBVIOUS
  <2> HIDE DEF u
  <2>2. u \in Seq(Int) /\ Len(u) = m - 1 + 1 /\ \A i \in 1..(m - 1 + 1) : u[i] = w[1 + i - 1]
    <3>1. u \in Seq(Int) /\ Len(u) = m - 1 + 1
      BY <2>1, <2>6, <1>1, <1>2, PartOf
    <3>2. \A i \in 1..(m - 1 + 1) : u[i] = w[1 + i - 1]
      BY <2>1, <2>6, <1>1, <1>2, PartOf
    <3> QED  BY <3>1, <3>2, Zenon
  <2>7. m - 1 + 1 = m /\ \A i \in 1..m : 1 + i - 1 = i
    BY <1>1
  <2>3. Len(u) = m /\ \A i \in 1..m : u[i] = w[i]
    BY <2>2, <2>7, Zenon
  <2>4. \A i \in 1..m : u[i] = q[i]
    BY <2>1, <2>3, <1>2, Zenon
  <2>5. u = q
    BY <2>2, <2>3, <2>4, SeqEqual DEF m
  <2> QED  BY <2>5, Zenon DEF u
<1>5. SubSeq(w, m + 1, m + n) = t
  <2> DEFINE u == SubSeq(w, m + 1, m + n)
  <2>1. m + 1 \in Nat /\ m + 1 >= 1 /\ m + n \in Nat /\ m + 1 <= m + n + 1 /\ m + n <= Len(w)
    BY <1>1, <1>2
  <2>7. u = SubSeq(w, m + 1, m + n)
    OBVIOUS
  <2> HIDE DEF u
  <2>3. u \in Seq(Int) /\ Len(u) = n /\ \A i \in 1..n : u[i] = w[m + i]
    <3> DEFINE low == m + 1
               high == m + n
    <3>1. /\ low \in Nat /\ low >= 1 /\ high \in Nat /\ low <= high + 1 /\ high <= Len(w)
          /\ u = SubSeq(w, low, high)
      BY <2>1, <2>7
    <3> HIDE DEF low, high
    <3>2. u \in Seq(Int) /\ Len(u) = high - low + 1
      BY <3>1, <1>2, PartOf
    <3>3. \A i \in 1..(high - low + 1) : u[i] = w[low + i - 1]
      BY <3>1, <1>2, PartOf
    <3>4. high - low + 1 = n /\ \A i \in 1..n : low + i - 1 = m + i
      BY <1>1 DEF low, high
    <3> QED  BY <3>2, <3>3, <3>4, Zenon
  <2>4. \A i \in 1..n : m + i \in 1..(m + n) /\ ~(m + i <= m) /\ (m + i) - m = i
    BY <1>1
  <2>5. \A i \in 1..n : u[i] = t[i]
    BY <2>3, <2>4, <1>2, Zenon
  <2>6. u = t
    BY <2>3, <2>5, SeqEqual DEF n
  <2> QED  BY <2>6, Zenon DEF u
<1> QED  BY <1>2, <1>4, <1>5 DEF m, n

(* The elements of a list after the first a, up to the bth.                *)
Slice(w, a, b) == SubSeq(w, a + 1, b)

(* What they are.                                                          *)
LEMMA SliceIs ==
    \A w \in Seq(Int), a \in Nat, b \in Nat : a <= b /\ b <= Len(w) =>
        /\ Slice(w, a, b) \in Seq(Int) /\ Len(Slice(w, a, b)) = b - a
        /\ \A i \in 1..(b - a) : Slice(w, a, b)[i] = w[a + i]
<1> SUFFICES ASSUME NEW w \in Seq(Int), NEW a \in Nat, NEW b \in Nat, a <= b, b <= Len(w)
             PROVE  /\ Slice(w, a, b) \in Seq(Int) /\ Len(Slice(w, a, b)) = b - a
                    /\ \A i \in 1..(b - a) : Slice(w, a, b)[i] = w[a + i]
  BY Zenon
<1> DEFINE low == a + 1
           u == Slice(w, a, b)
<1>1. low \in Nat /\ low >= 1 /\ low <= b + 1
  OBVIOUS
<1>2. u = SubSeq(w, low, b)
  BY DEF Slice
<1>3. b - low + 1 = b - a /\ \A i \in 1..(b - a) : low + i - 1 = a + i
  OBVIOUS
<1> HIDE DEF low, u
<1>4. u \in Seq(Int) /\ Len(u) = b - low + 1
  BY <1>1, <1>2, PartOf
<1>5. \A i \in 1..(b - low + 1) : u[i] = w[low + i - 1]
  BY <1>1, <1>2, PartOf
<1> QED  BY <1>3, <1>4, <1>5, Zenon DEF u

(* A part of a part.                                                       *)
LEMMA SliceOfSlice ==
    ASSUME NEW w \in Seq(Int), NEW m \in Nat, NEW n \in Nat, m <= n, n <= Len(w),
           NEW a \in Nat, NEW b \in Nat, a <= b, m + b <= n
    PROVE  Slice(Slice(w, m, n), a, b) = Slice(w, m + a, m + b)
<1> DEFINE u == Slice(w, m, n)
           v == Slice(u, a, b)
           c == m + a
           d == m + b
           x == Slice(w, c, d)
<1>1. u \in Seq(Int) /\ Len(u) = n - m /\ \A i \in 1..(n - m) : u[i] = w[m + i]
  BY SliceIs, Zenon
<1>2. /\ c \in Nat /\ d \in Nat /\ c <= d /\ d <= Len(w) /\ b <= n - m /\ d - c = b - a
      /\ \A i \in 1..(b - a) : a + i \in 1..(n - m) /\ m + (a + i) = c + i
  BY LenProperties
<1> HIDE DEF u, c, d
<1>3. v \in Seq(Int) /\ Len(v) = b - a /\ \A i \in 1..(b - a) : v[i] = u[a + i]
  <2>1. b <= Len(u)
    BY <1>1, <1>2
  <2> QED  BY <2>1, <1>1, SliceIs, Zenon
<1>4. x \in Seq(Int) /\ Len(x) = d - c /\ \A i \in 1..(d - c) : x[i] = w[c + i]
  BY <1>2, SliceIs, Zenon
<1> HIDE DEF v, x
<1>5. Len(v) = Len(x) /\ \A i \in 1..Len(v) : v[i] = x[i]
  <2>1. Len(v) = Len(x) /\ Len(v) = b - a
    BY <1>2, <1>3, <1>4
  <2>2. ASSUME NEW i \in 1..(b - a) PROVE v[i] = x[i]
    <3>1. v[i] = u[a + i]
      BY <1>3
    <3>2. u[a + i] = w[c + i]
      <4>1. a + i \in 1..(n - m) /\ m + (a + i) = c + i
        BY <1>2, Zenon
      <4>2. u[a + i] = w[m + (a + i)]
        BY <4>1, <1>1, Zenon
      <4> QED  BY <4>1, <4>2, Zenon
    <3>3. x[i] = w[c + i]
      BY <1>2, <1>4, Zenon
    <3> QED  BY <3>1, <3>2, <3>3
  <2> QED  BY <2>1, <2>2
<1>6. v = x
  BY <1>3, <1>4, <1>5, SeqEqual, Zenon
<1> QED  BY <1>6 DEF u, v, x, c, d

(* The beginnings of a list have ever more blocks.                         *)
LEMMA ListingGrows ==
    ASSUME NEW s \in Seq(Extents), NEW b, Listing(b, s)
    PROVE  /\ \A i \in 0..Len(s) : b[i] \in Seq(Int) /\ Len(b[i]) \in Nat
           /\ \A i \in 1..Len(s) : s[i].num \in Nat /\ Len(b[i]) = Len(b[i - 1]) + s[i].num
           /\ \A i \in 0..Len(s) : Len(b[i]) <= Len(b[Len(s)])
<1> DEFINE n == Len(s)
<1>1. n \in Nat /\ \A i \in 1..n : s[i] \in Extents
  BY LenProperties, ElementOfSeq
<1>2. /\ b \in [0..n -> Seq(Int)] /\ \A i \in 1..n : b[i] = b[i - 1] \o Run(s[i])
  BY Zenon DEF Listing
<1> HIDE DEF n
<1>3. \A i \in 0..n : b[i] \in Seq(Int) /\ Len(b[i]) \in Nat
  BY <1>2, LenProperties
<1>4. ASSUME NEW i \in 1..n PROVE s[i].num \in Nat /\ Len(b[i]) = Len(b[i - 1]) + s[i].num
  <2> DEFINE run == Run(s[i])
             q == b[i - 1]
  <2>1. run \in Seq(Int) /\ Len(run) = s[i].num /\ s[i].num \in Nat
    BY <1>1, RunIsSeq DEF Extents
  <2>2. i - 1 \in 0..n
    BY <1>1
  <2>3. q \in Seq(Int) /\ b[i] = q \o run
    BY <2>2, <1>2, Zenon
  <2> HIDE DEF run, q
  <2>4. Len(q \o run) = Len(q) + Len(run)
    BY <2>1, <2>3, ConcatProperties, Zenon
  <2> QED  BY <2>1, <2>3, <2>4 DEF q
<1> DEFINE S == {k \in Nat : k <= n => Len(b[n - k]) <= Len(b[n])}
<1>5. 0 \in S
  <2>1. n - 0 = n /\ n \in 0..n
    BY <1>1
  <2>2. Len(b[n]) <= Len(b[n])
    BY <2>1, <1>3
  <2> QED  BY <2>1, <2>2
<1>6. ASSUME NEW k \in S PROVE k + 1 \in S
  <2> SUFFICES ASSUME k + 1 <= n PROVE Len(b[n - (k + 1)]) <= Len(b[n])
    OBVIOUS
  <2> DEFINE i == n - k
  <2>1. i \in 1..n /\ i \in 0..n /\ n \in 0..n /\ i - 1 \in 0..n /\ n - (k + 1) = i - 1
    BY <1>1
  <2>2. Len(b[i]) <= Len(b[n])
    BY <1>1
  <2> HIDE DEF i
  <2>3. Len(b[i]) = Len(b[i - 1]) + s[i].num /\ s[i].num \in Nat
    BY <2>1, <1>4
  <2>4. Len(b[i]) \in Nat /\ Len(b[i - 1]) \in Nat /\ Len(b[n]) \in Nat
    BY <2>1, <1>3
  <2>5. Len(b[i - 1]) <= Len(b[n])
    BY <2>2, <2>3, <2>4
  <2> QED  BY <2>1, <2>5
<1>7. S = Nat
  BY <1>5, <1>6, Induction, Zenon
<1>8. ASSUME NEW i \in 0..n PROVE Len(b[i]) <= Len(b[n])
  <2>1. n - i \in Nat /\ n - i <= n /\ n - (n - i) = i
    BY <1>1
  <2>2. n - i \in S
    BY <2>1, <1>7
  <2>3. Len(b[n - (n - i)]) <= Len(b[n])
    BY <2>1, <2>2
  <2> QED  BY <2>1, <2>3
<1> QED  BY <1>3, <1>4, <1>8 DEF n

-----------------------------------------------------------------------------
(* One step of the loop that takes source extents.                         *)
Take1(acc, src) ==
    IF acc.left = 0 THEN [acc EXCEPT !.rest = Append(@, src)]
    ELSE IF src.num <= acc.left
    THEN [acc EXCEPT !.taken = Append(@, src), !.left = @ - src.num]
    ELSE [taken |-> Append(acc.taken, ExtentForRange(src.start, acc.left)),
          left |-> 0,
          rest |-> <<ExtentForRange(src.start + acc.left, src.num - acc.left)>>]

Takes == [taken : Seq(Extents), left : Nat, rest : Seq(Extents)]

(* What is taken and what is left make up the blocks that were seen.       *)
Shared(acc, seen, wanted) ==
    /\ Blocks(acc.taken) \o Blocks(acc.rest) = seen
    /\ Len(Blocks(acc.taken)) + acc.left = wanted
    /\ acc.left # 0 => acc.rest = <<>>

(* The three cases of a step.                                              *)
LEMMA TakeCases ==
    ASSUME NEW acc \in Takes, NEW src \in Extents, NEW new, new = Take1(acc, src)
    PROVE  /\ new \in Takes
           /\ acc.left = 0 => /\ new.taken = acc.taken /\ new.left = 0
                              /\ new.rest = Append(acc.rest, src)
           /\ acc.left # 0 /\ src.num <= acc.left =>
                /\ new.taken = Append(acc.taken, src) /\ new.left = acc.left - src.num
                /\ new.rest = acc.rest
           /\ acc.left # 0 /\ ~(src.num <= acc.left) =>
                /\ new.taken = Append(acc.taken, [start |-> src.start, num |-> acc.left])
                /\ new.left = 0
                /\ new.rest = <<[start |-> src.start + acc.left, num |-> src.num - acc.left]>>
<1>1. /\ acc.taken \in Seq(Extents) /\ acc.left \in Nat /\ acc.rest \in Seq(Extents)
      /\ acc = [taken |-> acc.taken, left |-> acc.left, rest |-> acc.rest]
  BY DEF Takes
<1>2. src.num \in Nat /\ src.start \in Int
  BY DEF Extents
<1> DEFINE taken == acc.taken
           left == acc.left
           rest == acc.rest
<1>3. taken \in Seq(Extents) /\ left \in Nat /\ rest \in Seq(Extents)
  BY <1>1
<1> HIDE DEF taken, left, rest
<1>4. CASE left = 0
  <2>1. new = [taken |-> taken, left |-> left, rest |-> Append(rest, src)]
    BY <1>1, <1>4, Zenon DEF Take1, taken, left, rest
  <2>2. Append(rest, src) \in Seq(Extents)
    BY <1>3, AppendProperties
  <2>3. /\ new \in Takes /\ new.taken = taken /\ new.left = 0 /\ new.rest = Append(rest, src)
    BY <2>1, <2>2, <1>3, <1>4 DEF Takes
  <2> QED  BY <2>3, <1>4 DEF taken, left, rest
<1>5. CASE left # 0 /\ src.num <= left
  <2>1. new = [taken |-> Append(taken, src), left |-> left - src.num, rest |-> rest]
    BY <1>1, <1>5, Zenon DEF Take1, taken, left, rest
  <2>2. Append(taken, src) \in Seq(Extents) /\ left - src.num \in Nat
    BY <1>2, <1>3, <1>5, AppendProperties
  <2>3. /\ new \in Takes /\ new.taken = Append(taken, src) /\ new.left = left - src.num
        /\ new.rest = rest
    BY <2>1, <2>2, <1>3 DEF Takes
  <2> QED  BY <2>3, <1>5 DEF taken, left, rest
<1>6. CASE left # 0 /\ ~(src.num <= left)
  <2> DEFINE p == [start |-> src.start, num |-> left]
             q == [start |-> src.start + left, num |-> src.num - left]
  <2>1. new = [taken |-> Append(taken, p), left |-> 0, rest |-> <<q>>]
    BY <1>6, Zenon DEF Take1, ExtentForRange, taken, left, rest
  <2>2. p \in Extents /\ q \in Extents
    BY <1>2, <1>3, <1>6 DEF Extents
  <2> HIDE DEF p, q
  <2>3. Append(taken, p) \in Seq(Extents) /\ <<q>> \in Seq(Extents)
    BY <1>3, <2>2, AppendProperties
  <2>4. new \in Takes /\ new.taken = Append(taken, p) /\ new.left = 0 /\ new.rest = <<q>>
    BY <2>1, <2>3 DEF Takes
  <2> QED  BY <2>4, <1>6 DEF taken, left, rest, p, q
<1> QED  BY <1>4, <1>5, <1>6

(* One more step shares out one more extent.                               *)
LEMMA TakesOn ==
    ASSUME NEW acc \in Takes, NEW src \in Extents, NEW seen, NEW wanted \in Nat,
           Shared(acc, seen, wanted), NEW new, new = Take1(acc, src)
    PROVE  Shared(new, seen \o Run(src), wanted)
<1> DEFINE B == Blocks(acc.taken)
           R == Blocks(acc.rest)
           left == acc.left
           run == Run(src)
<1>1. acc.taken \in Seq(Extents) /\ left \in Nat /\ acc.rest \in Seq(Extents)
  BY DEF Takes
<1>2. B \in Seq(Int) /\ R \in Seq(Int) /\ run \in Seq(Int) /\ Len(run) = src.num /\ src.num \in Nat
  BY <1>1, BlocksAppend, RunIsSeq DEF Extents
<1>3. B \o R = seen /\ Len(B) + left = wanted /\ (left # 0 => acc.rest = <<>>)
  BY DEF Shared
<1>4. left # 0 => R = <<>> /\ seen = B
  <2> HAVE left # 0
  <2>1. R = <<>>
    BY <1>3, BlocksOfNothing
  <2> HIDE DEF B, R
  <2>2. B \o <<>> = B
    BY <1>2, ConcatEmptySeq
  <2> QED  BY <2>1, <2>2, <1>3
<1>5. Len(B) \in Nat
  BY <1>2, LenProperties
<1>6. CASE left = 0
  <2>1. new.taken = acc.taken /\ new.left = 0 /\ new.rest = Append(acc.rest, src)
    BY <1>6, TakeCases, Zenon
  <2>2. Blocks(new.rest) = R \o run
    BY <2>1, <1>1, BlocksAppend, Zenon
  <2>3. Blocks(new.taken) = B
    BY <2>1
  <2> HIDE DEF B, R, run, left
  <2>4. B \o (R \o run) = seen \o run
    <3>1. (B \o R) \o run = B \o (R \o run)
      BY <1>2, ConcatAssociative
    <3> QED  BY <3>1, <1>3
  <2>5. Len(B) + 0 = wanted
    BY <1>3, <1>5, <1>6
  <2> QED  BY <2>1, <2>2, <2>3, <2>4, <2>5 DEF Shared, run
<1>7. CASE left # 0 /\ src.num <= left
  <2>1. /\ new.taken = Append(acc.taken, src) /\ new.left = left - src.num
        /\ new.rest = acc.rest
    BY <1>7, TakeCases, Zenon
  <2>2. Blocks(new.taken) = B \o run
    BY <2>1, <1>1, BlocksAppend, Zenon
  <2>3. Blocks(new.rest) = <<>> /\ new.rest = <<>>
    BY <2>1, <1>3, <1>7, BlocksOfNothing
  <2> HIDE DEF B, R, run, left
  <2>4. B \o run \in Seq(Int) /\ Len(B \o run) = Len(B) + Len(run)
    BY <1>2, ConcatProperties
  <2>5. (B \o run) \o <<>> = B \o run
    BY <2>4, ConcatEmptySeq
  <2>6. Len(B \o run) + (left - src.num) = wanted
    BY <2>4, <1>1, <1>2, <1>3, <1>5
  <2>7. seen = B
    BY <1>4, <1>7
  <2> QED  BY <2>1, <2>2, <2>3, <2>5, <2>6, <2>7 DEF Shared, run
<1>8. CASE left # 0 /\ ~(src.num <= left)
  <2> DEFINE p == [start |-> src.start, num |-> left]
             q == [start |-> src.start + left, num |-> src.num - left]
  <2>1. new.taken = Append(acc.taken, p) /\ new.left = 0 /\ new.rest = <<q>>
    BY <1>8, TakeCases
  <2>2. left <= src.num
    BY <1>1, <1>2, <1>8
  <2>3. p \in Extents /\ q \in Extents /\ Run(p) \o Run(q) = run
    <3>1. p = [start |-> src.start, num |-> left] /\ q = [start |-> src.start + left, num |-> src.num - left]
      OBVIOUS
    <3> HIDE DEF p, q, left
    <3>2. p \in Extents /\ q \in Extents
      BY <2>2, <3>1, <1>1, RunSplits
    <3>4. left \in Nat
      BY <1>1
    <3>3. Run(p) \o Run(q) = run
      BY <2>2, <3>1, <3>4, RunIsSplit, Zenon
    <3> QED  BY <3>2, <3>3
  <2>4. p.num = left
    OBVIOUS
  <2> HIDE DEF p, q
  <2>5. Blocks(new.taken) = B \o Run(p) /\ Blocks(new.rest) = Run(q)
    BY <2>1, <2>3, <1>1, BlocksAppend, BlocksOfOne, Zenon
  <2>6. Run(p) \in Seq(Int) /\ Run(q) \in Seq(Int) /\ Len(Run(p)) = left
    BY <2>3, <2>4, RunIsSeq
  <2> HIDE DEF B, R, run, left
  <2>7. (B \o Run(p)) \o Run(q) = B \o run
    <3> DEFINE x == Run(p)
               y == Run(q)
    <3>1. B \in Seq(Int) /\ x \in Seq(Int) /\ y \in Seq(Int)
      BY <2>6, <1>2
    <3> HIDE DEF x, y
    <3>2. (B \o x) \o y = B \o (x \o y)
      BY <3>1, JoinedInAnyOrder, Zenon
    <3> QED  BY <2>3, <3>2 DEF x, y
  <2>8. Len(B \o Run(p)) = Len(B) + Len(Run(p))
    BY <2>6, <1>2, ConcatProperties, Zenon
  <2>9. Len(B \o Run(p)) + 0 = wanted
    BY <2>6, <2>8, <1>1, <1>3, <1>5
  <2>10. seen = B
    BY <1>4, <1>8
  <2> QED  BY <2>1, <2>5, <2>7, <2>9, <2>10, Zenon DEF Shared, run
<1> QED  BY <1>6, <1>7, <1>8

(* The loop follows its recursion.                                         *)
LEMMA TakeFollows ==
    ASSUME NEW s \in Seq(Extents), NEW wanted \in Nat
    PROVE  \E f : /\ f \in [0..Len(s) -> Takes]
                  /\ f[0] = [taken |-> <<>>, left |-> wanted, rest |-> <<>>]
                  /\ \A i \in 1..Len(s) : f[i] = Take1(f[i - 1], s[i])
                  /\ TakeExtents(s, wanted) = f[Len(s)]
<1> DEFINE n == Len(s)
           A == Takes
           base == [taken |-> <<>>, left |-> wanted, rest |-> <<>>]
           Step(q, i) == Take1(q, s[i])
           step == [i \in 1..n |-> [q \in A |-> Step(q, i)]]
           Body(g) == [i \in 0..n |-> IF i = 0 THEN base ELSE Step(g[i - 1], i)]
           b == CHOOSE g : g = Body(g)
<1>1. n \in Nat /\ base \in A
  <2>1. <<>> \in Seq(Extents)
    BY EmptySeq
  <2> QED  BY <2>1, LenProperties DEF Takes
<1>2. \A q \in A : \A i \in 1..n : Step(q, i) \in A
  <2> SUFFICES ASSUME NEW q \in A, NEW i \in 1..n PROVE Take1(q, s[i]) \in A
    OBVIOUS
  <2>1. s[i] \in Extents
    BY ElementOfSeq
  <2> QED  BY <2>1, TakeCases, Zenon
<1>3. TakeExtents(s, wanted) = b[n]
  BY Zenon DEF TakeExtents, Take1
<1> HIDE DEF n, A, Step, base
<1>4. Steps(step, n, A)
  BY <1>2 DEF Steps
<1>5. \A i \in 1..n : \A q \in A : step[i][q] = Step(q, i)
  OBVIOUS
<1> HIDE DEF step
<1>6. PICK f : DefinedBy(f, n, A, base, step)
  BY <1>1, <1>4, RecursionExists, Zenon
<1>7. \A i \in 1..n : i - 1 \in 0..n
  BY <1>1
<1>8. f = Body(f)
  <2>1. ASSUME NEW i \in 1..n PROVE f[i] = Step(f[i - 1], i)
    BY <1>5, <1>6, <1>7 DEF DefinedBy
  <2>2. \A i \in 0..n : i = 0 \/ i \in 1..n
    BY <1>1
  <2> QED  BY <1>6, <2>1, <2>2, Zenon DEF DefinedBy
<1>9. b = Body(b)
  <2> HIDE DEF Body
  <2> QED  BY <1>8
<1> HIDE DEF b
<1>10. /\ b = [i \in 0..n |-> b[i]] /\ b[0] = base
       /\ \A i \in 1..n : b[i] = Step(b[i - 1], i)
  <2>1. \A i \in 1..n : i \in 0..n /\ i # 0
    BY <1>1
  <2> QED  BY <1>9, <1>1, <2>1
<1> HIDE DEF Body
<1>11. DefinedBy(b, n, A, base, step)
  BY <1>1, <1>4, <1>5, <1>10, RecursionTyped, Zenon
<1> QED  BY <1>10, <1>11, <1>3, Zenon DEF DefinedBy, n, A, Step, base

(* What was taken are the first blocks of the list, as many as were        *)
(* wanted, and what is left are the others.                                *)
LEMMA TakeIsExact ==
    ASSUME NEW s \in Seq(Extents), NEW wanted \in Nat, wanted <= Len(Blocks(s)),
           NEW take, take = TakeExtents(s, wanted)
    PROVE  /\ take \in Takes /\ take.left = 0
           /\ Blocks(take.taken) = SubSeq(Blocks(s), 1, wanted)
           /\ Blocks(take.rest) = SubSeq(Blocks(s), wanted + 1, Len(Blocks(s)))
<1> DEFINE n == Len(s)
<1>1. PICK f : /\ f \in [0..n -> Takes]
               /\ f[0] = [taken |-> <<>>, left |-> wanted, rest |-> <<>>]
               /\ \A i \in 1..n : f[i] = Take1(f[i - 1], s[i])
               /\ TakeExtents(s, wanted) = f[n]
  BY TakeFollows
<1>2. PICK b : Listing(b, s) /\ Blocks(s) = b[n]
  BY BlocksFollows
<1>3. n \in Nat /\ \A i \in 1..n : s[i] \in Extents
  BY LenProperties, ElementOfSeq
<1>4. b[0] = <<>> /\ \A i \in 1..n : b[i] = b[i - 1] \o Run(s[i])
  BY <1>2 DEF Listing
<1> HIDE DEF n
<1> DEFINE S == {i \in Nat : i <= n => Shared(f[i], b[i], wanted)}
<1>5. 0 \in S
  <2>1. f[0].taken = <<>> /\ f[0].left = wanted /\ f[0].rest = <<>>
    BY <1>1
  <2>2. <<>> \o <<>> = <<>> /\ Len(<<>>) = 0 /\ 0 + wanted = wanted
    OBVIOUS
  <2>3. Shared(f[0], b[0], wanted)
    BY <2>1, <2>2, <1>4, BlocksOfNothing, Zenon DEF Shared
  <2> QED  BY <2>3
<1>6. ASSUME NEW i \in S PROVE i + 1 \in S
  <2> SUFFICES ASSUME i + 1 <= n PROVE Shared(f[i + 1], b[i + 1], wanted)
    OBVIOUS
  <2>1. i \in Nat /\ i + 1 \in 1..n /\ i \in 0..n /\ (i + 1) - 1 = i
    BY <1>3
  <2>2. Shared(f[i], b[i], wanted) /\ f[i] \in Takes /\ f[i + 1] = Take1(f[i], s[i + 1])
    BY <2>1, <1>1, <1>3
  <2>3. b[i + 1] = b[i] \o Run(s[i + 1]) /\ s[i + 1] \in Extents
    BY <2>1, <1>3, <1>4, Zenon
  <2> QED  BY <2>2, <2>3, TakesOn
<1>7. S = Nat
  BY <1>5, <1>6, Induction, Zenon
<1>8. Shared(take, Blocks(s), wanted) /\ take \in Takes
  BY <1>1, <1>2, <1>3, <1>7
<1> DEFINE q == Blocks(take.taken)
           t == Blocks(take.rest)
           w == Blocks(s)
<1>9. take.left \in Nat /\ take.taken \in Seq(Extents) /\ take.rest \in Seq(Extents)
  BY <1>8 DEF Takes
<1>10. q \in Seq(Int) /\ t \in Seq(Int)
  BY <1>9, BlocksIsSeq
<1>11. w = q \o t /\ Len(q) + take.left = wanted /\ (take.left # 0 => t = <<>>)
  BY <1>8, BlocksOfNothing, Zenon DEF Shared
<1> HIDE DEF q, t, w
<1>12. /\ Len(w) = Len(q) + Len(t)
       /\ SubSeq(w, 1, Len(q)) = q /\ SubSeq(w, Len(q) + 1, Len(w)) = t
  BY <1>10, <1>11, PartsOfConcat
<1>13. Len(q) = wanted /\ take.left = 0
  <2>1. wanted <= Len(w) /\ Len(q) \in Nat
    BY <1>10, LenProperties DEF w
  <2>2. t = <<>> => Len(t) = 0
    OBVIOUS
  <2> DEFINE lq == Len(q)
             lt == Len(t)
             lw == Len(w)
             left == take.left
  <2>3. /\ lq \in Nat /\ left \in Nat /\ wanted <= lw /\ lw = lq + lt /\ lq + left = wanted
        /\ (left # 0 => lt = 0)
    BY <2>1, <2>2, <1>9, <1>11, <1>12
  <2> HIDE DEF lq, lt, lw, left
  <2>4. lq = wanted /\ left = 0
    BY <2>3
  <2> QED  BY <2>4 DEF lq, left
<1> QED  BY <1>8, <1>12, <1>13 DEF q, t, w

(* One step of GetExtentsForBlockCount.                                    *)
Copy1(acc, e) ==
    LET num == Min({e.num, acc.left})
    IN  IF acc.left = 0 THEN acc
        ELSE [out |-> Append(acc.out, ExtentForRange(e.start, num)), left |-> acc.left - num]

Copies == [out : Seq(Extents), left : Nat]

(* It takes what TakeExtents takes.                                        *)
LEMMA CopyTakes ==
    ASSUME NEW acc \in Copies, NEW e \in Extents, NEW new, new = Copy1(acc, e)
    PROVE  /\ new \in Copies
           /\ \A other \in Takes :
                acc.out = other.taken /\ acc.left = other.left =>
                    new.out = Take1(other, e).taken /\ new.left = Take1(other, e).left
<1> DEFINE out == acc.out
           left == acc.left
           num == Min({e.num, left})
<1>1. out \in Seq(Extents) /\ left \in Nat /\ e.num \in Nat /\ e.start \in Int
  BY DEF Copies, Extents
<1>2. num = IF e.num <= left THEN e.num ELSE left
  <2>1. e.num \in Int /\ left \in Int
    BY <1>1
  <2> QED  BY <2>1, MinMaxOfTwo, Zenon
<1>3. new = IF left = 0 THEN acc
            ELSE [out |-> Append(out, [start |-> e.start, num |-> num]), left |-> left - num]
  BY Zenon DEF Copy1, ExtentForRange
<1>4. e = [start |-> e.start, num |-> e.num]
  BY DEF Extents
<1> HIDE DEF out, left, num
<1>5. CASE left = 0
  <2>1. new = acc
    BY <1>3, <1>5
  <2>2. ASSUME NEW other \in Takes, out = other.taken, left = other.left
        PROVE  out = Take1(other, e).taken /\ left = Take1(other, e).left
    <3> DEFINE next == Take1(other, e)
    <3>1. other.left = 0 => next.taken = other.taken /\ next.left = 0
      BY TakeCases, Zenon
    <3> QED  BY <2>2, <3>1, <1>5
  <2> QED  BY <2>1, <2>2 DEF out, left
<1>6. CASE left # 0 /\ e.num <= left
  <2>1. num = e.num
    BY <1>2, <1>6
  <2>2. new = [out |-> Append(out, e), left |-> left - e.num]
    BY <2>1, <1>3, <1>4, <1>6, Zenon
  <2>3. Append(out, e) \in Seq(Extents) /\ left - e.num \in Nat
    BY <1>1, <1>6, AppendProperties
  <2>4. new \in Copies /\ new.out = Append(out, e) /\ new.left = left - e.num
    BY <2>2, <2>3 DEF Copies
  <2>5. ASSUME NEW other \in Takes, out = other.taken, left = other.left
        PROVE  Append(out, e) = Take1(other, e).taken /\ left - e.num = Take1(other, e).left
    BY <2>5, <1>6, TakeCases, Zenon
  <2> QED  BY <2>4, <2>5 DEF out, left
<1>7. CASE left # 0 /\ ~(e.num <= left)
  <2> DEFINE p == [start |-> e.start, num |-> left]
  <2>1. num = left
    BY <1>2, <1>7
  <2>2. new = [out |-> Append(out, p), left |-> left - left] /\ left - left = 0
    BY <2>1, <1>1, <1>3, <1>7
  <2>3. p \in Extents
    BY <1>1 DEF Extents
  <2>4. Append(out, p) \in Seq(Extents)
    BY <2>3, <1>1, AppendProperties
  <2> HIDE DEF p
  <2>5. new \in Copies /\ new.out = Append(out, p) /\ new.left = 0
    BY <2>2, <2>4 DEF Copies
  <2>6. ASSUME NEW other \in Takes, out = other.taken, left = other.left
        PROVE  Append(out, p) = Take1(other, e).taken /\ 0 = Take1(other, e).left
    BY <2>6, <1>7, TakeCases, Zenon DEF p
  <2> QED  BY <2>5, <2>6 DEF out, left
<1> QED  BY <1>5, <1>6, <1>7

(* f has what each round of the loop has copied.                           *)
CopiesBy(f, s, count) ==
    /\ f \in [0..Len(s) -> Copies]
    /\ f[0] = [out |-> <<>>, left |-> count]
    /\ \A i \in 1..Len(s) : f[i] = Copy1(f[i - 1], s[i])

(* The loop follows its recursion.                                         *)
LEMMA CopyFollows ==
    ASSUME NEW r, NEW count \in Nat, NEW s \in Seq(Extents), s = InOrder(r.set)
    PROVE  \E f : CopiesBy(f, s, count) /\ GetExtentsForBlockCount(r, count) = f[Len(s)].out
<1> DEFINE n == Len(s)
           A == Copies
           base == [out |-> <<>>, left |-> count]
           Step(q, i) == Copy1(q, s[i])
           step == [i \in 1..n |-> [q \in A |-> Step(q, i)]]
           Body(g) == [i \in 0..n |-> IF i = 0 THEN base ELSE Step(g[i - 1], i)]
           b == CHOOSE g : g = Body(g)
<1>1. n \in Nat /\ base \in A
  <2>1. <<>> \in Seq(Extents)
    BY EmptySeq
  <2> QED  BY <2>1, LenProperties DEF Copies
<1>2. \A q \in A : \A i \in 1..n : Step(q, i) \in A
  <2> SUFFICES ASSUME NEW q \in A, NEW i \in 1..n PROVE Copy1(q, s[i]) \in A
    OBVIOUS
  <2>1. s[i] \in Extents
    BY ElementOfSeq
  <2> QED  BY <2>1, CopyTakes
<1>3. GetExtentsForBlockCount(r, count) = b[n].out
  BY Zenon DEF GetExtentsForBlockCount, Copy1
<1> HIDE DEF n, A, Step, base
<1>4. Steps(step, n, A)
  BY <1>2 DEF Steps
<1>5. \A i \in 1..n : \A q \in A : step[i][q] = Step(q, i)
  OBVIOUS
<1> HIDE DEF step
<1>6. PICK f : DefinedBy(f, n, A, base, step)
  BY <1>1, <1>4, RecursionExists, Zenon
<1>7. \A i \in 1..n : i - 1 \in 0..n
  BY <1>1
<1>8. f = Body(f)
  <2>1. ASSUME NEW i \in 1..n PROVE f[i] = Step(f[i - 1], i)
    BY <1>5, <1>6, <1>7 DEF DefinedBy
  <2>2. \A i \in 0..n : i = 0 \/ i \in 1..n
    BY <1>1
  <2> QED  BY <1>6, <2>1, <2>2 DEF DefinedBy
<1>9. b = Body(b)
  <2> HIDE DEF Body
  <2> QED  BY <1>8
<1> HIDE DEF b
<1>10. /\ b = [i \in 0..n |-> b[i]] /\ b[0] = base
       /\ \A i \in 1..n : b[i] = Step(b[i - 1], i)
  <2>1. \A i \in 1..n : i \in 0..n /\ i # 0
    BY <1>1
  <2> QED  BY <1>9, <1>1, <2>1
<1> HIDE DEF Body
<1>11. DefinedBy(b, n, A, base, step)
  BY <1>1, <1>4, <1>5, <1>10, RecursionTyped, Zenon
<1> QED  BY <1>10, <1>11, <1>3, Zenon DEF DefinedBy, CopiesBy, n, A, Step, base

(* GetExtentsForBlockCount names the first blocks.                         *)
LEMMA GetIsExact ==
    ASSUME NEW r, NEW s \in Seq(Extents), s = InOrder(r.set),
           NEW count \in Nat, count <= Len(Blocks(s))
    PROVE  Blocks(GetExtentsForBlockCount(r, count)) = SubSeq(Blocks(s), 1, count)
<1> DEFINE n == Len(s)
<1>9. PICK f : CopiesBy(f, s, count) /\ GetExtentsForBlockCount(r, count) = f[n].out
  BY CopyFollows, Zenon
<1>1. /\ f \in [0..n -> Copies]
      /\ f[0] = [out |-> <<>>, left |-> count]
      /\ \A i \in 1..n : f[i] = Copy1(f[i - 1], s[i])
      /\ GetExtentsForBlockCount(r, count) = f[n].out
  BY <1>9 DEF CopiesBy
<1>2. PICK g : /\ g \in [0..n -> Takes]
               /\ g[0] = [taken |-> <<>>, left |-> count, rest |-> <<>>]
               /\ \A i \in 1..n : g[i] = Take1(g[i - 1], s[i])
               /\ TakeExtents(s, count) = g[n]
  BY TakeFollows
<1>3. n \in Nat /\ \A i \in 1..n : s[i] \in Extents
  BY LenProperties, ElementOfSeq
<1>4. Blocks(TakeExtents(s, count).taken) = SubSeq(Blocks(s), 1, count)
  BY TakeIsExact
<1> HIDE DEF n
<1> DEFINE S == {i \in Nat : i <= n => f[i].out = g[i].taken /\ f[i].left = g[i].left}
<1>5. 0 \in S
  BY <1>1, <1>2
<1>6. ASSUME NEW i \in S PROVE i + 1 \in S
  <2> SUFFICES ASSUME i + 1 <= n
               PROVE  f[i + 1].out = g[i + 1].taken /\ f[i + 1].left = g[i + 1].left
    OBVIOUS
  <2>1. i \in Nat /\ i + 1 \in 1..n /\ i \in 0..n /\ (i + 1) - 1 = i
    BY <1>3
  <2>2. /\ f[i] \in Copies /\ g[i] \in Takes /\ s[i + 1] \in Extents
        /\ f[i].out = g[i].taken /\ f[i].left = g[i].left
    BY <2>1, <1>1, <1>2, <1>3
  <2>3. f[i + 1] = Copy1(f[i], s[i + 1]) /\ g[i + 1] = Take1(g[i], s[i + 1])
    BY <2>1, <1>1, <1>2
  <2> DEFINE acc == f[i]
             other == g[i]
             e == s[i + 1]
             new == f[i + 1]
             next == g[i + 1]
  <2>4. /\ acc \in Copies /\ other \in Takes /\ e \in Extents
        /\ acc.out = other.taken /\ acc.left = other.left
        /\ new = Copy1(acc, e) /\ next = Take1(other, e)
    BY <2>2, <2>3
  <2> HIDE DEF acc, other, e, new, next
  <2>5. new.out = next.taken /\ new.left = next.left
    BY <2>4, CopyTakes
  <2> QED  BY <2>5 DEF new, next
<1>7. S = Nat
  BY <1>5, <1>6, Induction, Zenon
<1>8. f[n].out = g[n].taken
  BY <1>3, <1>7
<1> QED  BY <1>1, <1>2, <1>4, <1>8

-----------------------------------------------------------------------------
(* A new ExtentRanges holds nothing.                                       *)
LEMMA NothingHeld == RangesInv(NoRanges, {})
<1>1. NoRanges.set = {} /\ NoRanges.blocks = 0
  BY DEF NoRanges
<1>2. Disjoint({})
  BY FS_EmptySet DEF Disjoint
<1>3. BlocksIn({}) = {}
  BY DEF BlocksIn
<1>4. Cardinality({}) = 0
  BY FS_EmptySet
<1> QED  BY <1>1, <1>2, <1>3, <1>4, Zenon DEF RangesInv

(* AddExtents adds the blocks of all the extents of a list.                *)
LEMMA AddAllIsExact ==
    ASSUME NEW s \in Seq(Solid)
    PROVE  RangesInv(AddExtents(NoRanges, s), BlocksIn({s[j] : j \in 1..Len(s)}))
<1> DEFINE n == Len(s)
           Held(i) == BlocksIn({s[j] : j \in 1..i})
           A == {r \in [set : SUBSET Solid, blocks : Nat] : \E held : RangesInv(r, held)}
           Step(q, i) == AddExtent(q, s[i])
           step == [i \in 1..n |-> [q \in A |-> Step(q, i)]]
           Body(g) == [i \in 0..n |-> IF i = 0 THEN NoRanges ELSE Step(g[i - 1], i)]
           b == CHOOSE g : g = Body(g)
<1>1. n \in Nat /\ \A i \in 1..n : s[i] \in Solid
  BY LenProperties, ElementOfSeq
<1>2. NoRanges \in A /\ RangesInv(NoRanges, {})
  <2>1. RangesInv(NoRanges, {})
    BY NothingHeld
  <2>2. NoRanges \in [set : SUBSET Solid, blocks : Nat]
    BY DEF NoRanges
  <2> QED  BY <2>1, <2>2
<1>3. ASSUME NEW q \in A, NEW i \in 1..n PROVE Step(q, i) \in A
  <2>1. PICK held : RangesInv(q, held)
    OBVIOUS
  <2> DEFINE r == AddExtent(q, s[i])
             all == held \union BlocksOf(s[i])
  <2>2. RangesInv(r, all)
    BY <2>1, <1>1, AddIsExact
  <2>3. r.set \subseteq Solid /\ r.blocks \in Nat
    <3>1. Disjoint(r.set) /\ r.blocks = Cardinality(BlocksIn(r.set))
      BY <2>2, Zenon DEF RangesInv
    <3>2. r.set \subseteq Solid
      BY <3>1 DEF Disjoint
    <3>3. Cardinality(BlocksIn(r.set)) \in Nat
      BY <3>1, DisjointInOrder
    <3> QED  BY <3>1, <3>2, <3>3
  <2>4. r = [set |-> r.set, blocks |-> r.blocks]
    <3>1. s[i].start # kSparseHole /\ s[i].num # 0
      BY <1>1, RealFields DEF kSparseHole
    <3>2. \E x, y : r = [set |-> x, blocks |-> y]
      BY <3>1, Zenon DEF AddExtent
    <3> HIDE DEF r
    <3> QED  BY <3>2
  <2> HIDE DEF r
  <2>5. r \in [set : SUBSET Solid, blocks : Nat]
    BY <2>3, <2>4
  <2> QED  BY <2>2, <2>5 DEF r
<1>4. AddExtents(NoRanges, s) = b[n]
  BY Zenon DEF AddExtents
<1> HIDE DEF n, A, Step
<1>5. Steps(step, n, A)
  BY <1>3 DEF Steps
<1>6. \A i \in 1..n : \A q \in A : step[i][q] = Step(q, i)
  OBVIOUS
<1> HIDE DEF step
<1>7. PICK f : DefinedBy(f, n, A, NoRanges, step)
  BY <1>1, <1>2, <1>5, RecursionExists, Zenon
<1>8. \A i \in 1..n : i - 1 \in 0..n
  BY <1>1
<1>9. f = Body(f)
  <2>1. ASSUME NEW i \in 1..n PROVE f[i] = Step(f[i - 1], i)
    BY <1>6, <1>7, <1>8 DEF DefinedBy
  <2>2. \A i \in 0..n : i = 0 \/ i \in 1..n
    BY <1>1
  <2> QED  BY <1>7, <2>1, <2>2 DEF DefinedBy
<1>10. b = Body(b)
  <2> HIDE DEF Body
  <2> QED  BY <1>9
<1> HIDE DEF b
<1>11. b[0] = NoRanges /\ \A i \in 1..n : b[i] = AddExtent(b[i - 1], s[i])
  <2>1. \A i \in 1..n : i \in 0..n /\ i # 0
    BY <1>1
  <2> QED  BY <1>10, <1>1, <2>1 DEF Step
<1> HIDE DEF Body
<1> DEFINE S == {i \in Nat : i <= n => RangesInv(b[i], Held(i))}
<1>12. 0 \in S
  <2>1. Held(0) = {}
    BY DEF BlocksIn
  <2> QED  BY <2>1, <1>2, <1>11, Zenon
<1>13. ASSUME NEW i \in S PROVE i + 1 \in S
  <2> SUFFICES ASSUME i + 1 <= n PROVE RangesInv(b[i + 1], Held(i + 1))
    OBVIOUS
  <2>1. i + 1 \in 1..n /\ (i + 1) - 1 = i /\ RangesInv(b[i], Held(i)) /\ i \in Nat
    BY <1>1
  <2>2. {s[j] : j \in 1..(i + 1)} = {s[j] : j \in 1..i} \union {s[i + 1]}
    <3>1. 1..(i + 1) = 1..i \union {i + 1}
      BY <2>1
    <3> QED  BY <3>1
  <2>3. Held(i + 1) = Held(i) \union BlocksOf(s[i + 1])
    BY <2>2 DEF BlocksIn
  <2> HIDE DEF Held, S
  <2>4. RangesInv(AddExtent(b[i], s[i + 1]), Held(i) \union BlocksOf(s[i + 1]))
    BY <2>1, <1>1, AddIsExact
  <2>5. b[i + 1] = AddExtent(b[i], s[i + 1])
    BY <2>1, <1>11
  <2> QED  BY <2>3, <2>4, <2>5, Zenon
<1>14. S = Nat
  <2> HIDE DEF S
  <2>1. S \subseteq Nat
    BY DEF S
  <2> QED  BY <2>1, <1>12, <1>13, Induction, Zenon
<1>15. RangesInv(b[n], Held(n))
  <2> HIDE DEF Held
  <2>1. n \in S
    <3> HIDE DEF S
    <3> QED  BY <1>1, <1>14
  <2> QED  BY <2>1, <1>1
<1> QED  BY <1>4, <1>15 DEF n

-----------------------------------------------------------------------------
(* The operations that SplitSourceCopy makes.                              *)
CopyOps ==
    [type : {"SOURCE_COPY"}, src : Seq(Extents), dst : Seq(Extents), off : {0}, len : {0},
     hash : {<<>>}, data_hash : {<<>>}]

Splits == [ops : Seq(CopyOps), rest : Seq(Extents)]

(* One round of SplitSourceCopy.                                           *)
Split1(acc, dst) ==
    LET take == TakeExtents(acc.rest, dst.num)
    IN  [ops |-> Append(acc.ops, NewOp("SOURCE_COPY", take.taken, <<dst>>)), rest |-> take.rest]

(* What a round does.                                                      *)
LEMMA SplitRound ==
    ASSUME NEW acc \in Splits, NEW dst \in Extents, NEW new, new = Split1(acc, dst),
           NEW take, take = TakeExtents(acc.rest, dst.num),
           NEW op, op = NewOp("SOURCE_COPY", take.taken, <<dst>>)
    PROVE  /\ new \in Splits
           /\ op \in CopyOps /\ op.src = take.taken /\ op.dst = <<dst>>
           /\ new.ops = Append(acc.ops, op) /\ new.rest = take.rest
<1>1. acc.ops \in Seq(CopyOps) /\ acc.rest \in Seq(Extents) /\ dst.num \in Nat
  BY DEF Splits, Extents
<1> DEFINE s == acc.rest
           wanted == dst.num
<1>2. take \in Takes
  <2>1. s \in Seq(Extents) /\ wanted \in Nat /\ take = TakeExtents(s, wanted)
    BY <1>1
  <2> HIDE DEF s, wanted
  <2>2. PICK f : f \in [0..Len(s) -> Takes] /\ TakeExtents(s, wanted) = f[Len(s)]
    BY <2>1, TakeFollows, Zenon
  <2>3. Len(s) \in 0..Len(s)
    BY <2>1, LenProperties
  <2> QED  BY <2>1, <2>2, <2>3
<1>3. take.taken \in Seq(Extents) /\ take.rest \in Seq(Extents)
  BY <1>2 DEF Takes
<1>4. op \in CopyOps /\ op.src = take.taken /\ op.dst = <<dst>>
  BY <1>3 DEF NewOp, CopyOps
<1>5. new = [ops |-> Append(acc.ops, op), rest |-> take.rest]
  BY Zenon DEF Split1
<1>6. Append(acc.ops, op) \in Seq(CopyOps)
  BY <1>1, <1>4, AppendProperties
<1>7. new \in Splits /\ new.ops = Append(acc.ops, op) /\ new.rest = take.rest
  BY <1>3, <1>5, <1>6 DEF Splits
<1> QED  BY <1>4, <1>7

(* f has what each round of the loop has made.                             *)
SplitsBy(f, op) ==
    /\ f \in [0..Len(op.dst) -> Splits]
    /\ f[0] = [ops |-> <<>>, rest |-> op.src]
    /\ \A i \in 1..Len(op.dst) : f[i] = Split1(f[i - 1], op.dst[i])

(* The loop follows its recursion.                                         *)
LEMMA SplitFollows ==
    ASSUME NEW op, op.src \in Seq(Extents), op.dst \in Seq(Extents)
    PROVE  \E f : SplitsBy(f, op) /\ SplitSourceCopy(op) = f[Len(op.dst)].ops
<1> DEFINE n == Len(op.dst)
           A == Splits
           base == [ops |-> <<>>, rest |-> op.src]
           Step(q, i) == Split1(q, op.dst[i])
           step == [i \in 1..n |-> [q \in A |-> Step(q, i)]]
           Body(g) == [i \in 0..n |-> IF i = 0 THEN base ELSE Step(g[i - 1], i)]
           b == CHOOSE g : g = Body(g)
<1>1. n \in Nat /\ base \in A
  <2>1. <<>> \in Seq(CopyOps)
    BY EmptySeq
  <2> QED  BY <2>1, LenProperties DEF Splits
<1>2. \A q \in A : \A i \in 1..n : Step(q, i) \in A
  <2> SUFFICES ASSUME NEW q \in A, NEW i \in 1..n PROVE Split1(q, op.dst[i]) \in A
    OBVIOUS
  <2>1. op.dst[i] \in Extents
    BY ElementOfSeq
  <2> QED  BY <2>1, SplitRound, Zenon
<1>3. SplitSourceCopy(op) = b[n].ops
  BY Zenon DEF SplitSourceCopy, Split1
<1> HIDE DEF n, A, Step, base
<1>4. Steps(step, n, A)
  BY <1>2 DEF Steps
<1>5. \A i \in 1..n : \A q \in A : step[i][q] = Step(q, i)
  OBVIOUS
<1> HIDE DEF step
<1>6. PICK f : DefinedBy(f, n, A, base, step)
  BY <1>1, <1>4, RecursionExists, Zenon
<1>7. \A i \in 1..n : i - 1 \in 0..n
  BY <1>1
<1>8. f = Body(f)
  <2>1. ASSUME NEW i \in 1..n PROVE f[i] = Step(f[i - 1], i)
    BY <1>5, <1>6, <1>7 DEF DefinedBy
  <2>2. \A i \in 0..n : i = 0 \/ i \in 1..n
    BY <1>1
  <2> QED  BY <1>6, <2>1, <2>2 DEF DefinedBy
<1>9. b = Body(b)
  <2> HIDE DEF Body
  <2> QED  BY <1>8
<1> HIDE DEF b
<1>10. /\ b = [i \in 0..n |-> b[i]] /\ b[0] = base
       /\ \A i \in 1..n : b[i] = Step(b[i - 1], i)
  <2>1. \A i \in 1..n : i \in 0..n /\ i # 0
    BY <1>1
  <2> QED  BY <1>9, <1>1, <2>1
<1> HIDE DEF Body
<1>11. DefinedBy(b, n, A, base, step)
  BY <1>1, <1>4, <1>5, <1>10, RecursionTyped, Zenon
<1> QED  BY <1>10, <1>11, <1>3, Zenon DEF DefinedBy, SplitsBy, n, A, Step, base

(* What the first k parts read, b having the blocks that they write.       *)
SplitUp(acc, dst, first, b, k) ==
    /\ Len(acc.ops) = k
    /\ Blocks(acc.rest) = Slice(first, Len(b[k]), Len(first))
    /\ \A j \in 1..k : /\ acc.ops[j].dst = <<dst[j]>>
                       /\ Blocks(acc.ops[j].src) = Slice(first, Len(b[j - 1]), Len(b[j]))

(* One more round.                                                         *)
LEMMA SplitsOn ==
    ASSUME NEW dst \in Seq(Extents), NEW b, Listing(b, dst), NEW first \in Seq(Int),
           Len(b[Len(dst)]) <= Len(first), NEW k \in Nat, k + 1 <= Len(dst),
           NEW acc \in Splits, SplitUp(acc, dst, first, b, k), NEW new, new = Split1(acc, dst[k + 1])
    PROVE  SplitUp(new, dst, first, b, k + 1)
<1> DEFINE d == dst[k + 1]
           m == Len(b[k])
           n == Len(first)
           w == d.num
           s == acc.rest
           take == TakeExtents(s, w)
<1>1. /\ k \in 0..Len(dst) /\ k + 1 \in 1..Len(dst) /\ k + 1 \in 0..Len(dst) /\ (k + 1) - 1 = k
      /\ 1..(k + 1) = (1..k) \union {k + 1}
  BY LenProperties
<1>2. d \in Extents /\ w \in Nat
  <2>1. d \in Extents
    BY <1>1, ElementOfSeq
  <2> QED  BY <2>1 DEF Extents
<1>3. m \in Nat /\ Len(b[k + 1]) = m + w /\ Len(b[k + 1]) <= Len(b[Len(dst)])
  BY <1>1, ListingGrows
<1>4. n \in Nat /\ Len(b[Len(dst)]) \in Nat
  <2>1. Len(dst) \in 0..Len(dst)
    BY LenProperties
  <2> QED  BY <2>1, ListingGrows, LenProperties
<1>5. m + w <= n /\ m <= n
  BY <1>2, <1>3, <1>4
<1>6. s \in Seq(Extents) /\ acc.ops \in Seq(CopyOps)
  BY DEF Splits
<1> DEFINE op == NewOp("SOURCE_COPY", take.taken, <<d>>)
<1>7. /\ op \in CopyOps /\ op.src = take.taken /\ op.dst = <<d>>
      /\ new.ops = Append(acc.ops, op) /\ new.rest = take.rest
  <2>1. /\ new = Split1(acc, d) /\ take = TakeExtents(acc.rest, d.num)
        /\ op = NewOp("SOURCE_COPY", take.taken, <<d>>)
    OBVIOUS
  <2> HIDE DEF d, take, op
  <2>2. op \in CopyOps
    BY <2>1, <1>2, SplitRound
  <2>4. op.src = take.taken /\ op.dst = <<d>>
    BY <2>1 DEF NewOp
  <2>3. new.ops = Append(acc.ops, op) /\ new.rest = take.rest
    BY <2>1, <1>2, SplitRound
  <2> QED  BY <2>2, <2>3, <2>4
<1> HIDE DEF op
<1>8. Blocks(s) = Slice(first, m, n)
  BY DEF SplitUp
<1> HIDE DEF m, n, w, s, d
<1>9. Len(Blocks(s)) = n - m
  <2>1. n <= Len(first)
    BY <1>4 DEF n
  <2> QED  BY <2>1, <1>3, <1>4, <1>5, <1>8, SliceIs, Zenon
<1>10. w <= Len(Blocks(s))
  BY <1>2, <1>3, <1>4, <1>5, <1>9
<1>11. /\ Blocks(take.taken) = SubSeq(Blocks(s), 1, w)
       /\ Blocks(take.rest) = SubSeq(Blocks(s), w + 1, Len(Blocks(s)))
  BY <1>2, <1>6, <1>10, TakeIsExact, Zenon
<1> HIDE DEF take
<1>12. Blocks(take.taken) = Slice(Slice(first, m, n), 0, w)
  <2>1. 0 + 1 = 1
    OBVIOUS
  <2> QED  BY <2>1, <1>8, <1>11, Zenon DEF Slice
<1>13. Blocks(take.rest) = Slice(Slice(first, m, n), w, n - m)
  BY <1>8, <1>9, <1>11, Zenon DEF Slice
<1>14. Slice(Slice(first, m, n), 0, w) = Slice(first, m, m + w)
  <2>1. 0 \in Nat /\ 0 <= w /\ n <= Len(first) /\ m + 0 = m
    BY <1>2, <1>3, <1>4 DEF n
  <2>2. Slice(Slice(first, m, n), 0, w) = Slice(first, m + 0, m + w)
    BY <2>1, <1>2, <1>3, <1>4, <1>5, SliceOfSlice
  <2> QED  BY <2>1, <2>2
<1>15. Slice(Slice(first, m, n), w, n - m) = Slice(first, m + w, n)
  <2>1. n - m \in Nat /\ w <= n - m /\ n <= Len(first) /\ m + (n - m) = n /\ m + (n - m) <= n
    BY <1>2, <1>3, <1>4, <1>5 DEF n
  <2>2. Slice(Slice(first, m, n), w, n - m) = Slice(first, m + w, m + (n - m))
    BY <2>1, <1>2, <1>3, <1>4, <1>5, SliceOfSlice
  <2> QED  BY <2>1, <2>2
<1>16. Blocks(new.rest) = Slice(first, Len(b[k + 1]), Len(first))
  BY <1>3, <1>7, <1>13, <1>15 DEF n
<1>17. Len(acc.ops) = k
  BY DEF SplitUp
<1>18. Len(new.ops) = k + 1 /\ new.ops[k + 1] = op /\ \A j \in 1..k : new.ops[j] = acc.ops[j]
  BY <1>6, <1>7, <1>17, AppendProperties
<1>19. ASSUME NEW j \in 1..(k + 1)
       PROVE  /\ new.ops[j].dst = <<dst[j]>>
              /\ Blocks(new.ops[j].src) = Slice(first, Len(b[j - 1]), Len(b[j]))
  <2>1. CASE j \in 1..k
    BY <2>1, <1>18, Zenon DEF SplitUp
  <2>2. CASE j = k + 1
    <3>1. j - 1 = k /\ new.ops[j] = op
      BY <2>2, <1>18
    <3>2. op.dst = <<dst[j]>>
      BY <2>2, <1>7 DEF d
    <3>3. Blocks(op.src) = Slice(first, Len(b[k]), Len(b[k + 1]))
      BY <1>3, <1>7, <1>12, <1>14 DEF m
    <3> QED  BY <2>2, <3>1, <3>2, <3>3
  <2> QED  BY <2>1, <2>2, <1>1
<1> QED  BY <1>16, <1>18, <1>19 DEF SplitUp

(* Each part that SplitSourceCopy makes of a copy has one destination      *)
(* extent and reads the blocks that the whole would have copied there.     *)
LEMMA SplitIsExact ==
    ASSUME NEW op, op.src \in Seq(Extents), op.dst \in Seq(Extents),
           NEW b, Listing(b, op.dst), Len(b[Len(op.dst)]) <= Len(Blocks(op.src)),
           NEW ops, ops = SplitSourceCopy(op)
    PROVE  /\ Len(ops) = Len(op.dst)
           /\ \A j \in 1..Len(op.dst) :
                /\ ops[j].dst = <<op.dst[j]>>
                /\ Blocks(ops[j].src) = Slice(Blocks(op.src), Len(b[j - 1]), Len(b[j]))
<1> DEFINE dst == op.dst
           n == Len(dst)
           first == Blocks(op.src)
<1>1. PICK f : SplitsBy(f, op) /\ SplitSourceCopy(op) = f[n].ops
  BY SplitFollows
<1>2. f \in [0..n -> Splits] /\ f[0] = [ops |-> <<>>, rest |-> op.src]
  BY <1>1 DEF SplitsBy
<1>3. \A i \in 1..n : f[i] = Split1(f[i - 1], dst[i])
  BY <1>1 DEF SplitsBy
<1>4. n \in Nat /\ dst \in Seq(Extents) /\ Listing(b, dst)
  BY LenProperties
<1>5. first \in Seq(Int) /\ Len(first) \in Nat /\ Len(b[n]) <= Len(first)
  BY BlocksIsSeq
<1>6. b[0] = <<>>
  BY DEF Listing
<1> DEFINE S == {k \in Nat : k <= n => SplitUp(f[k], dst, first, b, k)}
<1>7. 0 \in S
  <2>1. f[0].ops = <<>> /\ f[0].rest = op.src /\ Len(<<>>) = 0 /\ 1..0 = {}
    BY <1>2
  <2>2. Slice(first, 0, Len(first)) = first
    <3> HIDE DEF first
    <3>1. SubSeq(first, 1, Len(first)) = first
      BY <1>5, SubSeqFull
    <3>2. 0 + 1 = 1
      OBVIOUS
    <3> QED  BY <3>1, <3>2, Zenon DEF Slice
  <2>3. Blocks(f[0].rest) = Slice(first, Len(b[0]), Len(first))
    BY <2>1, <2>2, <1>6
  <2>4. SplitUp(f[0], dst, first, b, 0)
    <3> HIDE DEF first, dst
    <3> QED  BY <2>1, <2>3, Zenon DEF SplitUp
  <2> HIDE DEF first, dst, n
  <2> QED  BY <2>4
<1> HIDE DEF dst, n, first
<1>8. ASSUME NEW k \in S PROVE k + 1 \in S
  <2> SUFFICES ASSUME k + 1 <= n PROVE SplitUp(f[k + 1], dst, first, b, k + 1)
    OBVIOUS
  <2>1. k \in Nat /\ k + 1 \in 1..n /\ k \in 0..n /\ (k + 1) - 1 = k
    BY <1>4
  <2>2. SplitUp(f[k], dst, first, b, k) /\ f[k] \in Splits /\ f[k + 1] = Split1(f[k], dst[k + 1])
    BY <2>1, <1>2, <1>3, <1>4
  <2> QED  BY <2>1, <2>2, <1>4, <1>5, SplitsOn DEF n
<1>9. S = Nat
  BY <1>7, <1>8, Induction, Zenon
<1>10. SplitUp(f[n], dst, first, b, n)
  BY <1>4, <1>9
<1> QED  BY <1>1, <1>10 DEF SplitUp, dst, n, first
=============================================================================
