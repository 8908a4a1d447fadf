----------------------------- MODULE ListFacts -----------------------------
(***************************************************************************)
(* What the loops over lists of module Lists compute, and what it takes to *)
(* prove it: induction over numbers, least and greatest, recursion.        *)
(***************************************************************************)
EXTENDS Lists, FiniteSetsExt, FiniteSetTheorems, NaturalsInduction, WellFoundedInduction, TLAPS

-----------------------------------------------------------------------------
\* Natural numbers: induction over a set, the least of a set, definitions by
\* recursion

\* What a list holds.
LEMMA ElementOfSeq ==
  ASSUME NEW S, NEW s \in Seq(S), NEW i \in 1..Len(s)
  PROVE  s[i] \in S
  OBVIOUS

\* A set of natural numbers has a least member.
LEMMA LeastOfSet ==
  ASSUME NEW S \in SUBSET Nat, S # {}
  PROVE  \E m \in S : \A y \in S : m <= y
<1>1. \E m \in S : \A y \in S : ~(<<y, m>> \in OpToRel(<, Nat))
  BY NatLessThanWellFounded, WFMin
<1>2. \E m \in S : \A y \in S : ~(y < m)
  BY <1>1 DEF OpToRel
<1> QED
  BY <1>2

\* A set of natural numbers with 0 and the successor of each member has them all.
LEMMA SetInduction ==
  ASSUME NEW S \in SUBSET Nat, 0 \in S, \A n \in S : n + 1 \in S
  PROVE  S = Nat
<1> SUFFICES ASSUME Nat \ S # {} PROVE FALSE
  OBVIOUS
<1> DEFINE R == Nat \ S
<1>1. R \in SUBSET Nat /\ R # {}
  OBVIOUS
<1> HIDE DEF R
<1>2. PICK m \in R : \A y \in R : m <= y
  BY <1>1, LeastOfSet
<1>3. m \in Nat /\ m # 0 /\ m \notin S
  BY <1>2 DEF R
<1>4. m - 1 \in Nat /\ ~(m <= m - 1)
  BY <1>3
<1>5. m - 1 \in S
  BY <1>2, <1>4 DEF R
<1>6. (m - 1) + 1 \in S
  BY <1>5
<1> QED
  BY <1>3, <1>6

\* There are as many numbers from 1 to n as n says.
LEMMA FirstNumbers ==
  ASSUME NEW n \in Nat
  PROVE  IsFiniteSet(1..n) /\ Cardinality(1..n) = n
  BY FS_Interval

\* What the minimum of a set of natural numbers is.
LEMMA MinOfSet ==
  ASSUME NEW S \in SUBSET Nat, S # {}
  PROVE  Min(S) \in S /\ \A y \in S : Min(S) <= y
<1>1. \E m \in S : \A y \in S : m <= y
  BY LeastOfSet
<1> QED
  BY <1>1 DEF Min

\* The lesser of two numbers.
LEMMA MinOfTwo ==
  ASSUME NEW a \in Int, NEW b \in Int
  PROVE  Min({a, b}) = IF a <= b THEN a ELSE b
<1>1. \E x \in {a, b} : \A y \in {a, b} : x <= y
  OBVIOUS
<1> QED
  BY <1>1 DEF Min

\* The greater of two numbers.
LEMMA MaxOfTwo ==
  ASSUME NEW a \in Int, NEW b \in Int
  PROVE  Max({a, b}) = IF a >= b THEN a ELSE b
<1>1. \E x \in {a, b} : \A y \in {a, b} : x >= y
  OBVIOUS
<1> QED
  BY <1>1 DEF Max

\* The functions that a first value and a step define, up to a bound: there is
\* one.
Recursive(T, base, Step, m) ==
  {f \in [0..m -> T] : f[0] = base /\ \A n \in 1..m : f[n] = Step[<<f[n - 1], n>>]}

\* A first value and a step define a function up to every bound.
LEMMA Recursion ==
  ASSUME NEW T, NEW base \in T, NEW Step \in [T \X Nat -> T], NEW m \in Nat
  PROVE  Recursive(T, base, Step, m) # {}
<1> DEFINE Steps(k) == Recursive(T, base, Step, k)
           S == {k \in Nat : Steps(k) # {}}
<1>1. 0 \in S
  <2>1. [n \in 0..0 |-> base] \in Steps(0)
    BY DEF Recursive
  <2> QED
    BY <2>1
<1>2. ASSUME NEW k \in S PROVE k + 1 \in S
  <2>1. PICK f \in [0..k -> T] : f[0] = base /\ \A n \in 1..k : f[n] = Step[<<f[n - 1], n>>]
    BY <1>2 DEF Recursive
  <2> DEFINE t == Step[<<f[k], k + 1>>]
             g == [n \in 0..(k + 1) |-> IF n = k + 1 THEN t ELSE f[n]]
  <2>2. k \in Nat /\ k + 1 \in Nat
    BY <1>2
  <2>3. f[k] \in T /\ t \in T
    BY <2>1, <2>2
  <2>4. g \in [0..(k + 1) -> T]
    <3> HIDE DEF t
    <3>1. \A n \in 0..(k + 1) : n # k + 1 => n \in 0..k
      BY <2>2
    <3> QED
      BY <2>1, <2>3, <3>1
  <2>5. g[0] = base
    BY <2>1, <2>2
  <2>6. ASSUME NEW n \in 1..(k + 1) PROVE g[n] = Step[<<g[n - 1], n>>]
    <3>1. n - 1 \in 0..(k + 1) /\ n - 1 # k + 1 /\ g[n - 1] = f[n - 1]
      BY <2>2, <2>6
    <3>2. CASE n = k + 1
      BY <2>2, <3>1, <3>2
    <3>3. CASE n # k + 1
      BY <2>1, <2>2, <3>1, <3>3
    <3> QED
      BY <3>2, <3>3
  <2>7. g \in Steps(k + 1)
    <3> HIDE DEF g
    <3> QED
      BY <2>4, <2>5, <2>6 DEF Recursive
  <2> QED
    BY <2>2, <2>7
<1> HIDE DEF S
<1>3. S \in SUBSET Nat
  BY DEF S
<1>4. S = Nat
  BY <1>1, <1>2, <1>3, SetInduction
<1> QED
  BY <1>4 DEF S

-----------------------------------------------------------------------------
\* Lists: running sums and the sections that count

\* The running sums of a list of integers, as the recursion defines them.
LEMMA RunningSums ==
  ASSUME NEW s \in Seq(Int)
  PROVE  /\ RunningSum(s) \in [0..Len(s) -> Int]
         /\ RunningSum(s)[0] = 0
         /\ \A n \in 1..Len(s) : RunningSum(s)[n] = RunningSum(s)[n - 1] + s[n]
<1> DEFINE Def(f) == f = [n \in 0..Len(s) |-> IF n = 0 THEN 0 ELSE f[n - 1] + s[n]]
           Step == [p \in Int \X Nat |-> IF p[2] \in 1..Len(s) THEN p[1] + s[p[2]] ELSE p[1]]
<1>1. RunningSum(s) = CHOOSE f : Def(f)
  BY DEF RunningSum
<1>2. Len(s) \in Nat /\ \A n \in 1..Len(s) : s[n] \in Int
  OBVIOUS
<1>3. Step \in [Int \X Nat -> Int]
  BY <1>2
<1>4. \A x \in Int, n \in 1..Len(s) : Step[<<x, n>>] = x + s[n]
  BY <1>2
<1> HIDE DEF Step
<1>5. PICK g \in [0..Len(s) -> Int] :
        g[0] = 0 /\ \A n \in 1..Len(s) : g[n] = Step[<<g[n - 1], n>>]
  <2>1. Len(s) \in Nat /\ 0 \in Int
    OBVIOUS
  <2>2. Recursive(Int, 0, Step, Len(s)) # {}
    BY <1>3, <2>1, Recursion
  <2> QED
    BY <2>2 DEF Recursive
<1>6. \A n \in 1..Len(s) : g[n] = g[n - 1] + s[n]
  <2> TAKE n \in 1..Len(s)
  <2>1. n - 1 \in 0..Len(s)
    BY <1>2
  <2>2. g[n - 1] \in Int
    BY <1>5, <2>1
  <2> QED
    BY <1>4, <1>5, <2>2
<1>7. Def(g)
  <2>1. \A n \in 0..Len(s) : g[n] = IF n = 0 THEN 0 ELSE g[n - 1] + s[n]
    BY <1>2, <1>5, <1>6
  <2> QED
    BY <1>5, <2>1
<1>8. Def(RunningSum(s))
  <2> HIDE DEF Def
  <2> QED
    BY <1>1, <1>7
<1> DEFINE f == RunningSum(s)
<1> HIDE DEF f
<1>9. f = [n \in 0..Len(s) |-> IF n = 0 THEN 0 ELSE f[n - 1] + s[n]]
  BY <1>8 DEF f
<1>10. f[0] = 0 /\ \A n \in 1..Len(s) : f[n] = f[n - 1] + s[n]
  <2>1. \A n \in 0..Len(s) : f[n] = IF n = 0 THEN 0 ELSE f[n - 1] + s[n]
    BY <1>9
  <2> QED
    BY <1>2, <2>1
<1>11. f \in [0..Len(s) -> Int]
  <2> DEFINE S == {n \in Nat : n \in 0..Len(s) => f[n] \in Int}
  <2>1. 0 \in S
    BY <1>10
  <2>2. ASSUME NEW n \in S PROVE n + 1 \in S
    <3> SUFFICES ASSUME n + 1 \in 0..Len(s) PROVE f[n + 1] \in Int
      OBVIOUS
    <3>1. n \in 0..Len(s) /\ n + 1 \in 1..Len(s) /\ (n + 1) - 1 = n
      BY <1>2
    <3>2. f[n] \in Int /\ s[n + 1] \in Int
      BY <1>2, <3>1
    <3>3. f[n + 1] = f[n] + s[n + 1]
      BY <1>10, <3>1
    <3> QED
      BY <3>2, <3>3
  <2>3. S \in SUBSET Nat
    OBVIOUS
  <2> HIDE DEF S
  <2>4. S = Nat
    BY <2>1, <2>2, <2>3, SetInduction
  <2>5. \A n \in 0..Len(s) : f[n] \in Int
    BY <2>4 DEF S
  <2>6. \A n \in 0..Len(s) : (IF n = 0 THEN 0 ELSE f[n - 1] + s[n]) \in Int
    BY <1>9, <2>5
  <2> QED
    BY <1>9, <2>6
<1> QED
  BY <1>10, <1>11 DEF f

\* Lists that agree have the same sums as far as they agree.
LEMMA SumsAgree ==
  ASSUME NEW s \in Seq(Int), NEW t \in Seq(Int), NEW m \in Nat, m <= Len(s), m <= Len(t),
         \A n \in 1..m : s[n] = t[n]
  PROVE  RunningSum(s)[m] = RunningSum(t)[m]
<1> DEFINE f == RunningSum(s)
           g == RunningSum(t)
           S == {n \in Nat : n <= m => f[n] = g[n]}
<1>1. /\ f[0] = 0 /\ \A n \in 1..Len(s) : f[n] = f[n - 1] + s[n]
      /\ g[0] = 0 /\ \A n \in 1..Len(t) : g[n] = g[n - 1] + t[n]
  BY RunningSums
<1> HIDE DEF f, g
<1>2. 0 \in S
  BY <1>1
<1>3. ASSUME NEW n \in S PROVE n + 1 \in S
  <2> SUFFICES ASSUME n + 1 <= m PROVE f[n + 1] = g[n + 1]
    OBVIOUS
  <2>1. n + 1 \in 1..Len(s) /\ n + 1 \in 1..Len(t) /\ n + 1 \in 1..m /\ (n + 1) - 1 = n
    OBVIOUS
  <2>2. f[n] = g[n]
    OBVIOUS
  <2> QED
    BY <1>1, <2>1, <2>2
<1>4. S \in SUBSET Nat
  OBVIOUS
<1> HIDE DEF S
<1>5. S = Nat
  BY <1>2, <1>3, <1>4, SetInduction
<1> QED
  BY <1>5 DEF S, f, g

\* What is added up of lesser numbers is less.
LEMMA SumsOrdered ==
  ASSUME NEW s \in Seq(Int), NEW t \in Seq(Int), Len(s) = Len(t), \A n \in 1..Len(s) : s[n] <= t[n]
  PROVE  Total(s) <= Total(t)
<1> DEFINE f == RunningSum(s)
           g == RunningSum(t)
           S == {n \in Nat : n <= Len(s) => f[n] <= g[n]}
<1>1. /\ f[0] = 0 /\ \A n \in 1..Len(s) : f[n] = f[n - 1] + s[n]
      /\ g[0] = 0 /\ \A n \in 1..Len(t) : g[n] = g[n - 1] + t[n]
      /\ \A n \in 0..Len(s) : f[n] \in Int
      /\ \A n \in 0..Len(t) : g[n] \in Int
  BY RunningSums
<1>2. Len(s) \in Nat /\ \A n \in 1..Len(s) : s[n] \in Int /\ t[n] \in Int
  OBVIOUS
<1>3. Total(s) = f[Len(s)] /\ Total(t) = g[Len(s)]
  BY DEF Total
<1> HIDE DEF f, g
<1>4. 0 \in S
  BY <1>1
<1>5. ASSUME NEW n \in S PROVE n + 1 \in S
  <2> SUFFICES ASSUME n + 1 <= Len(s) PROVE f[n + 1] <= g[n + 1]
    OBVIOUS
  <2>1. n + 1 \in 1..Len(s) /\ n \in 0..Len(s) /\ (n + 1) - 1 = n /\ f[n] <= g[n]
    BY <1>2
  <2>2. f[n + 1] = f[n] + s[n + 1] /\ g[n + 1] = g[n] + t[n + 1]
    BY <1>1, <2>1
  <2>3. f[n] \in Int /\ g[n] \in Int /\ s[n + 1] \in Int /\ t[n + 1] \in Int /\ s[n + 1] <= t[n + 1]
    BY <1>1, <1>2, <2>1
  <2> QED
    BY <2>1, <2>2, <2>3
<1>6. S \in SUBSET Nat
  OBVIOUS
<1> HIDE DEF S
<1>7. S = Nat
  BY <1>4, <1>5, <1>6, SetInduction
<1> QED
  BY <1>2, <1>3, <1>7 DEF S

\* What is added up of nothing is nothing.
LEMMA SumsOfZero ==
  ASSUME NEW s \in Seq(Int), \A n \in 1..Len(s) : s[n] = 0
  PROVE  Total(s) = 0
<1> DEFINE f == RunningSum(s)
           S == {n \in Nat : n <= Len(s) => f[n] = 0}
<1>1. f[0] = 0 /\ \A n \in 1..Len(s) : f[n] = f[n - 1] + s[n]
  BY RunningSums
<1>2. Len(s) \in Nat /\ Total(s) = f[Len(s)]
  BY DEF Total
<1> HIDE DEF f
<1>3. 0 \in S
  BY <1>1
<1>4. ASSUME NEW n \in S PROVE n + 1 \in S
  <2> SUFFICES ASSUME n + 1 <= Len(s) PROVE f[n + 1] = 0
    OBVIOUS
  <2>1. n + 1 \in 1..Len(s) /\ (n + 1) - 1 = n /\ f[n] = 0
    BY <1>2
  <2> QED
    BY <1>1, <2>1
<1>5. S \in SUBSET Nat
  OBVIOUS
<1> HIDE DEF S
<1>6. S = Nat
  BY <1>3, <1>4, <1>5, SetInduction
<1> QED
  BY <1>2, <1>6 DEF S

\* What is added up of positive numbers is never negative.
LEMMA SumsNatural ==
  ASSUME NEW s \in Seq(Nat)
  PROVE  \A n \in 0..Len(s) : RunningSum(s)[n] \in Nat
<1> DEFINE f == RunningSum(s)
           S == {n \in Nat : n <= Len(s) => f[n] \in Nat}
<1>1. s \in Seq(Int) /\ Len(s) \in Nat
  OBVIOUS
<1>2. f[0] = 0 /\ \A n \in 1..Len(s) : f[n] = f[n - 1] + s[n]
  BY <1>1, RunningSums
<1> HIDE DEF f
<1>3. 0 \in S
  BY <1>2
<1>4. ASSUME NEW n \in S PROVE n + 1 \in S
  <2> SUFFICES ASSUME n + 1 <= Len(s) PROVE f[n + 1] \in Nat
    OBVIOUS
  <2>1. n + 1 \in 1..Len(s) /\ (n + 1) - 1 = n
    BY <1>1
  <2> QED
    BY <1>1, <1>2, <2>1
<1>5. S \in SUBSET Nat
  OBVIOUS
<1> HIDE DEF S
<1>6. S = Nat
  BY <1>3, <1>4, <1>5, SetInduction
<1> QED
  BY <1>1, <1>6 DEF S, f

\* The members of a list that are in a set, as the recursion defines them: they
\* make a list of members of both.
LEMMA AmongSteps ==
  ASSUME NEW M, NEW K, NEW list \in Seq(M)
  PROVE  \E f : /\ Among(list, K) = f[Len(list)]
                /\ f[0] = <<>>
                /\ \A n \in 1..Len(list) :
                     f[n] = IF list[n] \in K THEN Append(f[n - 1], list[n]) ELSE f[n - 1]
                /\ \A n \in 0..Len(list) : f[n] \in Seq(M \intersect K)
<1> DEFINE Kept(was, s) == IF s \in K THEN Append(was, s) ELSE was
           Def(f) == f = [n \in 0..Len(list) |-> IF n = 0 THEN <<>>
                            ELSE Kept(f[n - 1], list[n])]
           L == Seq(M \intersect K)
           Step == [p \in L \X Nat |-> IF p[2] \in 1..Len(list) THEN Kept(p[1], list[p[2]])
                                       ELSE p[1]]
<1>1. Among(list, K) = (CHOOSE f : Def(f))[Len(list)]
  BY DEF Among
<1>2. Len(list) \in Nat /\ \A n \in 1..Len(list) : list[n] \in M
  OBVIOUS
<1>3. ASSUME NEW was \in L, NEW s \in M PROVE Kept(was, s) \in L
  OBVIOUS
<1> HIDE DEF Kept, L
<1>4. Step \in [L \X Nat -> L]
  BY <1>2, <1>3
<1>5. \A x \in L, n \in 1..Len(list) : Step[<<x, n>>] = Kept(x, list[n])
  BY <1>2
<1> HIDE DEF Step
<1>6. <<>> \in L
  BY DEF L
<1>7. PICK g \in [0..Len(list) -> L] :
        g[0] = <<>> /\ \A n \in 1..Len(list) : g[n] = Step[<<g[n - 1], n>>]
  <2>1. Len(list) \in Nat
    OBVIOUS
  <2>2. Recursive(L, <<>>, Step, Len(list)) # {}
    BY <1>4, <1>6, <2>1, Recursion
  <2> QED
    BY <2>2 DEF Recursive
<1>8. \A n \in 1..Len(list) : g[n] = Kept(g[n - 1], list[n])
  <2> TAKE n \in 1..Len(list)
  <2>1. g[n - 1] \in L
    BY <1>2, <1>7
  <2> QED
    BY <1>5, <1>7, <2>1
<1>9. Def(g)
  <2>1. \A n \in 0..Len(list) : g[n] = IF n = 0 THEN <<>> ELSE Kept(g[n - 1], list[n])
    BY <1>2, <1>7, <1>8
  <2> QED
    BY <1>7, <2>1
<1> DEFINE f == CHOOSE f : Def(f)
<1>10. Def(f)
  <2> HIDE DEF Def
  <2> QED
    BY <1>9
<1> HIDE DEF f
<1>11. f[0] = <<>> /\ \A n \in 1..Len(list) : f[n] = Kept(f[n - 1], list[n])
  <2>1. \A n \in 0..Len(list) : f[n] = IF n = 0 THEN <<>> ELSE Kept(f[n - 1], list[n])
    BY <1>10
  <2> QED
    BY <1>2, <2>1
<1> DEFINE S == {n \in Nat : n <= Len(list) => f[n] \in L}
<1>12. 0 \in S
  BY <1>6, <1>11
<1>13. ASSUME NEW n \in S PROVE n + 1 \in S
  <2> SUFFICES ASSUME n + 1 <= Len(list) PROVE f[n + 1] \in L
    OBVIOUS
  <2>1. n + 1 \in 1..Len(list) /\ (n + 1) - 1 = n /\ f[n] \in L
    BY <1>2
  <2>2. f[n + 1] = Kept(f[n], list[n + 1])
    BY <1>11, <2>1
  <2> QED
    BY <1>2, <1>3, <2>1, <2>2
<1>14. S \in SUBSET Nat
  OBVIOUS
<1> HIDE DEF S
<1>15. S = Nat
  BY <1>12, <1>13, <1>14, SetInduction
<1>16. \A n \in 0..Len(list) : f[n] \in L
  BY <1>2, <1>15 DEF S
<1>17. Among(list, K) = f[Len(list)]
  BY <1>1 DEF f
<1>18. \A n \in 1..Len(list) : f[n] = IF list[n] \in K THEN Append(f[n - 1], list[n]) ELSE f[n - 1]
  BY <1>11 DEF Kept
<1> QED
  BY <1>11, <1>16, <1>17, <1>18 DEF L

\* The members of a list that are in a set make a list of members of both.
LEMMA AmongMembers ==
  ASSUME NEW M, NEW K, NEW list \in Seq(M)
  PROVE  Among(list, K) \in Seq(M \intersect K)
<1>1. PICK f : /\ Among(list, K) = f[Len(list)]
               /\ f[0] = <<>>
               /\ \A n \in 1..Len(list) :
                    f[n] = IF list[n] \in K THEN Append(f[n - 1], list[n]) ELSE f[n - 1]
               /\ \A n \in 0..Len(list) : f[n] \in Seq(M \intersect K)
  BY AmongSteps
<1>2. Len(list) \in 0..Len(list)
  OBVIOUS
<1> QED
  BY <1>1, <1>2

\* The ways to say where the members kept stood in the list: at every place that
\* holds one, in the same order.
StoodAt(list, K) ==
  LET a == Among(list, K)
  IN {h \in [1..Len(a) -> {i \in 1..Len(list) : list[i] \in K}] :
        /\ \A k \in 1..Len(a) : a[k] = list[h[k]]
        /\ \A k, l \in 1..Len(a) : k < l => h[k] < h[l]
        /\ \A i \in 1..Len(list) : list[i] \in K => \E k \in 1..Len(a) : h[k] = i}

\* There is one.
LEMMA AmongPlaces ==
  ASSUME NEW M, NEW K, NEW list \in Seq(M)
  PROVE  StoodAt(list, K) # {}
<1> DEFINE L == Seq(M \intersect K)
           Here(n) == {i \in 1..n : list[i] \in K}
           Maps(a, n, h) == /\ \A k \in 1..Len(a) : a[k] = list[h[k]]
                            /\ \A k, l \in 1..Len(a) : k < l => h[k] < h[l]
                            /\ \A i \in Here(n) : \E k \in 1..Len(a) : h[k] = i
           Good(a, n) == \E h \in [1..Len(a) -> Here(n)] : Maps(a, n, h)
<1>1. PICK f : /\ Among(list, K) = f[Len(list)]
               /\ f[0] = <<>>
               /\ \A n \in 1..Len(list) :
                    f[n] = IF list[n] \in K THEN Append(f[n - 1], list[n]) ELSE f[n - 1]
               /\ \A n \in 0..Len(list) : f[n] \in L
  BY AmongSteps
<1> DEFINE S == {n \in Nat : n <= Len(list) => Good(f[n], n)}
<1> HIDE DEF Good
<1>2. 0 \in S
  <2> DEFINE h == [k \in 1..0 |-> 0]
  <2>1. f[0] = <<>> /\ Len(f[0]) = 0 /\ Here(0) = {}
    BY <1>1
  <2>2. h \in [1..Len(f[0]) -> Here(0)]
    BY <2>1
  <2>3. Maps(f[0], 0, h)
    BY <2>1
  <2>4. Good(f[0], 0)
    BY <2>2, <2>3 DEF Good
  <2> QED
    BY <2>4
<1>3. ASSUME NEW n \in S PROVE n + 1 \in S
  <2> SUFFICES ASSUME n + 1 <= Len(list) PROVE Good(f[n + 1], n + 1)
    OBVIOUS
  <2> DEFINE a == f[n]
             b == f[n + 1]
             m == Len(a)
             x == list[n + 1]
  <2>1. Len(list) \in Nat /\ n \in Nat
    OBVIOUS
  <2>2. n \in 0..Len(list) /\ n + 1 \in 1..Len(list) /\ n + 1 \in 0..Len(list) /\ (n + 1) - 1 = n
    BY <2>1
  <2>3. a \in L /\ m \in Nat /\ x \in M
    BY <1>1, <2>2
  <2>4. b = IF x \in K THEN Append(a, x) ELSE a
    BY <1>1, <2>2
  <2>5. Good(a, n)
    BY <2>1, <2>2
  <2>6. Good(b, n + 1) => Good(f[n + 1], n + 1)
    OBVIOUS
  <2> HIDE DEF a, b, L, S
  <2>7. PICK h \in [1..m -> Here(n)] : Maps(a, n, h)
    BY <2>5 DEF Good
  <2>8. CASE x \notin K
    <3>1. Here(n + 1) = Here(n)
      BY <2>1, <2>8
    <3>2. b = a
      BY <2>4, <2>8
    <3>3. Maps(b, n + 1, h)
      BY <2>7, <3>1, <3>2
    <3>4. Good(b, n + 1)
      BY <2>7, <3>1, <3>2, <3>3 DEF Good
    <3> QED
      BY <2>6, <3>4
  <2>9. CASE x \in K
    <3> DEFINE g == [k \in 1..(m + 1) |-> IF k = m + 1 THEN n + 1 ELSE h[k]]
    <3>1. b = Append(a, x)
      BY <2>4, <2>9
    <3>2. Len(b) = m + 1 /\ b[m + 1] = x /\ \A k \in 1..m : b[k] = a[k]
      BY <2>3, <3>1 DEF L
    <3>3. Here(n + 1) = Here(n) \union {n + 1}
      BY <2>1, <2>9
    <3>4. \A k \in 1..(m + 1) : k # m + 1 => k \in 1..m
      BY <2>3
    <3>5. \A k \in 1..m : h[k] \in Here(n) /\ h[k] <= n /\ k \in 1..(m + 1) /\ k # m + 1
      BY <2>1, <2>3, <2>7
    <3>6. g \in [1..(m + 1) -> Here(n + 1)]
      <4>1. \A k \in 1..(m + 1) : (IF k = m + 1 THEN n + 1 ELSE h[k]) \in Here(n + 1)
        <5> HIDE DEF Here
        <5> QED
          BY <3>3, <3>4, <3>5
      <4> QED
        BY <4>1
    <3>7. \A k \in 1..(m + 1) : b[k] = list[g[k]]
      BY <2>7, <3>2, <3>4, <3>5
    <3>8. ASSUME NEW k \in 1..(m + 1), NEW l \in 1..(m + 1), k < l PROVE g[k] < g[l]
      <4>1. k # m + 1 /\ k \in 1..m /\ g[k] = h[k] /\ h[k] <= n
        BY <2>3, <3>4, <3>5, <3>8
      <4>2. CASE l = m + 1
        BY <2>1, <3>5, <4>1, <4>2
      <4>3. CASE l # m + 1
        BY <2>7, <3>4, <3>8, <4>1, <4>3
      <4> QED
        BY <4>2, <4>3
    <3>9. ASSUME NEW i \in Here(n + 1) PROVE \E k \in 1..(m + 1) : g[k] = i
      <4>1. CASE i = n + 1
        <5>1. m + 1 \in 1..(m + 1) /\ g[m + 1] = n + 1
          BY <2>3
        <5> QED
          BY <4>1, <5>1
      <4>2. CASE i # n + 1
        <5>1. i \in Here(n)
          BY <3>3, <3>9, <4>2
        <5>2. PICK k \in 1..m : h[k] = i
          BY <2>7, <5>1
        <5>3. k \in 1..(m + 1) /\ g[k] = i
          BY <3>5, <5>2
        <5> QED
          BY <5>3
      <4> QED
        BY <4>1, <4>2
    <3> HIDE DEF g, Here
    <3>10. Maps(b, n + 1, g)
      BY <3>2, <3>7, <3>8, <3>9
    <3>11. Good(b, n + 1)
      BY <3>2, <3>6, <3>10 DEF Good
    <3> QED
      BY <2>6, <3>11
  <2> QED
    BY <2>8, <2>9
<1>4. S \in SUBSET Nat
  OBVIOUS
<1> HIDE DEF S
<1>5. S = Nat
  BY <1>2, <1>3, <1>4, SetInduction
<1>6. Good(f[Len(list)], Len(list))
  <2>1. Len(list) \in Nat
    OBVIOUS
  <2> QED
    BY <1>5, <2>1 DEF S
<1> DEFINE a == Among(list, K)
<1>7. Good(a, Len(list))
  BY <1>1, <1>6
<1> HIDE DEF a
<1>8. PICK h \in [1..Len(a) -> Here(Len(list))] : Maps(a, Len(list), h)
  BY <1>7 DEF Good
<1> QED
  BY <1>8 DEF a, StoodAt

=============================================================================
