--------------------------- MODULE BlueprintProofs ---------------------------
(***************************************************************************)
(* Proofs about Blueprint, for any papers, banks, requests and patterns    *)
(* its assumptions allow: PaperInv is inductive, and every property the    *)
(* run checks follows from it.  Of a paper built: PaperSound, MixHonoured, *)
(* PlanCoversRequest and SupplyNeverUnderstated, from what the operators   *)
(* of PaperPlan return (targets add up and reach what was asked for, a     *)
(* choice takes of each difficulty what its target calls for or all there  *)
(* is).  Of a draft: DraftFollowsPapers, from what a median and a mode     *)
(* make of one misprint and of another order, and from how the sightings   *)
(* of a section in several papers become one section of the draft.         *)
(***************************************************************************)
EXTENDS Blueprint, ListFacts

\* The sections kept have a count above 0.
Counted == {s \in Section : s.count > 0}

\* The sections a paper is planned from are the pattern's, each with a count.
LEMMA UsableSections ==
  ASSUME NEW list \in Seq(Section)
  PROVE  Usable(list) \in Seq(Counted)
<1> DEFINE K == {s \in Range(list) : s.count > 0 /\ s.subject # "none"}
<1>1. Usable(list) = Among(list, K)
  BY DEF Usable
<1>2. Section \intersect K \subseteq Counted
  BY DEF Counted
<1> HIDE DEF K
<1>3. Among(list, K) \in Seq(Section \intersect K)
  BY AmongMembers
<1>4. \A l \in Seq(Section \intersect K) : l \in Seq(Counted)
  BY <1>2
<1> QED
  BY <1>1, <1>3, <1>4

-----------------------------------------------------------------------------
\* The sections' targets

\* A mix in whole percents, and a section's target.
Percent == {m \in Shares : m.easy + m.medium + m.hard = 100}
Plan == [subject : Heading, mix : Percent, want : Nat]

\* A share of a whole, in whole percents.
LEMMA SharePercent ==
  ASSUME NEW n \in Nat, NEW all \in Nat, all > 0, n <= all
  PROVE  (100 * n) \div all \in Nat /\ ((100 * n) \div all) * all <= 100 * n
  OBVIOUS

\* Every type of paper has a mix in percent.
LEMMA DefaultPercent ==
  ASSUME NEW type
  PROVE  DefaultMixFor(type) \in Percent
<1>1. MixOf(60, 35, 5) \in Percent /\ MixOf(10, 35, 55) \in Percent
  BY DEF MixOf, Percent, Shares
<1>2. MixOf(55, 40, 5) \in Percent /\ MixOf(30, 50, 20) \in Percent
  BY DEF MixOf, Percent, Shares
<1>3. \/ DefaultMixFor(type) = MixOf(60, 35, 5) \/ DefaultMixFor(type) = MixOf(10, 35, 55)
      \/ DefaultMixFor(type) = MixOf(55, 40, 5) \/ DefaultMixFor(type) = MixOf(30, 50, 20)
  <2> DEFINE a == MixOf(60, 35, 5)
             b == MixOf(10, 35, 55)
             c == MixOf(55, 40, 5)
             d == MixOf(30, 50, 20)
  <2>1. DefaultMixFor(type) = CASE type = "easy" -> a [] type = "tough" -> b [] type = "speed" -> c
                                [] OTHER -> d
    BY DEF DefaultMixFor
  <2> HIDE DEF a, b, c, d
  <2>2. DefaultMixFor(type) \in {a, b, c, d}
    BY <2>1
  <2> QED
    BY <2>2 DEF a, b, c, d
<1> QED
  BY <1>1, <1>2, <1>3

\* A mix, whatever its shares, is normalised to a hundred percent in all.
LEMMA NormalizedPercent ==
  ASSUME NEW m \in Shares
  PROVE  Normalized(m) \in Percent
<1> DEFINE sum == m.easy + m.medium + m.hard
           e == (100 * m.easy) \div sum
           d == (100 * m.medium) \div sum
<1>1. m.easy \in Nat /\ m.medium \in Nat /\ m.hard \in Nat /\ sum \in Nat
  BY DEF Shares
<1>2. CASE sum <= 0
  BY <1>2, DefaultPercent DEF Normalized, DefaultMix
<1>3. CASE sum = 100
  BY <1>3 DEF Normalized, Percent
<1>4. CASE sum > 0 /\ sum # 100
  <2>1. e \in Nat /\ e * sum <= 100 * m.easy /\ d \in Nat /\ d * sum <= 100 * m.medium
    <3>1. m.easy <= sum /\ m.medium <= sum
      BY <1>1
    <3> HIDE DEF sum
    <3> QED
      BY <1>1, <1>4, <3>1, SharePercent
  <2>2. 100 * m.easy + 100 * m.medium <= 100 * sum
    BY <1>1
  <2> HIDE DEF e, d
  <2>3. (e + d) * sum <= 100 * sum
    <3> HIDE DEF sum
    <3>1. (e + d) * sum = e * sum + d * sum
      BY <1>1, <2>1
    <3> QED
      BY <1>1, <2>1, <2>2, <3>1
  <2>4. e + d <= 100
    <3> HIDE DEF sum
    <3> SUFFICES ASSUME e + d >= 101 PROVE FALSE
      BY <2>1
    <3>1. (e + d) * sum >= 101 * sum
      BY <1>1, <2>1
    <3> QED
      BY <1>1, <1>4, <2>1, <2>3, <3>1
  <2>5. Normalized(m) = [easy |-> e, medium |-> d, hard |-> 100 - e - d]
    BY <1>1, <1>4 DEF Normalized, e, d
  <2> QED
    BY <2>1, <2>4, <2>5 DEF Percent, Shares
<1> QED
  BY <1>1, <1>2, <1>3, <1>4

\* So is the mix a section gets, the request's, its own or the balanced one.
LEMMA MixForPercent ==
  ASSUME NEW r \in Asked, NEW s \in Section
  PROVE  MixFor(r, s) \in Percent
<1>1. r.mix # <<>> => r.mix \in Shares
  BY DEF Asked
<1>2. s.mix # <<>> => s.mix \in Shares
  BY DEF Section
<1>3. DefaultMixFor(r.type) \in Percent
  BY DefaultPercent
<1> QED
  BY <1>1, <1>2, <1>3, NormalizedPercent DEF MixFor

\* A share is rounded to a whole number.
LEMMA RoundShareType ==
  ASSUME NEW a \in Int, NEW b \in Nat, b > 0
  PROVE  RoundShare(a, b) \in Int
  BY DEF RoundShare

\* What the pattern asks for, and what each section is scaled to.
LEMMA ScaledSections ==
  ASSUME NEW r \in Asked, NEW u \in Seq(Counted)
  PROVE  /\ PatternTotal(u) \in Nat /\ Target(r, u) \in Int
         /\ u # <<>> => PatternTotal(u) > 0
         /\ Scaled(r, u) \in Seq(Nat) /\ Len(Scaled(r, u)) = Len(u)
         /\ \A i \in 1..Len(u) : Scaled(r, u)[i] >= 1
         /\ Target(r, u) = PatternTotal(u) => Scaled(r, u) = [i \in DOMAIN u |-> u[i].count]
<1> DEFINE counts == [i \in DOMAIN u |-> u[i].count]
<1>1. Len(u) \in Nat /\ DOMAIN u = 1..Len(u)
  OBVIOUS
<1>2. \A i \in 1..Len(u) : u[i].count \in Nat /\ u[i].count >= 1
  <2>1. \A i \in 1..Len(u) : u[i] \in Counted
    OBVIOUS
  <2> QED
    BY <2>1 DEF Counted, Section
<1>3. counts \in Seq(Nat) /\ Len(counts) = Len(u)
  BY <1>1, <1>2
<1>4. counts \in Seq(Int)
  BY <1>3
<1>5. PatternTotal(u) = RunningSum(counts)[Len(u)]
  BY <1>3 DEF PatternTotal, Total
<1>6. \A i \in 1..Len(u) : counts[i] = u[i].count
  BY <1>1
<1> HIDE DEF counts
<1>7. \A n \in 0..Len(u) : RunningSum(counts)[n] \in Nat
  BY <1>3, SumsNatural
<1>8. \A n \in 1..Len(u) : RunningSum(counts)[n] = RunningSum(counts)[n - 1] + counts[n]
  BY <1>3, <1>4, RunningSums
<1>9. PatternTotal(u) \in Nat
  BY <1>1, <1>5, <1>7
<1>10. u # <<>> => PatternTotal(u) > 0
  <2> SUFFICES ASSUME u # <<>> PROVE PatternTotal(u) > 0
    OBVIOUS
  <2>1. Len(u) \in 1..Len(u) /\ Len(u) - 1 \in 0..Len(u)
    OBVIOUS
  <2>2. /\ PatternTotal(u) = RunningSum(counts)[Len(u) - 1] + u[Len(u)].count
        /\ RunningSum(counts)[Len(u) - 1] \in Nat
    BY <1>5, <1>6, <1>7, <1>8, <2>1
  <2> QED
    BY <1>2, <2>1, <2>2
<1>11. Target(r, u) \in Int
  BY <1>9 DEF Target, Asked
<1>12. ASSUME NEW i \in 1..Len(u)
       PROVE  LET x == IF Target(r, u) = PatternTotal(u) THEN u[i].count
                       ELSE Max({1, RoundShare(u[i].count * Target(r, u), PatternTotal(u))})
              IN x \in Nat /\ x >= 1
  <2>1. u # <<>>
    BY <1>12
  <2>2. u[i].count * Target(r, u) \in Int
    BY <1>2, <1>11
  <2>3. RoundShare(u[i].count * Target(r, u), PatternTotal(u)) \in Int
    BY <1>9, <1>10, <2>1, <2>2, RoundShareType
  <2> QED
    BY <1>2, <2>3, MaxOfTwo
<1> DEFINE x(i) == IF Target(r, u) = PatternTotal(u) THEN u[i].count
                   ELSE Max({1, RoundShare(u[i].count * Target(r, u), PatternTotal(u))})
<1>13. Scaled(r, u) = [i \in 1..Len(u) |-> x(i)] /\ \A i \in 1..Len(u) : x(i) \in Nat /\ x(i) >= 1
  BY <1>1, <1>12 DEF Scaled
<1> HIDE DEF x
<1>14. /\ Scaled(r, u) \in Seq(Nat) /\ Len(Scaled(r, u)) = Len(u)
       /\ \A i \in 1..Len(u) : Scaled(r, u)[i] >= 1
  BY <1>1, <1>13
<1>15. Target(r, u) = PatternTotal(u) => Scaled(r, u) = counts
  BY DEF Scaled, counts
<1> QED
  BY <1>9, <1>10, <1>11, <1>14, <1>15 DEF counts

\* Rounding adds less than one.
LEMMA RoundShareBound ==
  ASSUME NEW a \in Int, NEW b \in Nat, b > 0
  PROVE  b * RoundShare(a, b) <= a + b
<1> DEFINE q == RoundShare(a, b)
<1>1. q \in Int /\ q = (2 * a + b) \div (2 * b)
  BY RoundShareType DEF RoundShare
<1>2. (2 * b) * ((2 * a + b) \div (2 * b)) <= 2 * a + b
  OBVIOUS
<1>3. (2 * b) * q <= 2 * a + b
  BY <1>1, <1>2
<1> HIDE DEF q
<1>4. (2 * b) * q = 2 * (b * q) /\ b * q \in Int
  BY <1>1
<1> QED
  BY <1>3, <1>4 DEF q

\* A product with a positive factor keeps an order.
LEMMA Cancel ==
  ASSUME NEW a \in Nat, a > 0, NEW x \in Int, NEW y \in Int, a * x <= a * y
  PROVE  x <= y
<1> SUFFICES ASSUME x >= y + 1 PROVE FALSE
  OBVIOUS
<1> DEFINE d == x - (y + 1)
<1>1. d \in Nat /\ x = y + 1 + d
  OBVIOUS
<1> HIDE DEF d
<1>2. a * x = a * y + a + a * d
  BY <1>1
<1>3. a * d \in Nat /\ a * x \in Int /\ a * y \in Int
  BY <1>1
<1> QED
  BY <1>2, <1>3

\* Scaled, a section gets less than one more than its share, and the sections up to
\* any one less than one more each.
LEMMA ScaledShares ==
  ASSUME NEW r \in Asked, NEW u \in Seq(Counted), u # <<>>, Target(r, u) # PatternTotal(u),
         NEW n \in 0..Len(u)
  PROVE  PatternTotal(u) * RunningSum(Scaled(r, u))[n]
           <= Target(r, u) * RunningSum([i \in DOMAIN u |-> u[i].count])[n] + PatternTotal(u) * n
<1> DEFINE counts == [i \in DOMAIN u |-> u[i].count]
           scaled == Scaled(r, u)
           t == Target(r, u)
           all == PatternTotal(u)
           f == RunningSum(scaled)
           g == RunningSum(counts)
           S == {m \in Nat : m <= Len(u) => all * f[m] <= t * g[m] + all * m}
<1>1. Len(u) \in Nat /\ DOMAIN u = 1..Len(u)
  OBVIOUS
<1>2. all \in Nat /\ all > 0 /\ t \in Int /\ scaled \in Seq(Nat) /\ Len(scaled) = Len(u)
  BY ScaledSections
<1>3. t > 0
  BY DEF Target, Asked
<1>4. \A i \in 1..Len(u) : u[i].count \in Nat /\ u[i].count >= 1
  <2>1. \A i \in 1..Len(u) : u[i] \in Counted
    OBVIOUS
  <2> QED
    BY <2>1 DEF Counted, Section
<1>5. counts \in Seq(Int) /\ Len(counts) = Len(u) /\ \A i \in 1..Len(u) : counts[i] = u[i].count
  BY <1>1, <1>4
<1>6. \A i \in 1..Len(u) : scaled[i] = Max({1, RoundShare(u[i].count * t, all)})
  BY <1>1 DEF Scaled
<1>7. scaled \in Seq(Int)
  BY <1>2
<1> HIDE DEF counts, scaled, t, all
<1>8. /\ f \in [0..Len(u) -> Int] /\ f[0] = 0 /\ \A m \in 1..Len(u) : f[m] = f[m - 1] + scaled[m]
      /\ g \in [0..Len(u) -> Int] /\ g[0] = 0 /\ \A m \in 1..Len(u) : g[m] = g[m - 1] + counts[m]
  BY <1>2, <1>5, <1>7, RunningSums
<1> HIDE DEF f, g
<1>9. ASSUME NEW i \in 1..Len(u) PROVE all * scaled[i] <= t * counts[i] + all
  <2> DEFINE c == u[i].count
             a == c * t
             x == RoundShare(a, all)
  <2>1. c \in Nat /\ counts[i] = c /\ scaled[i] = Max({1, x}) /\ x = RoundShare(a, all)
    BY <1>4, <1>5, <1>6
  <2> HIDE DEF c, x
  <2>2. a \in Nat /\ a = t * c
    BY <1>2, <1>3, <2>1
  <2> HIDE DEF a
  <2>3. x \in Int
    BY <1>2, <2>1, <2>2, RoundShareType
  <2>4. all * x <= a + all
    BY <1>2, <2>1, <2>2, RoundShareBound
  <2>5. Max({1, x}) \in {1, x}
    BY <2>3, MaxOfTwo
  <2>6. CASE scaled[i] = 1
    BY <1>2, <2>1, <2>2, <2>6
  <2>7. CASE scaled[i] = x
    BY <1>2, <2>1, <2>2, <2>4, <2>7
  <2> QED
    BY <2>1, <2>5, <2>6, <2>7
<1>10. 0 \in S
  BY <1>2, <1>8
<1>11. ASSUME NEW m \in S PROVE m + 1 \in S
  <2> SUFFICES ASSUME m + 1 <= Len(u) PROVE all * f[m + 1] <= t * g[m + 1] + all * (m + 1)
    OBVIOUS
  <2>1. m \in Nat /\ m \in 0..Len(u) /\ m + 1 \in 1..Len(u) /\ (m + 1) - 1 = m
    OBVIOUS
  <2>2. all * f[m] <= t * g[m] + all * m
    OBVIOUS
  <2>3. f[m + 1] = f[m] + scaled[m + 1] /\ g[m + 1] = g[m] + counts[m + 1]
    BY <1>8, <2>1
  <2> DEFINE fm == f[m]
             gm == g[m]
             sm == scaled[m + 1]
             cm == counts[m + 1]
             af == all * fm
             sa == all * sm
             tg == t * gm
             tc == t * cm
             am == all * m
  <2>4. fm \in Int /\ gm \in Int
    BY <1>8, <2>1
  <2>5. sm \in Int
    BY <1>2, <2>1
  <2>6. cm \in Int
    BY <1>4, <1>5, <2>1
  <2>7. sa <= tc + all
    BY <1>9, <2>1
  <2>8. af <= tg + am
    BY <2>2
  <2>9. f[m + 1] = fm + sm /\ g[m + 1] = gm + cm
    BY <2>3
  <2> HIDE DEF S, fm, gm, sm, cm
  <2>10. all * (fm + sm) = af + sa
    BY <1>2, <2>4, <2>5
  <2>11. t * (gm + cm) = tg + tc
    BY <1>2, <2>4, <2>6
  <2>12. all * (m + 1) = am + all
    BY <1>2, <2>1
  <2>13. af \in Int /\ sa \in Int
    BY <1>2, <2>4, <2>5
  <2>14. tg \in Int /\ tc \in Int
    BY <1>2, <2>4, <2>6
  <2>15. am \in Int
    BY <1>2, <2>1
  <2>16. af + sa <= tg + tc + (am + all)
    <3>1. all \in Int
      BY <1>2
    <3>2. \A a, b, c, d, e, k \in Int : a <= c + d /\ b <= e + k => a + b <= c + e + (d + k)
      OBVIOUS
    <3> HIDE DEF af, sa, tg, tc, am
    <3>3. sa \in Int /\ af \in Int /\ tc \in Int /\ tg \in Int /\ am \in Int
      BY <2>13, <2>14, <2>15
    <3>4. af <= tg + am /\ sa <= tc + all
      BY <2>7, <2>8
    <3> QED
      BY Zenon, <3>1, <3>2, <3>3, <3>4
  <2> HIDE DEF af, sa, tg, tc, am
  <2>17. all * f[m + 1] = af + sa
    BY Zenon, <2>9, <2>10
  <2>18. t * g[m + 1] = tg + tc
    BY Zenon, <2>9, <2>11
  <2> QED
    BY Zenon, <2>12, <2>16, <2>17, <2>18
<1>12. S \in SUBSET Nat
  OBVIOUS
<1> HIDE DEF S
<1>13. S = Nat
  BY <1>10, <1>11, <1>12, SetInduction
<1>14. all * f[n] <= t * g[n] + all * n
  BY <1>1, <1>13 DEF S
<1> QED
  BY <1>14 DEF S, f, g, all, t, scaled, counts

\* The sections before the last leave it at least its share, but for their rounding.
LEMMA ScaledBefore ==
  ASSUME NEW r \in Asked, NEW u \in Seq(Counted), Len(u) > 0, Target(r, u) # PatternTotal(u)
  PROVE  RunningSum(Scaled(r, u))[Len(u) - 1] < Target(r, u) + Len(u)
<1> DEFINE counts == [i \in DOMAIN u |-> u[i].count]
           n == Len(u) - 1
           t == Target(r, u)
           all == PatternTotal(u)
           f == RunningSum(Scaled(r, u))[n]
           g == RunningSum(counts)[n]
<1>1. n \in Nat /\ n + 1 = Len(u) /\ n + 1 \in 1..Len(u) /\ n \in 0..Len(u) /\ DOMAIN u = 1..Len(u) /\ u # <<>>
  OBVIOUS
<1>2. all \in Nat /\ all > 0 /\ t \in Int /\ Scaled(r, u) \in Seq(Nat) /\ Len(Scaled(r, u)) = Len(u)
  BY <1>1, ScaledSections
<1>3. t > 0
  BY DEF Target, Asked
<1>4. counts \in Seq(Int) /\ Len(counts) = Len(u) /\ \A i \in 1..Len(u) : counts[i] \in Nat
  <2>1. \A i \in 1..Len(u) : u[i] \in Counted
    OBVIOUS
  <2> QED
    BY <1>1, <2>1 DEF Counted, Section
<1>5. Scaled(r, u) \in Seq(Int)
  BY <1>2
<1>6. all = RunningSum(counts)[Len(u)]
  BY <1>1 DEF PatternTotal, Total
<1>7. all * f <= t * g + all * n
  BY <1>1, ScaledShares
<1> HIDE DEF counts, all, t, n
<1>8. f \in Int
  BY <1>1, <1>2, <1>5, RunningSums
<1>9. g \in Int /\ all = g + counts[n + 1]
  BY <1>1, <1>4, <1>6, RunningSums
<1>10. g <= all
  BY <1>1, <1>2, <1>4, <1>9
<1> HIDE DEF f, g
<1>11. t * g <= t * all
  <2> DEFINE d == all - g
  <2>1. d \in Nat /\ all = g + d
    BY <1>2, <1>9, <1>10
  <2> HIDE DEF d
  <2>2. t * all = t * g + t * d
    BY <1>2, <1>9, <2>1
  <2>3. t * d \in Nat /\ t * g \in Int
    BY <1>2, <1>3, <1>9, <2>1
  <2> QED
    BY <2>2, <2>3
<1>12. all * (t + n) = t * all + all * n
  BY <1>1, <1>2
<1>13. all * f \in Int /\ t * g \in Int /\ all * n \in Int /\ t * all \in Int /\ t + n \in Int
  BY <1>1, <1>2, <1>8, <1>9
<1>14. all * f <= all * (t + n)
  BY <1>7, <1>11, <1>12, <1>13
<1>15. f <= t + n
  BY <1>2, <1>8, <1>13, <1>14, Cancel
<1> QED
  BY <1>1, <1>2, <1>8, <1>15 DEF f, t, n

\* What the sections are to have in the end: the last alone may be left nothing,
\* and together they reach the size asked for; if they go beyond it, the last is left
\* nothing, and they do so by fewer than there are sections.
LEMMA WantsCover ==
  ASSUME NEW r \in Asked, NEW u \in Seq(Counted)
  PROVE  /\ Wants(r, u) \in Seq(Nat) /\ Len(Wants(r, u)) = Len(u)
         /\ \A i \in 1..(Len(u) - 1) : Wants(r, u)[i] >= 1
         /\ u # <<>> => LET sum == RunningSum(Wants(r, u))[Len(u)] IN
                           /\ sum >= Target(r, u) /\ sum < Target(r, u) + Len(u)
                           /\ sum > Target(r, u) => Wants(r, u)[Len(u)] = 0
<1> DEFINE n == Len(u)
           scaled == Scaled(r, u)
           t == Target(r, u)
           all == PatternTotal(u)
           before == RunningSum(scaled)[n - 1]
           w == Wants(r, u)
<1>1. n \in Nat /\ DOMAIN u = 1..n
  OBVIOUS
<1>2. /\ all \in Nat /\ t \in Int
      /\ scaled \in Seq(Nat) /\ Len(scaled) = n
      /\ \A i \in 1..n : scaled[i] >= 1
      /\ t = all => scaled = [i \in DOMAIN u |-> u[i].count]
  BY ScaledSections
<1>3. w = [i \in DOMAIN u |-> IF i = n /\ t # all THEN Max({0, t - before}) ELSE scaled[i]]
  BY DEF Wants
<1>4. scaled \in Seq(Int) /\ \A i \in 1..n : scaled[i] \in Nat
  BY <1>2
<1>5. n > 0 => before \in Nat
  <2> HIDE DEF scaled
  <2>1. \A i \in 0..n : RunningSum(scaled)[i] \in Nat
    BY <1>2, SumsNatural
  <2> QED
    BY <1>1, <2>1
<1>6. PatternTotal(u) = RunningSum([i \in DOMAIN u |-> u[i].count])[n]
  BY <1>1 DEF PatternTotal, Total
<1> HIDE DEF n, scaled, t, all, before, w
<1>7. n > 0 => /\ Max({0, t - before}) \in Nat
               /\ Max({0, t - before}) = IF 0 >= t - before THEN 0 ELSE t - before
  BY <1>2, <1>5, MaxOfTwo
<1> DEFINE x(i) == IF i = n /\ t # all THEN Max({0, t - before}) ELSE scaled[i]
<1>8. w \in Seq(Nat) /\ Len(w) = n /\ \A i \in 1..n : w[i] = x(i)
  <2>1. \A i \in 1..n : x(i) \in Nat
    BY <1>1, <1>4, <1>7
  <2>2. w = [i \in 1..n |-> x(i)]
    BY <1>1, <1>3
  <2> HIDE DEF x
  <2> QED
    BY <1>1, <2>1, <2>2
<1>9. \A i \in 1..(n - 1) : w[i] >= 1
  BY <1>1, <1>2, <1>8
<1>10. w \in Seq(Int)
  BY <1>8
<1> DEFINE sum == RunningSum(w)[n]
<1>11. ASSUME n > 0 PROVE sum >= t /\ sum < t + n /\ (sum > t => w[n] = 0)
  <2>1. CASE t = all
    <3>1. w = [i \in DOMAIN u |-> scaled[i]]
      BY <1>3, <2>1
    <3>2. w = [i \in DOMAIN u |-> u[i].count]
      BY <1>1, <1>2, <2>1, <3>1
    <3>3. sum = t
      BY <1>6, <2>1, <3>2 DEF all
    <3> QED
      BY <1>1, <1>2, <1>11, <3>3
  <2>2. CASE t # all
    <3>1. n \in 1..n /\ n - 1 \in Nat /\ n - 1 <= Len(w) /\ n - 1 <= Len(scaled)
      BY <1>1, <1>2, <1>8, <1>11
    <3>2. \A i \in 1..(n - 1) : w[i] = scaled[i]
      BY <1>1, <1>8
    <3>3. RunningSum(w)[n - 1] = before
      BY <1>4, <1>10, <3>1, <3>2, SumsAgree DEF before
    <3>4. RunningSum(w)[n] = RunningSum(w)[n - 1] + w[n]
      BY <1>8, <1>10, <3>1, RunningSums
    <3>5. w[n] = Max({0, t - before})
      BY <1>8, <2>2, <3>1
    <3>6. before < t + n
      BY <1>11, <2>2, ScaledBefore DEF before, scaled, t, all, n
    <3> QED
      BY <1>1, <1>2, <1>5, <1>7, <1>11, <3>3, <3>4, <3>5, <3>6
  <2> QED
    BY <2>1, <2>2
<1>12. u # <<>> => n > 0
  BY DEF n
<1> HIDE DEF x
<1> QED
  BY <1>8, <1>9, <1>11, <1>12 DEF n, t, w, sum

\* There is a target for every usable section, of a mix in percent and the size wanted.
LEMMA PlansTyped ==
  ASSUME NEW r \in Asked, NEW list \in Seq(Section)
  PROVE  /\ ScaleSections(r, list) \in Seq(Plan)
         /\ Len(ScaleSections(r, list)) = Len(Usable(list))
         /\ [i \in DOMAIN ScaleSections(r, list) |-> ScaleSections(r, list)[i].want]
              = Wants(r, Usable(list))
<1> DEFINE u == Usable(list)
           p == ScaleSections(r, list)
<1>1. u \in Seq(Counted)
  BY UsableSections
<1>2. p = [i \in DOMAIN u |-> [subject |-> u[i].subject, mix |-> MixFor(r, u[i]),
                               want |-> Wants(r, u)[i]]]
  BY DEF ScaleSections
<1>3. Wants(r, u) \in Seq(Nat) /\ Len(Wants(r, u)) = Len(u)
  BY <1>1, WantsCover
<1> HIDE DEF u, p
<1>4. ASSUME NEW i \in 1..Len(u)
      PROVE  [subject |-> u[i].subject, mix |-> MixFor(r, u[i]), want |-> Wants(r, u)[i]] \in Plan
  <2>1. u[i] \in Counted
    BY <1>1
  <2>2. u[i] \in Section /\ u[i].subject \in Heading
    BY <2>1 DEF Counted, Section
  <2>3. MixFor(r, u[i]) \in Percent
    BY <2>2, MixForPercent
  <2>4. Wants(r, u)[i] \in Nat
    BY <1>3
  <2> QED
    BY <2>2, <2>3, <2>4 DEF Plan
<1>5. p \in Seq(Plan) /\ Len(p) = Len(u) /\ DOMAIN p = 1..Len(u)
  BY <1>1, <1>2, <1>4
<1>6. \A i \in 1..Len(u) : p[i].want = Wants(r, u)[i]
  BY <1>1, <1>2
<1>7. [i \in DOMAIN p |-> p[i].want] = Wants(r, u)
  BY <1>3, <1>5, <1>6
<1> QED
  BY <1>5, <1>7 DEF u, p

-----------------------------------------------------------------------------
\* Filling a section

Counts == [Difficulty -> Nat]

\* A part of a section's size in percent.
LEMMA PartOf ==
  ASSUME NEW w \in Nat, NEW n \in Nat
  PROVE  (w * n) \div 100 \in Nat /\ 100 * ((w * n) \div 100) <= w * n
<1>1. w * n \in Nat
  OBVIOUS
<1> DEFINE x == w * n
<1> HIDE DEF x
<1>2. x \in Nat
  BY <1>1 DEF x
<1>3. x \div 100 \in Nat /\ 100 * (x \div 100) <= x
  BY <1>2
<1> QED
  BY <1>3 DEF x

\* A section's targets by difficulty are none of them negative and add up to its size.
LEMMA TargetsFit ==
  ASSUME NEW p \in Plan
  PROVE  /\ \A d \in Difficulty : Targets(p)[d] \in Nat
         /\ Targets(p)["easy"] + Targets(p)["medium"] + Targets(p)["hard"] = p.want
<1> DEFINE w == p.want
           e == p.mix.easy
           h == p.mix.hard
           x == (w * e) \div 100
           y == (w * h) \div 100
<1>1. p.mix \in Shares /\ w \in Nat /\ p.mix.easy + p.mix.medium + p.mix.hard = 100
  BY DEF Plan, Percent
<1>2. e \in Nat /\ h \in Nat /\ e + h <= 100
  BY <1>1 DEF Shares
<1>3. Targets(p) = [easy |-> x, hard |-> y, medium |-> w - x - y]
  BY DEF Targets
<1> HIDE DEF w, e, h
<1>4. x \in Nat /\ y \in Nat /\ 100 * x <= w * e /\ 100 * y <= w * h
  BY <1>1, <1>2, PartOf
<1>5. w * e + w * h <= w * 100
  <2>1. w * e + w * h = w * (e + h)
    BY <1>1, <1>2
  <2>2. w * (e + h) <= w * 100
    BY <1>1, <1>2
  <2>3. w * e \in Int /\ w * h \in Int /\ w * (e + h) \in Int
    BY <1>1, <1>2
  <2> QED
    BY <2>1, <2>2
<1> HIDE DEF x, y
<1>6. x + y <= w
  <2> DEFINE we == w * e
             wh == w * h
  <2>1. we \in Int /\ wh \in Int
    BY <1>1, <1>2
  <2>2. 100 * x <= we /\ 100 * y <= wh /\ we + wh <= w * 100
    BY <1>4, <1>5
  <2> HIDE DEF we, wh
  <2> QED
    BY <1>1, <1>4, <2>1, <2>2
<1> QED
  BY <1>1, <1>3, <1>4, <1>6 DEF Difficulty, w

\* Of n turns each difficulty has had its share, and the next turn is one's.
LEMMA TurnsShared ==
  ASSUME NEW n \in Nat
  PROVE  /\ \A d \in Difficulty : Turns(n)[d] \in Nat /\ Turns(n)[d] <= Turns(n + 1)[d]
         /\ Turns(n)["easy"] + Turns(n)["medium"] + Turns(n)["hard"] = n
         /\ n = 0 => \A d \in Difficulty : Turns(n)[d] = 0
<1> DEFINE m == (n + 2) \div 3
           e == (n + 1) \div 3
           h == n \div 3
           m1 == ((n + 1) + 2) \div 3
           e1 == ((n + 1) + 1) \div 3
           h1 == (n + 1) \div 3
<1>1. /\ Turns(n) = [medium |-> m, easy |-> e, hard |-> h]
      /\ Turns(n + 1) = [medium |-> m1, easy |-> e1, hard |-> h1]
  BY DEF Turns
<1>2. /\ m \in Nat /\ e \in Nat /\ h \in Nat /\ m <= m1 /\ e <= e1 /\ h <= h1
      /\ m + e + h = n
      /\ n = 0 => m = 0 /\ e = 0 /\ h = 0
  OBVIOUS
<1> HIDE DEF m, e, h, m1, e1, h1
<1> QED
  BY <1>1, <1>2 DEF Difficulty

\* A bucket that has its share of the turns of enough rounds has as many.
LEMMA Rounds ==
  ASSUME NEW n \in Nat
  PROVE  \A d \in Difficulty : Turns(3 * n)[d] = n
<1> DEFINE m == ((3 * n) + 2) \div 3
           e == ((3 * n) + 1) \div 3
           h == (3 * n) \div 3
<1>1. Turns(3 * n) = [medium |-> m, easy |-> e, hard |-> h]
  BY DEF Turns
<1>2. m = n /\ e = n /\ h = n
  OBVIOUS
<1> HIDE DEF m, e, h
<1> QED
  BY <1>1, <1>2 DEF Difficulty

\* What is taken of each bucket after n turns.
LEMMA AfterTurns ==
  ASSUME NEW size \in Counts, NEW first \in Counts, \A d \in Difficulty : first[d] <= size[d],
         NEW n \in Nat
  PROVE  /\ After(size, first, n) \in Counts
         /\ \A d \in Difficulty :
              After(size, first, n)[d] = IF size[d] <= first[d] + Turns(n)[d] THEN size[d]
                                         ELSE first[d] + Turns(n)[d]
         /\ SumOf(After(size, first, n)) \in Nat
<1>1. \A d \in Difficulty : Turns(n)[d] \in Nat
  BY TurnsShared
<1>2. \A d \in Difficulty : size[d] \in Nat /\ first[d] \in Nat
  BY DEF Counts
<1>3. \A d \in Difficulty :
        After(size, first, n)[d] = IF size[d] <= first[d] + Turns(n)[d] THEN size[d]
                                   ELSE first[d] + Turns(n)[d]
  BY <1>1, <1>2, MinOfTwo DEF After
<1>4. After(size, first, n) \in Counts
  <2>1. After(size, first, n) = [d \in Difficulty |-> After(size, first, n)[d]]
    BY DEF After
  <2>2. \A d \in Difficulty : After(size, first, n)[d] \in Nat
    BY <1>1, <1>2, <1>3
  <2> QED
    BY <2>1, <2>2 DEF Counts
<1>5. SumOf(After(size, first, n)) \in Nat
  BY <1>4 DEF Counts, SumOf, Difficulty
<1> QED
  BY <1>3, <1>4, <1>5

\* One turn adds at most one question.
LEMMA NextTurn ==
  ASSUME NEW size \in Counts, NEW first \in Counts, \A d \in Difficulty : first[d] <= size[d],
         NEW n \in Nat
  PROVE  SumOf(After(size, first, n + 1)) <= SumOf(After(size, first, n)) + 1
<1> DEFINE a == After(size, first, n)
           b == After(size, first, n + 1)
           s == Turns(n)
           t == Turns(n + 1)
<1>1. n + 1 \in Nat
  OBVIOUS
<1>2. /\ \A d \in Difficulty : s[d] \in Nat /\ s[d] <= t[d]
      /\ s["easy"] + s["medium"] + s["hard"] = n
  BY TurnsShared
<1>3. /\ \A d \in Difficulty : t[d] \in Nat
      /\ t["easy"] + t["medium"] + t["hard"] = n + 1
  BY <1>1, TurnsShared
<1>4. \A d \in Difficulty :
        a[d] = IF size[d] <= first[d] + s[d] THEN size[d] ELSE first[d] + s[d]
  BY AfterTurns
<1>5. \A d \in Difficulty :
        b[d] = IF size[d] <= first[d] + t[d] THEN size[d] ELSE first[d] + t[d]
  BY <1>1, AfterTurns
<1> HIDE DEF a, b, s, t
<1>6. \A d \in Difficulty : size[d] \in Nat /\ first[d] \in Nat
  BY DEF Counts
<1>7. \A d \in Difficulty : a[d] \in Nat /\ b[d] \in Nat /\ b[d] - a[d] <= t[d] - s[d]
  BY <1>2, <1>3, <1>4, <1>5, <1>6
<1>8. b["easy"] + b["medium"] + b["hard"] <= a["easy"] + a["medium"] + a["hard"] + 1
  BY <1>2, <1>3, <1>7 DEF Difficulty
<1> QED
  BY <1>7, <1>8 DEF SumOf, a, b

\* The turns end with as many as wanted, or with every bucket empty.
LEMMA InTurnFills ==
  ASSUME NEW size \in Counts, NEW first \in Counts, \A d \in Difficulty : first[d] <= size[d],
         NEW want \in Nat, SumOf(first) <= want
  PROVE  LET t == InTurn(size, first, want)
         IN /\ t \in Counts
            /\ \A d \in Difficulty : first[d] <= t[d] /\ t[d] <= size[d]
            /\ \/ SumOf(t) = want
               \/ SumOf(t) < want /\ \A d \in Difficulty : t[d] = size[d]
<1> DEFINE a(n) == After(size, first, n)
           E == Enough(size, first, want)
           m == Min(E)
<1>1. \A d \in Difficulty : size[d] \in Nat /\ first[d] \in Nat
  BY DEF Counts
<1>2. \A n \in Nat : SumOf(a(n)) \in Nat
  BY AfterTurns
<1>3. E = {n \in 0..(3 * want) : n = 3 * want \/ SumOf(a(n)) >= want}
  BY DEF Enough
<1>4. E \in SUBSET Nat /\ 3 * want \in E
  BY <1>3
<1>5. m \in E /\ \A y \in E : m <= y
  <2> HIDE DEF E
  <2>1. E # {}
    BY <1>4
  <2> QED
    BY <1>4, <2>1, MinOfSet
<1>6. InTurn(size, first, want) = a(m)
  BY DEF InTurn
<1> HIDE DEF E, m
<1>7. m \in Nat
  BY <1>4, <1>5
<1>8. a(m) \in Counts /\ \A d \in Difficulty :
        a(m)[d] = IF size[d] <= first[d] + Turns(m)[d] THEN size[d] ELSE first[d] + Turns(m)[d]
  BY <1>7, AfterTurns
<1>9. \A d \in Difficulty : Turns(m)[d] \in Nat
  BY <1>7, TurnsShared
<1>10. \A d \in Difficulty : first[d] <= a(m)[d] /\ a(m)[d] <= size[d]
  <2> HIDE DEF a
  <2> QED
    BY <1>1, <1>8, <1>9
<1>11. SumOf(a(m)) <= want
  <2>1. CASE m = 0
    <3>1. \A d \in Difficulty : Turns(m)[d] = 0
      BY <1>7, <2>1, TurnsShared
    <3>2. \A d \in Difficulty : a(m)[d] = first[d]
      <4> HIDE DEF a
      <4> QED
        BY <1>1, <1>8, <3>1
    <3> QED
      BY <3>2 DEF SumOf, Difficulty
  <2>2. CASE m # 0
    <3>1. m - 1 \in Nat /\ m - 1 < m /\ (m - 1) + 1 = m
      BY <1>7, <2>2
    <3>2. m - 1 \notin E
      BY <1>5, <1>7, <3>1
    <3>3. m - 1 \in 0..(3 * want) /\ m - 1 # 3 * want
      BY <1>3, <1>5, <3>1
    <3>4. ~(SumOf(a(m - 1)) >= want)
      BY <1>3, <3>2, <3>3
    <3>5. SumOf(a((m - 1) + 1)) <= SumOf(a(m - 1)) + 1
      BY <3>1, NextTurn
    <3> HIDE DEF a
    <3>6. SumOf(a(m - 1)) \in Nat /\ SumOf(a(m)) \in Nat
      BY <1>2, <1>7, <3>1
    <3> QED
      BY <3>1, <3>4, <3>5, <3>6
  <2> QED
    BY <2>1, <2>2
<1>12. ASSUME SumOf(a(m)) # want
       PROVE  \A d \in Difficulty : a(m)[d] = size[d]
  <2>1. m = 3 * want
    <3> HIDE DEF a
    <3> QED
      BY <1>2, <1>3, <1>5, <1>7, <1>11, <1>12
  <2>2. \A d \in Difficulty : Turns(m)[d] = want
    BY <2>1, Rounds
  <2> HIDE DEF a
  <2> SUFFICES ASSUME NEW d \in Difficulty, a(m)[d] # size[d] PROVE FALSE
    OBVIOUS
  <2>3. a(m)[d] >= want
    BY <1>1, <1>8, <2>2
  <2>4. \A c \in Difficulty : a(m)[c] \in Nat
    BY <1>8 DEF Counts
  <2>5. SumOf(a(m)) >= a(m)[d]
    BY <2>4 DEF SumOf, Difficulty
  <2> QED
    BY <1>2, <1>7, <1>11, <1>12, <2>3, <2>4, <2>5
<1> HIDE DEF a
<1>13. SumOf(a(m)) = want \/ (SumOf(a(m)) < want /\ \A d \in Difficulty : a(m)[d] = size[d])
  BY <1>2, <1>7, <1>11, <1>12
<1> QED
  BY <1>6, <1>8, <1>10, <1>13

-----------------------------------------------------------------------------
\* The inductive invariant

\* What is known of a section once it is filled: the choice was made among
\* candidates of its own, and whatever of these is still unused was among them.
FillRight(i) ==
  /\ filled[i].chosen \in SelectForSection(filled[i].free, plans[i])
  /\ filled[i].free \subseteq LoadCandidates(bank, req, plans[i].subject) \ req.excluded
  /\ LoadCandidates(bank, req, plans[i].subject) \ Used \subseteq filled[i].free
  /\ \A j \in 1..(i - 1) : filled[j].chosen \intersect filled[i].free = {}

Fill == [free : SUBSET UNION Bank, chosen : SUBSET UNION Bank]

BuildInv ==
  /\ req \in Asked
  /\ plans = ScaleSections(req, sections)
  /\ report = Inspect(bank, req, sections, report.uncounted) /\ report.available > 0
  /\ filled \in Seq(Fill) /\ Len(filled) <= Len(plans)
  /\ \A i \in 1..Len(filled) : FillRight(i)

\* A section as the analysis drafts it.
Drafted == [name : Heading, subject : Heading, count : Nat, seenIn : Nat, weightage : Nat]

PaperInv ==
  /\ stage \in {"read", "draft"} => observed \in Seq(Paper) /\ multiple \in Multiples
  /\ stage = "draft" => draft = Analyze(observed, multiple)
  /\ sections \in Seq(Section)
  /\ papers \in Seq(SUBSET UNION Bank)
  /\ stage = "build" \/ papers # <<>> => bank \in Bank
  /\ stage = "build" => BuildInv

-----------------------------------------------------------------------------
\* What a choice for a section is

\* Sets of questions of known difficulties, as every bank's are.
LEMMA FiniteParts ==
  ASSUME NEW S, IsFiniteSet(S), NEW T \in SUBSET S
  PROVE  /\ IsFiniteSet(T) /\ Cardinality(T) \in Nat
         /\ Cardinality(T) <= Cardinality(S) /\ (Cardinality(T) = Cardinality(S) => T = S)
<1>1. IsFiniteSet(T) /\ Cardinality(T) <= Cardinality(S)
  BY FS_Subset
<1>2. Cardinality(T) = Cardinality(S) => T = S
  BY FS_Subset
<1>3. Cardinality(T) \in Nat
  BY <1>1, FS_CardinalityType
<1> QED
  BY <1>1, <1>2, <1>3

\* Sets with nothing in common have as many members together as in all.
LEMMA Disjoint ==
  ASSUME NEW S, IsFiniteSet(S), NEW T, IsFiniteSet(T), S \intersect T = {}
  PROVE  IsFiniteSet(S \union T) /\ Cardinality(S \union T) = Cardinality(S) + Cardinality(T)
<1>1. /\ IsFiniteSet(S \union T)
      /\ Cardinality(S \union T) = Cardinality(S) + Cardinality(T) - Cardinality(S \intersect T)
  BY FS_Union
<1>2. Cardinality(S \intersect T) = 0
  BY FS_EmptySet
<1>3. Cardinality(S) \in Nat /\ Cardinality(T) \in Nat
  BY FS_CardinalityType
<1> QED
  BY <1>1, <1>2, <1>3

\* The candidates of one difficulty are some of the candidates.
LEMMA BucketsFinite ==
  ASSUME NEW free, IsFiniteSet(free)
  PROVE  /\ \A d \in Difficulty : /\ IsFiniteSet(Buckets(free)[d])
                                  /\ Buckets(free)[d] \subseteq free
         /\ Sizes(free) \in Counts
<1>1. \A d \in Difficulty : Buckets(free)[d] \in SUBSET free
  BY DEF Buckets
<1>2. \A d \in Difficulty : IsFiniteSet(Buckets(free)[d]) /\ Cardinality(Buckets(free)[d]) \in Nat
  BY <1>1, FiniteParts
<1> QED
  BY <1>1, <1>2 DEF Sizes, Counts

\* What is taken of each bucket: what its target calls for at least, no more than
\* there is, and in all what the section wants or everything.
LEMMA TakenFills ==
  ASSUME NEW free, IsFiniteSet(free), NEW p \in Plan
  PROVE  /\ Taken(free, p) \in Counts
         /\ \A d \in Difficulty : /\ Taken(free, p)[d] <= Sizes(free)[d]
                                  /\ Min({Targets(p)[d], Sizes(free)[d]}) <= Taken(free, p)[d]
         /\ \/ SumOf(Taken(free, p)) = p.want
            \/ /\ SumOf(Taken(free, p)) < p.want
               /\ \A d \in Difficulty : Taken(free, p)[d] = Sizes(free)[d]
<1> DEFINE size == Sizes(free)
           first == [d \in Difficulty |-> Min({Targets(p)[d], size[d]})]
<1>1. size \in Counts /\ \A d \in Difficulty : size[d] \in Nat
  <2>1. size \in Counts
    BY BucketsFinite
  <2> QED
    BY <2>1 DEF Counts
<1>2. /\ \A d \in Difficulty : Targets(p)[d] \in Nat
      /\ Targets(p)["easy"] + Targets(p)["medium"] + Targets(p)["hard"] = p.want
  BY TargetsFit
<1>3. p.want \in Nat
  BY DEF Plan
<1> HIDE DEF size
<1>4. \A d \in Difficulty :
        first[d] = IF Targets(p)[d] <= size[d] THEN Targets(p)[d] ELSE size[d]
  BY <1>1, <1>2, MinOfTwo
<1>5. Taken(free, p) = InTurn(size, first, p.want)
  BY DEF Taken, size
<1>6. \A d \in Difficulty : first[d] \in Nat /\ first[d] <= size[d] /\ first[d] <= Targets(p)[d]
  <2> HIDE DEF first
  <2> QED
    BY <1>1, <1>2, <1>4
<1>7. first \in Counts
  BY <1>6 DEF Counts
<1>8. SumOf(first) <= p.want
  <2> HIDE DEF first
  <2> QED
    BY <1>2, <1>3, <1>6 DEF SumOf, Difficulty
<1>9. \A d \in Difficulty : Min({Targets(p)[d], size[d]}) = first[d]
  OBVIOUS
<1> HIDE DEF first
<1>10. LET t == InTurn(size, first, p.want)
       IN /\ t \in Counts
          /\ \A d \in Difficulty : first[d] <= t[d] /\ t[d] <= size[d]
          /\ \/ SumOf(t) = p.want
             \/ SumOf(t) < p.want /\ \A d \in Difficulty : t[d] = size[d]
  BY <1>1, <1>3, <1>6, <1>7, <1>8, InTurnFills
<1> QED
  BY <1>5, <1>9, <1>10 DEF size

\* As many questions as its buckets hold.
LEMMA SizeByBuckets ==
  ASSUME NEW S, IsFiniteSet(S), \A q \in S : q.difficulty \in Difficulty
  PROVE  Cardinality(S) = SumOf(Sizes(S))
<1> DEFINE e == Buckets(S)["easy"]
           m == Buckets(S)["medium"]
           h == Buckets(S)["hard"]
<1>1. /\ e = {q \in S : q.difficulty = "easy"} /\ m = {q \in S : q.difficulty = "medium"}
      /\ h = {q \in S : q.difficulty = "hard"}
  BY DEF Buckets, Difficulty
<1>2. IsFiniteSet(e) /\ IsFiniteSet(m) /\ IsFiniteSet(h)
  BY BucketsFinite DEF Difficulty
<1>3. /\ SumOf(Sizes(S)) = Cardinality(e) + Cardinality(m) + Cardinality(h)
      /\ Cardinality(e) \in Nat /\ Cardinality(m) \in Nat /\ Cardinality(h) \in Nat
  <2>1. Sizes(S)["easy"] = Cardinality(e) /\ Sizes(S)["medium"] = Cardinality(m)
        /\ Sizes(S)["hard"] = Cardinality(h)
    BY DEF Sizes, Difficulty
  <2> HIDE DEF e, m, h
  <2> QED
    BY <1>2, <2>1, FS_CardinalityType DEF SumOf
<1>4. e \intersect m = {} /\ (e \union m) \intersect h = {} /\ S = (e \union m) \union h
  BY <1>1 DEF Difficulty
<1> HIDE DEF e, m, h
<1>5. IsFiniteSet(e \union m) /\ Cardinality(e \union m) = Cardinality(e) + Cardinality(m)
  BY <1>2, <1>4, Disjoint
<1>6. Cardinality((e \union m) \union h) = Cardinality(e \union m) + Cardinality(h)
  BY <1>2, <1>4, <1>5, Disjoint
<1> QED
  BY <1>3, <1>4, <1>5, <1>6

\* A choice is as large as the section wants or takes every candidate, and has of each
\* difficulty what its target calls for or every one there is.
LEMMA ChoiceFills ==
  ASSUME NEW free, IsFiniteSet(free), \A q \in free : q.difficulty \in Difficulty,
         NEW p \in Plan, NEW S \in SelectForSection(free, p)
  PROVE  /\ S \subseteq free
         /\ Cardinality(S) = p.want \/ (Cardinality(S) < p.want /\ S = free)
         /\ \A d \in Difficulty :
              Cardinality(Buckets(S)[d]) >= Min({Targets(p)[d], Sizes(free)[d]})
<1>1. S \in SUBSET free
  BY DEF SelectForSection
<1>2. IsFiniteSet(S) /\ \A q \in S : q.difficulty \in Difficulty
  BY <1>1, FS_Subset
<1>3. \A d \in Difficulty : Cardinality(S \intersect Buckets(free)[d]) = Taken(free, p)[d]
  BY DEF SelectForSection
<1>4. \A d \in Difficulty : S \intersect Buckets(free)[d] = Buckets(S)[d]
  BY <1>1 DEF Buckets
<1>5. \A d \in Difficulty : Sizes(S)[d] = Cardinality(Buckets(S)[d])
  BY DEF Sizes
<1>6. \A d \in Difficulty : Sizes(S)[d] = Taken(free, p)[d]
  BY <1>3, <1>4, <1>5
<1>7. Cardinality(S) = SumOf(Taken(free, p))
  <2>1. SumOf(Sizes(S)) = SumOf(Taken(free, p))
    BY <1>6 DEF SumOf, Difficulty
  <2> QED
    BY <1>2, <2>1, SizeByBuckets
<1>8. /\ Taken(free, p) \in Counts
      /\ \A d \in Difficulty : Min({Targets(p)[d], Sizes(free)[d]}) <= Taken(free, p)[d]
      /\ \/ SumOf(Taken(free, p)) = p.want
         \/ /\ SumOf(Taken(free, p)) < p.want
            /\ \A d \in Difficulty : Taken(free, p)[d] = Sizes(free)[d]
  BY TakenFills
<1>9. ASSUME \A d \in Difficulty : Taken(free, p)[d] = Sizes(free)[d] PROVE S = free
  <2>1. Cardinality(free) = SumOf(Sizes(free))
    BY SizeByBuckets
  <2>2. SumOf(Sizes(free)) = SumOf(Taken(free, p))
    BY <1>9 DEF SumOf, Difficulty
  <2> QED
    BY <1>1, <1>7, <2>1, <2>2, FS_Subset
<1>10. \A d \in Difficulty : Cardinality(Buckets(S)[d]) = Taken(free, p)[d]
  BY <1>5, <1>6
<1>11. \A d \in Difficulty : /\ Taken(free, p)[d] \in Nat /\ Targets(p)[d] \in Nat
                             /\ Sizes(free)[d] \in Nat
  BY <1>8, TargetsFit, BucketsFinite DEF Counts
<1>12. \A d \in Difficulty : Min({Targets(p)[d], Sizes(free)[d]}) \in Int
  BY <1>11, MinOfTwo
<1>13. \A d \in Difficulty :
         Cardinality(Buckets(S)[d]) >= Min({Targets(p)[d], Sizes(free)[d]})
  BY <1>8, <1>10, <1>11, <1>12
<1> QED
  BY <1>1, <1>7, <1>8, <1>9, <1>13

-----------------------------------------------------------------------------
\* The supply

\* Candidates are questions of the bank, and finitely many.
LEMMA CandidatesFinite ==
  ASSUME NEW b \in Bank, NEW r, NEW x, NEW S \in SUBSET LoadCandidates(b, r, x)
  PROVE  IsFiniteSet(S) /\ S \in SUBSET b /\ \A q \in S : q.difficulty \in Difficulty
<1>1. S \in SUBSET b
  BY DEF LoadCandidates
<1>2. IsFiniteSet(b) /\ \A q \in b : q.difficulty \in Difficulty
  BY BankAssumption
<1>3. IsFiniteSet(S)
  BY <1>1, <1>2, FiniteParts
<1> QED
  BY <1>1, <1>2, <1>3

\* The supply counts every set of questions that could fill the section.
LEMMA SupplyCounts ==
  ASSUME NEW b \in Bank, NEW r \in Asked, NEW x, NEW S \in SUBSET LoadCandidates(b, r, x)
  PROVE  UsableCount(b, r, x) \in Nat /\ Cardinality(S) <= UsableCount(b, r, x)
<1> DEFINE wide == [r EXCEPT !.borrowed = TRUE, !.onlyApproved = FALSE, !.requireAnswer = FALSE]
           held == {q \in b : q.subject = x /\ (r.borrowed \/ ~q.borrowed)}
           A == {q \in LoadCandidates(b, wide, x) : r.borrowed \/ ~q.borrowed}
           B == {q \in held : q.answered}
           C == {q \in held : q.status = "approved"}
           N == {Cardinality(A)} \union (IF r.requireAnswer THEN {Cardinality(B)} ELSE {})
                  \union (IF r.onlyApproved THEN {Cardinality(C)} ELSE {})
<1>1. UsableCount(b, r, x) = Min(N)
  BY DEF UsableCount
<1>2. /\ wide.borrowed = TRUE /\ wide.onlyApproved = FALSE /\ wide.requireAnswer = FALSE
      /\ wide.unvetted = r.unvetted
  BY DEF Asked
<1> HIDE DEF wide
<1>3. S \in SUBSET A /\ A \in SUBSET b
  BY <1>2 DEF LoadCandidates
<1>4. (r.requireAnswer => S \in SUBSET B) /\ B \in SUBSET b
  BY DEF LoadCandidates
<1>5. (r.onlyApproved => S \in SUBSET C) /\ C \in SUBSET b
  BY DEF LoadCandidates
<1> HIDE DEF held, A, B, C
<1>6. IsFiniteSet(b)
  BY BankAssumption
<1>7. \A T \in SUBSET b : IsFiniteSet(T) /\ Cardinality(T) \in Nat
  BY <1>6, FiniteParts
<1>8. \A T \in SUBSET b : S \in SUBSET T => Cardinality(S) <= Cardinality(T)
  BY <1>7, FiniteParts
<1>9. N \in SUBSET Nat /\ N # {}
  BY <1>3, <1>4, <1>5, <1>7
<1>10. \A y \in N : Cardinality(S) <= y
  BY <1>3, <1>4, <1>5, <1>8
<1> HIDE DEF N
<1>11. Min(N) \in N
  BY <1>9, MinOfSet
<1> QED
  BY <1>1, <1>9, <1>10, <1>11

\* A section with enough of them is reported sufficient, if it was counted.
LEMMA CountedSupply ==
  ASSUME NEW b, NEW r, NEW list, NEW lost, NEW i \in DOMAIN ScaleSections(r, list), i \notin lost,
         UsableCount(b, r, ScaleSections(r, list)[i].subject) >= ScaleSections(r, list)[i].want
  PROVE  i \in Inspect(b, r, list, lost).sufficient
<1> DEFINE plan == ScaleSections(r, list)
           usable == [k \in DOMAIN plan |-> IF k \in lost THEN 0 ELSE UsableCount(b, r, plan[k].subject)]
<1>1. Inspect(b, r, list, lost).sufficient = {k \in DOMAIN plan : usable[k] >= plan[k].want}
  BY Zenon DEF Inspect
<1>2. usable[i] = UsableCount(b, r, plan[i].subject)
  OBVIOUS
<1> HIDE DEF usable
<1> QED
  BY <1>1, <1>2

\* Something is available only for a pattern with sections.
LEMMA AvailablePlans ==
  ASSUME NEW b, NEW r, NEW list, NEW lost, Inspect(b, r, list, lost).available > 0
  PROVE  ScaleSections(r, list) # <<>>
<1> SUFFICES ASSUME ScaleSections(r, list) = <<>> PROVE FALSE
  OBVIOUS
<1> DEFINE usable == [i \in DOMAIN ScaleSections(r, list) |->
                        IF i \in lost THEN 0 ELSE UsableCount(b, r, ScaleSections(r, list)[i].subject)]
<1>1. Inspect(b, r, list, lost).available = Total(usable)
  BY DEF Inspect
<1>2. usable \in [1..0 -> Int]
  <2>1. DOMAIN ScaleSections(r, list) = 1..0 /\ Len(ScaleSections(r, list)) = 0
    OBVIOUS
  <2>2. usable = [i \in 1..0 |-> IF i \in lost THEN 0 ELSE UsableCount(b, r, ScaleSections(r, list)[i].subject)]
    BY <2>1
  <2> QED
    BY <2>2
<1> HIDE DEF usable
<1>3. Inspect(b, r, list, lost).available = RunningSum(usable)[0]
  BY <1>1, <1>2 DEF Total
<1>4. usable \in Seq(Int)
  BY <1>2
<1> QED
  BY <1>3, <1>4, RunningSums
-----------------------------------------------------------------------------
\* The analysis: medians

\* A natural number divided by a positive one.
LEMMA Quotient ==
  ASSUME NEW n \in Nat, NEW c \in Nat, c > 0
  PROVE  n \div c \in Nat
OBVIOUS

\* A quotient rounded is a natural number.
LEMMA RoundDivNatural ==
  ASSUME NEW a \in Nat, NEW b \in Nat, b > 0
  PROVE  RoundDiv(a, b) \in Nat
<1>1. 2 * a + b \in Nat /\ 2 * b \in Nat /\ 2 * b > 0
  OBVIOUS
<1> QED
  BY <1>1, Quotient DEF RoundDiv

\* Of finitely many numbers one is the greatest: the one the fewest exceed.
LEMMA GreatestOf ==
  ASSUME NEW D, IsFiniteSet(D), D # {}, NEW c \in [D -> Nat]
  PROVE  \E i \in D : \A j \in D : c[j] <= c[i]
<1> DEFINE above(i) == {j \in D : c[j] > c[i]}
           S == {Cardinality(above(i)) : i \in D}
<1>1. \A i \in D : above(i) \in SUBSET D /\ IsFiniteSet(above(i)) /\ Cardinality(above(i)) \in Nat
  <2> TAKE i \in D
  <2>1. above(i) \in SUBSET D
    OBVIOUS
  <2> HIDE DEF above
  <2> QED
    BY <2>1, FiniteParts
<1>2. PICK m \in S : \A y \in S : m <= y
  <2>1. S \in SUBSET Nat /\ S # {}
    BY <1>1
  <2> HIDE DEF S
  <2> QED
    BY <2>1, LeastOfSet
<1>3. PICK i \in D : m = Cardinality(above(i))
  BY <1>2
<1>4. SUFFICES ASSUME NEW j \in D, c[j] > c[i] PROVE FALSE
  <2>1. \A j \in D : c[j] \in Nat /\ c[i] \in Nat
    OBVIOUS
  <2> QED
    BY <2>1
<1>5. above(j) \in SUBSET above(i) /\ j \in above(i) /\ j \notin above(j)
  <2>1. \A x \in D : c[x] \in Nat
    OBVIOUS
  <2> QED
    BY <1>4, <2>1
<1>6. Cardinality(above(j)) >= m
  BY <1>2
<1> HIDE DEF above
<1>7. Cardinality(above(j)) <= Cardinality(above(i)) /\ Cardinality(above(j)) # Cardinality(above(i))
  BY <1>1, <1>5, FiniteParts
<1> QED
  BY <1>1, <1>3, <1>6, <1>7

\* The k-th smallest of a family is one of its numbers, not exceeded by k of them
\* at least, and the least such.
LEMMA NthOfFamily ==
  ASSUME NEW D, IsFiniteSet(D), D # {}, NEW c \in [D -> Nat], NEW k \in Nat, k <= Cardinality(D)
  PROVE  /\ \E i \in D : Nth(c, k) = c[i] /\ Cardinality({m \in D : c[m] <= c[i]}) >= k
         /\ \A i \in D : Cardinality({m \in D : c[m] <= c[i]}) >= k => Nth(c, k) <= c[i]
         /\ Nth(c, k) \in Nat
<1> DEFINE Enow == {i \in D : Cardinality({m \in D : c[m] <= c[i]}) >= k}
           V == {c[i] : i \in Enow}
<1>1. Nth(c, k) = Min(V)
  BY DEF Nth
<1>2. PICK i \in D : \A j \in D : c[j] <= c[i]
  BY GreatestOf
<1>3. {m \in D : c[m] <= c[i]} = D
  BY <1>2
<1>4. Cardinality(D) >= k
  BY FS_CardinalityType
<1>5. i \in Enow
  BY <1>3, <1>4
<1>6. V \in SUBSET Nat /\ V # {}
  BY <1>5
<1> HIDE DEF V
<1>7. Min(V) \in V /\ \A y \in V : Min(V) <= y
  BY <1>6, MinOfSet
<1> QED
  BY <1>1, <1>6, <1>7 DEF V

\* The median of a family of natural numbers is one.
LEMMA MedianNatural ==
  ASSUME NEW D, IsFiniteSet(D), NEW c \in [D -> Nat]
  PROVE  MedianInt(c) \in Nat
<1> DEFINE n == Cardinality(D)
<1>1. n \in Nat /\ DOMAIN c = D
  BY FS_CardinalityType
<1>2. MedianInt(c) = IF n = 0 THEN 0
                     ELSE IF n % 2 = 1 THEN Nth(c, (n + 1) \div 2)
                     ELSE RoundDiv(Nth(c, n \div 2) + Nth(c, n \div 2 + 1), 2)
  BY <1>1 DEF MedianInt
<1>3. n # 0 => D # {}
  BY FS_EmptySet
<1> HIDE DEF n
<1>4. ASSUME n # 0, NEW k \in Nat, k <= n PROVE Nth(c, k) \in Nat
  BY <1>3, <1>4, NthOfFamily DEF n
<1>5. CASE n = 0
  BY <1>2, <1>5
<1>6. CASE n # 0 /\ n % 2 = 1
  <2>1. (n + 1) \div 2 \in Nat /\ (n + 1) \div 2 <= n
    BY <1>1, <1>6
  <2> QED
    BY <1>2, <1>4, <1>6, <2>1
<1>7. CASE n # 0 /\ n % 2 # 1
  <2>1. n \div 2 \in Nat /\ n \div 2 <= n /\ n \div 2 + 1 \in Nat /\ n \div 2 + 1 <= n
    BY <1>1, <1>7
  <2>2. Nth(c, n \div 2) \in Nat /\ Nth(c, n \div 2 + 1) \in Nat
    BY <1>4, <1>7, <2>1
  <2>3. RoundDiv(Nth(c, n \div 2) + Nth(c, n \div 2 + 1), 2) \in Nat
    BY <2>2, RoundDivNatural
  <2> QED
    BY <1>2, <1>7, <2>3
<1> QED
  BY <1>5, <1>6, <1>7

\* A count rounded to a multiple is a natural number still.
LEMMA RoundToNatural ==
  ASSUME NEW v \in Nat, NEW m \in Int
  PROVE  RoundTo(v, m) \in Nat
<1>1. CASE m <= 1 \/ v <= 0
  BY <1>1 DEF RoundTo
<1>2. CASE m > 1 /\ v > 0
  <2>1. m \in Nat /\ RoundDiv(v, m) \in Nat
    BY <1>2, RoundDivNatural
  <2>2. m * RoundDiv(v, m) \in Nat
    BY <2>1
  <2> QED
    BY <1>2, <2>2 DEF RoundTo
<1> QED
  BY <1>1, <1>2

\* A list of natural numbers comes to one.
LEMMA TotalNatural ==
  ASSUME NEW s \in Seq(Nat)
  PROVE  Total(s) \in Nat
<1>1. Len(s) \in 0..Len(s)
  OBVIOUS
<1> QED
  BY <1>1, SumsNatural DEF Total


-----------------------------------------------------------------------------
\* The analysis: the order of the sections

\* Groups that are told apart by where they were first seen.
Group == [first : Nat \X Nat, name : Heading, subject : Heading, count : Nat, seenIn : Nat, order : Nat]
Apart(K) == \A g, h \in K : g.first = h.first => g = h

\* Of two groups exactly one comes first.
LEMMA AheadOrders ==
  ASSUME NEW K \in SUBSET Group, Apart(K), NEW g \in K, NEW h \in K
  PROVE  /\ ~(Ahead(g, h) /\ Ahead(h, g))
         /\ g = h \/ Ahead(g, h) \/ Ahead(h, g)
<1>1. /\ g.order \in Nat /\ h.order \in Nat /\ g.first \in Nat \X Nat /\ h.first \in Nat \X Nat
  BY DEF Group
<1>2. /\ g.first[1] \in Nat /\ g.first[2] \in Nat /\ h.first[1] \in Nat /\ h.first[2] \in Nat
      /\ g.first = <<g.first[1], g.first[2]>> /\ h.first = <<h.first[1], h.first[2]>>
  BY <1>1
<1>3. g.first = h.first => g = h
  BY DEF Apart
<1>4. ~(Ahead(g, h) /\ Ahead(h, g))
  BY <1>1, <1>2 DEF Ahead, Before
<1>5. Ahead(g, h) \/ Ahead(h, g) \/ (g.first[1] = h.first[1] /\ g.first[2] = h.first[2])
  BY <1>1, <1>2 DEF Ahead, Before
<1> QED
  BY <1>2, <1>3, <1>4, <1>5

\* Of any groups one comes first.
LEMMA FirstAhead ==
  ASSUME NEW S \in SUBSET Group, S # {}, Apart(S)
  PROVE  \E g \in S : \A h \in S : h = g \/ Ahead(g, h)
<1>1. \A g \in S : g.order \in Nat /\ g.first[1] \in Nat /\ g.first[2] \in Nat
  BY DEF Group
<1> DEFINE O == {g.order : g \in S}
<1>2. PICK o \in O : \A y \in O : o <= y
  <2>1. O \in SUBSET Nat /\ O # {}
    BY <1>1
  <2> HIDE DEF O
  <2> QED
    BY <2>1, LeastOfSet
<1> DEFINE S1 == {g \in S : g.order = o}
           A == {g.first[1] : g \in S1}
<1>3. PICK a \in A : \A y \in A : a <= y
  <2>1. A \in SUBSET Nat /\ A # {}
    BY <1>1, <1>2
  <2> HIDE DEF A
  <2> QED
    BY <2>1, LeastOfSet
<1> DEFINE S2 == {g \in S1 : g.first[1] = a}
           B == {g.first[2] : g \in S2}
<1>4. PICK b \in B : \A y \in B : b <= y
  <2>1. B \in SUBSET Nat /\ B # {}
    BY <1>1, <1>3
  <2> HIDE DEF B
  <2> QED
    BY <2>1, LeastOfSet
<1>5. PICK g \in S2 : g.first[2] = b
  BY <1>4
<1>6. g \in S /\ g.order = o /\ g.first[1] = a /\ g.first[2] = b
  BY <1>5
<1>7. ASSUME NEW h \in S PROVE h = g \/ Ahead(g, h)
  <2>1. h.order >= o
    BY <1>1, <1>2
  <2>2. CASE h.order # o
    BY <1>1, <1>6, <2>1, <2>2 DEF Ahead
  <2>3. CASE h.order = o
    <3>1. h.first[1] >= a
      BY <1>1, <1>3, <2>3
    <3>2. CASE h.first[1] # a
      BY <1>1, <1>6, <2>3, <3>1, <3>2 DEF Ahead, Before
    <3>3. CASE h.first[1] = a
      <4>1. h.first[2] >= b
        BY <1>1, <1>4, <2>3, <3>3
      <4>2. CASE h.first[2] # b
        BY <1>1, <1>6, <2>3, <3>3, <4>1, <4>2 DEF Ahead, Before
      <4>3. CASE h.first[2] = b
        <5>1. h.first = g.first
          BY <1>6, <3>3, <4>3 DEF Group
        <5> QED
          BY <1>6, <5>1 DEF Apart
      <4> QED
        BY <4>2, <4>3
    <3> QED
      BY <3>2, <3>3
  <2> QED
    BY <2>2, <2>3
<1> QED
  BY <1>6, <1>7

\* For every rank there is a group with as many ahead of it.
LEMMA EveryRank ==
  ASSUME NEW K \in SUBSET Group, IsFiniteSet(K), Apart(K), NEW n \in Nat, n < Cardinality(K)
  PROVE  \E g \in K : Cardinality({h \in K : Ahead(h, g)}) = n
<1> DEFINE Lead(D) == \A g \in D, h \in K : Ahead(h, g) => h \in D
           S == {k \in Nat : k <= Cardinality(K) => \E D \in SUBSET K : Cardinality(D) = k /\ Lead(D)}
<1>1. Cardinality(K) \in Nat
  BY FS_CardinalityType
<1>2. \A D \in SUBSET K : IsFiniteSet(D)
  BY FiniteParts
<1>3. 0 \in S
  <2>1. Cardinality({}) = 0 /\ Lead({})
    BY FS_EmptySet
  <2> QED
    BY <2>1
<1>4. ASSUME NEW D \in SUBSET K, Lead(D), Cardinality(D) < Cardinality(K)
      PROVE  \E g \in K : g \notin D /\ {h \in K : Ahead(h, g)} = D
  <2>1. K \ D # {} /\ K \ D \in SUBSET Group /\ Apart(K \ D)
    <3>1. K # D
      BY <1>1, <1>4
    <3> QED
      BY <3>1 DEF Apart
  <2>2. PICK g \in K \ D : \A h \in K \ D : h = g \/ Ahead(g, h)
    BY <2>1, FirstAhead
  <2>3. ASSUME NEW h \in K, Ahead(h, g) PROVE h \in D
    <3>1. ~Ahead(g, h)
      BY <2>3, AheadOrders
    <3>2. h # g
      BY <2>3, <3>1
    <3> QED
      BY <2>2, <3>1, <3>2
  <2>4. ASSUME NEW h \in D PROVE h \in K /\ Ahead(h, g)
    <3>1. h \in K /\ h # g /\ ~Ahead(g, h)
      BY <1>4, <2>2
    <3> QED
      BY <2>2, <3>1, AheadOrders
  <2> QED
    BY <2>2, <2>3, <2>4
<1>5. ASSUME NEW k \in S PROVE k + 1 \in S
  <2> SUFFICES ASSUME k + 1 <= Cardinality(K)
               PROVE  \E D \in SUBSET K : Cardinality(D) = k + 1 /\ Lead(D)
    OBVIOUS
  <2>1. PICK D \in SUBSET K : Cardinality(D) = k /\ Lead(D)
    BY <1>1
  <2>2. PICK g \in K : g \notin D /\ {h \in K : Ahead(h, g)} = D
    BY <1>1, <1>4, <2>1
  <2>3. Cardinality(D \union {g}) = k + 1
    <3>1. IsFiniteSet(D)
      BY <2>1, <1>2
    <3>2. Cardinality(D \union {g}) = Cardinality(D) + 1
      BY <2>2, <3>1, FS_AddElement
    <3> QED
      BY <2>1, <3>2
  <2>4. Lead(D \union {g})
    BY <2>1, <2>2
  <2> QED
    BY <2>3, <2>4
<1>6. S \in SUBSET Nat
  OBVIOUS
<1> HIDE DEF S
<1>7. S = Nat
  BY <1>3, <1>5, <1>6, SetInduction
<1>8. PICK D \in SUBSET K : Cardinality(D) = n /\ Lead(D)
  BY <1>1, <1>7 DEF S
<1>9. PICK g \in K : {h \in K : Ahead(h, g)} = D
  BY <1>4, <1>8
<1> QED
  BY <1>8, <1>9

-----------------------------------------------------------------------------
\* The analysis: what the draft is made of

\* What a function makes of a finite set is finite.
LEMMA ImageFinite ==
  ASSUME NEW D, IsFiniteSet(D), NEW f, DOMAIN f = D
  PROVE  IsFiniteSet({f[x] : x \in D})
<1> DEFINE T == {f[x] : x \in D}
           g == [x \in D |-> f[x]]
<1>1. g \in Surjection(D, T)
  BY DEF Surjection
<1> HIDE DEF T, g
<1>2. IsFiniteSet(T)
  BY <1>1, FS_Surjection
<1> QED
  BY <1>2 DEF T

\* A paper has sections, one of its own making if none was found.
LEMMA WholePrinted ==
  ASSUME NEW p \in Paper
  PROVE  Whole(p) \in Seq(Printed)
<1>1. p.questions \in Nat /\ p.sections \in Seq(Printed)
  BY PaperAssumption
<1> DEFINE one == [label |-> "", subject |-> "none", count |-> p.questions]
<1>2. one \in Printed
  BY <1>1, HeadingAssumption DEF Printed
<1>3. Whole(p) = IF p.sections = <<>> THEN <<one>> ELSE p.sections
  BY DEF Whole
<1> HIDE DEF one
<1> QED
  BY <1>1, <1>2, <1>3

\* The papers that yielded questions are papers.
LEMMA PapersKept ==
  ASSUME NEW o \in Seq(Paper)
  PROVE  WithQuestions(o) \in Seq(Paper)
<1> DEFINE K == {d \in Range(o) : d.questions > 0}
<1>1. WithQuestions(o) = Among(o, K)
  BY DEF WithQuestions
<1> HIDE DEF K
<1>2. Among(o, K) \in Seq(Paper \intersect K)
  BY AmongMembers
<1>3. \A l \in Seq(Paper \intersect K) : l \in Seq(Paper)
  OBVIOUS
<1> QED
  BY <1>1, <1>2, <1>3

\* A place is a paper's number and a section's, and there are finitely many.
LEMMA PlacesFinite ==
  ASSUME NEW docs \in Seq(Paper)
  PROVE  /\ IsFiniteSet(Places(docs))
         /\ \A p \in Places(docs) : p \in Nat \X Nat /\ At(docs, p) \in Printed
<1> DEFINE row == [d \in DOMAIN docs |-> {<<d, i>> : i \in DOMAIN Whole(docs[d])}]
<1>1. DOMAIN docs = 1..Len(docs) /\ Len(docs) \in Nat
  OBVIOUS
<1>2. ASSUME NEW d \in DOMAIN docs
      PROVE  /\ Whole(docs[d]) \in Seq(Printed) /\ Len(Whole(docs[d])) \in Nat
             /\ DOMAIN Whole(docs[d]) = 1..Len(Whole(docs[d]))
  <2>1. docs[d] \in Paper
    BY <1>1
  <2>2. Whole(docs[d]) \in Seq(Printed)
    BY <2>1, WholePrinted
  <2> QED
    BY <2>2
<1>3. Places(docs) = UNION {row[d] : d \in DOMAIN docs}
  BY DEF Places
<1>4. ASSUME NEW d \in DOMAIN docs PROVE IsFiniteSet(row[d])
  <2> DEFINE D == DOMAIN Whole(docs[d])
             f == [i \in D |-> <<d, i>>]
  <2>1. IsFiniteSet(D)
    BY <1>2, FS_Interval
  <2>2. row[d] = {f[i] : i \in D} /\ DOMAIN f = D
    OBVIOUS
  <2> HIDE DEF D, f, row
  <2> QED
    BY <2>1, <2>2, ImageFinite
<1>5. DOMAIN row = DOMAIN docs /\ IsFiniteSet(DOMAIN docs)
  BY <1>1, FS_Interval
<1>6. IsFiniteSet({row[d] : d \in DOMAIN docs})
  <2> HIDE DEF row
  <2> QED
    BY <1>5, ImageFinite
<1>7. IsFiniteSet(Places(docs))
  <2> HIDE DEF row
  <2> DEFINE rows == {row[d] : d \in DOMAIN docs}
  <2>1. \A T \in rows : IsFiniteSet(T)
    BY <1>4
  <2>2. IsFiniteSet(rows)
    BY <1>6
  <2> HIDE DEF rows
  <2>3. IsFiniteSet(UNION rows)
    BY <2>1, <2>2, FS_UNION
  <2> QED
    BY <1>3, <2>3 DEF rows
<1>8. ASSUME NEW p \in Places(docs) PROVE p \in Nat \X Nat /\ At(docs, p) \in Printed
  <2>1. PICK d \in DOMAIN docs : \E i \in DOMAIN Whole(docs[d]) : p = <<d, i>>
    BY DEF Places
  <2>2. PICK i \in DOMAIN Whole(docs[d]) : p = <<d, i>>
    BY <2>1
  <2>3. d \in Nat /\ i \in Nat /\ Whole(docs[d])[i] \in Printed
    BY <1>1, <1>2
  <2> QED
    BY <2>2, <2>3 DEF At
<1> QED
  BY <1>7, <1>8

\* The average place of a section is a natural number.
LEMMA AverageNatural ==
  ASSUME NEW docs \in Seq(Paper), NEW seen, IsFiniteSet(seen), seen # {}
  PROVE  AverageOrder(docs, seen) \in Nat /\ Cardinality(seen) \in Nat
<1> DEFINE row(d) == [i \in DOMAIN Whole(docs[d]) |-> IF <<d, i>> \in seen THEN i - 1 ELSE 0]
           sums == [d \in DOMAIN docs |-> Total(row(d))]
<1>1. ASSUME NEW d \in DOMAIN docs PROVE Total(row(d)) \in Nat
  <2>1. docs[d] \in Paper
    OBVIOUS
  <2>2. Whole(docs[d]) \in Seq(Printed)
    BY <2>1, WholePrinted
  <2> DEFINE w == Whole(docs[d])
  <2>3. DOMAIN w = 1..Len(w) /\ Len(w) \in Nat
    BY <2>2
  <2>4. row(d) = [i \in 1..Len(w) |-> IF <<d, i>> \in seen THEN i - 1 ELSE 0]
    BY <2>3
  <2> HIDE DEF w
  <2>5. \A i \in 1..Len(w) : (IF <<d, i>> \in seen THEN i - 1 ELSE 0) \in Nat
    BY <2>3
  <2>6. row(d) \in Seq(Nat)
    BY <2>3, <2>4, <2>5
  <2> HIDE DEF row
  <2> QED
    BY <2>6, TotalNatural
<1> HIDE DEF row
<1>2. sums \in Seq(Nat)
  BY <1>1
<1>3. Total(sums) \in Nat
  <2> HIDE DEF sums
  <2> QED
    BY <1>2, TotalNatural
<1>4. Cardinality(seen) \in Nat /\ Cardinality(seen) # 0
  BY FS_CardinalityType, FS_EmptySet
<1>5. AverageOrder(docs, seen) = RoundDiv(Total(sums), Cardinality(seen))
  BY DEF AverageOrder, row
<1> HIDE DEF sums
<1> QED
  BY <1>3, <1>4, <1>5, RoundDivNatural

\* What is found of a section, from any place it was sighted at.
LEMMA SectionGroup ==
  ASSUME NEW docs \in Seq(Paper), NEW m \in Int, NEW p \in Places(docs)
  PROVE  SectionAt(docs, m, p) \in Group /\ SectionAt(docs, m, p).first = p
<1> DEFINE s == At(docs, p)
           seen == Sightings(docs, p)
           counts == [q \in seen |-> At(docs, q).count]
<1>1. IsFiniteSet(Places(docs)) /\ \A q \in Places(docs) : q \in Nat \X Nat /\ At(docs, q) \in Printed
  BY PlacesFinite
<1>2. seen \in SUBSET Places(docs) /\ p \in seen
  BY DEF Sightings
<1>3. s \in Printed
  BY <1>1
<1> HIDE DEF s, seen
<1>4. IsFiniteSet(seen)
  BY <1>1, <1>2, FS_Subset
<1>5. AverageOrder(docs, seen) \in Nat /\ Cardinality(seen) \in Nat
  BY <1>2, <1>4, AverageNatural
<1>6. counts \in [seen -> Nat]
  <2>1. \A q \in seen : At(docs, q).count \in Nat
    BY <1>1, <1>2 DEF Printed
  <2> QED
    BY <2>1
<1>7. RoundTo(MedianInt(counts), m) \in Nat
  <2> HIDE DEF counts
  <2>1. MedianInt(counts) \in Nat
    BY <1>4, <1>6, MedianNatural
  <2> QED
    BY <2>1, RoundToNatural
<1>8. s.label \in Heading /\ s.subject \in Heading
  BY <1>3 DEF Printed
<1> DEFINE name == IF s.label # "" THEN s.label ELSE IF s.subject # "none" THEN s.subject ELSE "Section"
<1>9. name \in Heading
  BY <1>8, HeadingAssumption
<1>10. SectionAt(docs, m, p) = [first |-> p, name |-> name, subject |-> s.subject,
                                count |-> RoundTo(MedianInt(counts), m),
                                seenIn |-> Cardinality(seen), order |-> AverageOrder(docs, seen)]
  BY DEF SectionAt, s, seen
<1> HIDE DEF counts, name
<1> QED
  BY <1>1, <1>5, <1>7, <1>8, <1>9, <1>10 DEF Group

\* Where a section was sighted, and how many questions it is given.
Seen(docs, key) == {q \in Places(docs) : KeyOf(At(docs, q)) = key}
CountOf(docs, m, key) == RoundTo(MedianInt([q \in Seen(docs, key) |-> At(docs, q).count]), m)
KeysSeen(docs) == {KeyOf(At(docs, p)) : p \in Places(docs)}

\* A section depends on its key alone, but for the place it is known by and the
\* name it has there.
LEMMA SectionByKey ==
  ASSUME NEW docs, NEW m, NEW p \in Places(docs)
  PROVE  /\ p \in Seen(docs, KeyOf(At(docs, p)))
         /\ SectionAt(docs, m, p).subject = At(docs, p).subject
         /\ SectionAt(docs, m, p).count = CountOf(docs, m, KeyOf(At(docs, p)))
         /\ SectionAt(docs, m, p).seenIn = Cardinality(Seen(docs, KeyOf(At(docs, p))))
         /\ SectionAt(docs, m, p).order = AverageOrder(docs, Seen(docs, KeyOf(At(docs, p))))
<1> DEFINE seen == Sightings(docs, p)
           count == RoundTo(MedianInt([q \in seen |-> At(docs, q).count]), m)
           name == IF At(docs, p).label # "" THEN At(docs, p).label
                   ELSE IF At(docs, p).subject # "none" THEN At(docs, p).subject ELSE "Section"
<1>1. seen = Seen(docs, KeyOf(At(docs, p))) /\ p \in seen
  BY DEF Sightings, Seen
<1>2. SectionAt(docs, m, p) = [first |-> p, name |-> name, subject |-> At(docs, p).subject,
                               count |-> count, seenIn |-> Cardinality(seen),
                               order |-> AverageOrder(docs, seen)]
  BY DEF SectionAt
<1>3. count = CountOf(docs, m, KeyOf(At(docs, p)))
  BY <1>1 DEF CountOf
<1> HIDE DEF seen, count, name
<1> QED
  BY <1>1, <1>2, <1>3

\* The first of some places.
LEMMA FirstPlace ==
  ASSUME NEW S \in SUBSET (Nat \X Nat), S # {}
  PROVE  \E p \in S : \A q \in S : ~Before(q, p)
<1> DEFINE D == {p[1] : p \in S}
<1>1. D \in SUBSET Nat /\ D # {}
  OBVIOUS
<1> HIDE DEF D
<1>2. PICK d \in D : \A e \in D : d <= e
  BY <1>1, LeastOfSet
<1> DEFINE I == {p[2] : p \in {q \in S : q[1] = d}}
<1>3. I \in SUBSET Nat /\ I # {}
  BY <1>2 DEF D
<1> HIDE DEF I
<1>4. PICK i \in I : \A j \in I : i <= j
  BY <1>3, LeastOfSet
<1>5. PICK p \in S : p[1] = d /\ p[2] = i
  BY <1>4 DEF I
<1>6. ASSUME NEW q \in S PROVE ~Before(q, p)
  <2>1. d \in Nat /\ i \in Nat /\ q[1] \in Nat /\ q[2] \in Nat
    BY <1>1, <1>2, <1>3, <1>4
  <2>2. d <= q[1]
    BY <1>2 DEF D
  <2>3. q[1] = d => i <= q[2]
    BY <1>4 DEF I
  <2> QED
    BY <1>5, <2>1, <2>2, <2>3 DEF Before
<1> QED
  BY <1>6

\* Every section sighted is a group, known by one place.
LEMMA OneGroup ==
  ASSUME NEW docs \in Seq(Paper)
  PROVE  /\ CollectGroups(docs) \in SUBSET Places(docs)
         /\ \A p \in Places(docs) : \E q \in CollectGroups(docs) : KeyOf(At(docs, q)) = KeyOf(At(docs, p))
         /\ \A p, q \in CollectGroups(docs) : KeyOf(At(docs, q)) = KeyOf(At(docs, p)) => p = q
<1>1. \A p \in Places(docs) : p \in Nat \X Nat
  BY PlacesFinite
<1>2. CollectGroups(docs) \in SUBSET Places(docs)
  BY DEF CollectGroups
<1>3. \A p \in Places(docs) : Sightings(docs, p) = Seen(docs, KeyOf(At(docs, p)))
  BY DEF Sightings, Seen
<1>4. ASSUME NEW p \in Places(docs)
      PROVE  \E q \in CollectGroups(docs) : KeyOf(At(docs, q)) = KeyOf(At(docs, p))
  <2> DEFINE S == Seen(docs, KeyOf(At(docs, p)))
  <2>1. S \in SUBSET (Nat \X Nat) /\ S # {}
    BY <1>1, SectionByKey DEF Seen
  <2>2. S \in SUBSET Places(docs) /\ \A q \in S : KeyOf(At(docs, q)) = KeyOf(At(docs, p))
    BY DEF Seen
  <2>3. \A q \in S : Sightings(docs, q) = S
    BY <1>3, <2>2
  <2> HIDE DEF S
  <2>4. PICK q \in S : \A r \in S : ~Before(r, q)
    BY <2>1, FirstPlace
  <2>5. q \in CollectGroups(docs)
    BY <2>2, <2>3, <2>4 DEF CollectGroups
  <2> QED
    BY <2>2, <2>5
<1>5. ASSUME NEW p \in CollectGroups(docs), NEW q \in CollectGroups(docs),
             KeyOf(At(docs, q)) = KeyOf(At(docs, p))
      PROVE  p = q
  <2>1. p \in Sightings(docs, q) /\ q \in Sightings(docs, p)
    BY <1>2, <1>5 DEF Sightings
  <2>2. ~Before(p, q) /\ ~Before(q, p)
    BY <2>1 DEF CollectGroups
  <2>3. p \in Nat \X Nat /\ q \in Nat \X Nat
    BY <1>1, <1>2
  <2>4. p[1] = q[1] /\ p[2] = q[2] /\ p = <<p[1], p[2]>> /\ q = <<q[1], q[2]>>
    BY <2>2, <2>3 DEF Before
  <2> QED
    BY <2>4
<1> QED
  BY <1>2, <1>4, <1>5

\* The groups that count, and the place of each in the draft: as many are ahead
\* of it as its place says.
Kept(docs, m) == {g \in {SectionAt(docs, m, p) : p \in CollectGroups(docs)} : g.count > 0}
LEMMA SectionsListed ==
  ASSUME NEW docs \in Seq(Paper), NEW m \in Int
  PROVE  /\ BuildSections(docs, m) \in Seq(Group)
         /\ IsFiniteSet(Kept(docs, m)) /\ Kept(docs, m) \in SUBSET Group /\ Apart(Kept(docs, m))
         /\ Len(BuildSections(docs, m)) = Cardinality(Kept(docs, m))
         /\ \A n \in 1..Len(BuildSections(docs, m)) :
              /\ BuildSections(docs, m)[n] \in Kept(docs, m)
              /\ Cardinality({h \in Kept(docs, m) : Ahead(h, BuildSections(docs, m)[n])}) = n - 1
         /\ \A g \in Kept(docs, m) : \E n \in 1..Len(BuildSections(docs, m)) :
              BuildSections(docs, m)[n] = g
<1> DEFINE groups == {SectionAt(docs, m, p) : p \in CollectGroups(docs)}
           f == [p \in CollectGroups(docs) |-> SectionAt(docs, m, p)]
           kept == Kept(docs, m)
           list == BuildSections(docs, m)
           N == Cardinality(kept)
           rank(g) == Cardinality({h \in kept : Ahead(h, g)})
<1>1. CollectGroups(docs) \in SUBSET Places(docs) /\ IsFiniteSet(CollectGroups(docs))
  <2>1. CollectGroups(docs) \in SUBSET Places(docs)
    BY DEF CollectGroups
  <2>2. IsFiniteSet(Places(docs))
    BY PlacesFinite
  <2> QED
    BY <2>1, <2>2, FS_Subset
<1>2. \A p \in CollectGroups(docs) : SectionAt(docs, m, p) \in Group /\ SectionAt(docs, m, p).first = p
  BY <1>1, SectionGroup
<1>3. groups = {f[p] : p \in CollectGroups(docs)} /\ DOMAIN f = CollectGroups(docs)
  OBVIOUS
<1>4. kept \in SUBSET Group /\ Apart(kept) /\ kept \in SUBSET groups
  BY <1>2 DEF Apart, Kept
<1>5. list = [n \in 1..N |-> CHOOSE g \in kept : rank(g) = n - 1]
  BY DEF BuildSections, Kept
<1> HIDE DEF f, groups, kept
<1>6. IsFiniteSet(kept)
  <2>1. IsFiniteSet(groups)
    BY <1>1, <1>3, ImageFinite
  <2> QED
    BY <1>4, <2>1, FS_Subset
<1>7. N \in Nat
  BY <1>6, FS_CardinalityType
<1> HIDE DEF list
<1>8. ASSUME NEW n \in 1..N PROVE list[n] \in kept /\ rank(list[n]) = n - 1
  <2>1. n - 1 \in Nat /\ n - 1 < N
    BY <1>7
  <2>2. \E g \in kept : rank(g) = n - 1
    BY <1>4, <1>6, <2>1, EveryRank
  <2> HIDE DEF rank
  <2>3. list[n] = CHOOSE g \in kept : rank(g) = n - 1
    BY <1>5
  <2> QED
    BY <2>2, <2>3
<1>9. list \in Seq(Group) /\ Len(list) = N /\ DOMAIN list = 1..N
  <2> HIDE DEF N, rank
  <2> QED
    BY <1>4, <1>5, <1>7, <1>8
<1> DEFINE image == {list[n] : n \in 1..N}
<1>10. image = kept
  <2>1. list \in Surjection(1..N, image)
    BY <1>5, <1>9 DEF Surjection
  <2>2. \A n, k \in 1..N : list[n] = list[k] => n = k
    <3> SUFFICES ASSUME NEW n \in 1..N, NEW k \in 1..N, list[n] = list[k] PROVE n = k
      OBVIOUS
    <3>1. n - 1 = k - 1
      BY <1>8
    <3> QED
      BY <1>7, <3>1
  <2>3. image \in SUBSET kept
    BY <1>8
  <2> HIDE DEF image, N, rank
  <2>4. list \in Bijection(1..N, image)
    BY <2>1, <2>2 DEF Bijection, Injection, Surjection, IsInjective
  <2>5. ExistsBijection(1..N, image)
    BY <2>4 DEF ExistsBijection
  <2>6. IsFiniteSet(1..N) /\ Cardinality(1..N) = N
    BY <1>7, FS_Interval
  <2>7. Cardinality(image) = N
    BY <2>5, <2>6, FS_Bijection
  <2> QED
    BY <1>6, <2>3, <2>7, FiniteParts DEF N
<1>11. \A g \in kept : \E n \in 1..N : list[n] = g
  BY <1>10
<1> QED
  BY <1>4, <1>6, <1>8, <1>9, <1>11 DEF list, kept

\* The draft's sections are well-formed, whatever papers it was inferred from.
LEMMA DraftTyped ==
  ASSUME NEW o \in Seq(Paper), NEW m \in Multiples
  PROVE  Analyze(o, m).sections \in Seq(Drafted)
<1> DEFINE docs == WithQuestions(o)
           list == BuildSections(docs, m)
           counts == [i \in DOMAIN list |-> list[i].count]
           sizes == [i \in DOMAIN docs |-> docs[i].questions]
           total == IF Total(counts) > 0 THEN Total(counts) ELSE RoundTo(MedianInt(sizes), m)
<1>1. docs \in Seq(Paper)
  BY PapersKept
<1>2. m \in Int
  BY MultiplesAssumption
<1> HIDE DEF docs
<1>3. list \in Seq(Group)
  BY <1>1, <1>2, SectionsListed
<1> HIDE DEF list
<1>4. \A i \in DOMAIN list : list[i] \in Group /\ list[i].count \in Nat
  <2>1. \A i \in DOMAIN list : list[i] \in Group
    BY <1>3
  <2> QED
    BY <2>1 DEF Group
<1>5. counts \in Seq(Nat)
  BY <1>3, <1>4
<1>6. Total(counts) \in Nat
  <2> HIDE DEF counts
  <2> QED
    BY <1>5, TotalNatural
<1>7. RoundTo(MedianInt(sizes), m) \in Nat
  <2>1. \A i \in DOMAIN docs : docs[i].questions \in Nat
    BY <1>1, PaperAssumption
  <2>2. sizes \in [DOMAIN docs -> Nat]
    BY <2>1
  <2>3. IsFiniteSet(DOMAIN docs)
    <3>1. DOMAIN docs = 1..Len(docs) /\ Len(docs) \in Nat
      BY <1>1
    <3> QED
      BY <3>1, FS_Interval
  <2> HIDE DEF sizes
  <2>4. MedianInt(sizes) \in Nat
    BY <2>2, <2>3, MedianNatural
  <2> QED
    BY <1>2, <2>4, RoundToNatural
<1> HIDE DEF counts, sizes
<1>8. total \in Nat
  BY <1>6, <1>7
<1>9. Analyze(o, m).sections = AssignWeightage(list, total)
  BY DEF Analyze, docs, list, counts, sizes
<1> HIDE DEF total
<1>10. ASSUME NEW i \in DOMAIN list
       PROVE  [name |-> list[i].name, subject |-> list[i].subject, count |-> list[i].count,
               seenIn |-> list[i].seenIn,
               weightage |-> IF total > 0 THEN RoundDiv(10000 * list[i].count, total) ELSE 0] \in Drafted
  <2> DEFINE w == IF total > 0 THEN RoundDiv(10000 * list[i].count, total) ELSE 0
  <2>1. w \in Nat
    <3>1. 10000 * list[i].count \in Nat
      BY <1>4
    <3>2. ASSUME total > 0 PROVE RoundDiv(10000 * list[i].count, total) \in Nat
      <4> DEFINE x == 10000 * list[i].count
      <4>1. x \in Nat
        BY <3>1
      <4> HIDE DEF x
      <4>2. RoundDiv(x, total) \in Nat
        BY <1>8, <3>2, <4>1, RoundDivNatural
      <4> QED
        BY <4>2 DEF x
    <3> QED
      BY <3>2
  <2> HIDE DEF w
  <2>2. list[i] \in Group
    BY <1>4
  <2>3. [name |-> list[i].name, subject |-> list[i].subject, count |-> list[i].count,
         seenIn |-> list[i].seenIn, weightage |-> w] \in Drafted
    BY <2>1, <2>2 DEF Group, Drafted
  <2> QED
    BY <2>3 DEF w
<1> DEFINE new(i) == [name |-> list[i].name, subject |-> list[i].subject, count |-> list[i].count,
                      seenIn |-> list[i].seenIn,
                      weightage |-> IF total > 0 THEN RoundDiv(10000 * list[i].count, total) ELSE 0]
<1>11. AssignWeightage(list, total) = [i \in DOMAIN list |-> new(i)] /\ \A i \in DOMAIN list : new(i) \in Drafted
  BY <1>10 DEF AssignWeightage
<1>12. DOMAIN list = 1..Len(list) /\ Len(list) \in Nat
  BY <1>3
<1> HIDE DEF new
<1> QED
  BY <1>9, <1>11, <1>12

-----------------------------------------------------------------------------
\* The invariant is preserved

\* Nothing is read or built yet.
LEMMA InitPapers == Init => PaperInv
<1> SUFFICES ASSUME Init PROVE PaperInv
  OBVIOUS
<1>1. /\ stage = "read" /\ observed = <<>> /\ multiple \in Multiples /\ sections = <<>>
      /\ papers = <<>>
  BY DEF Init
<1>2. observed \in Seq(Paper) /\ sections \in Seq(Section) /\ papers \in Seq(SUBSET UNION Bank)
  BY <1>1
<1> QED
  BY <1>1, <1>2 DEF PaperInv

\* The invariant is of the variables alone.
LEMMA SamePapers ==
  ASSUME PaperInv, UNCHANGED vars
  PROVE  PaperInv'
<1>1. \A i : FillRight(i)' <=> FillRight(i)
  BY DEF FillRight, Used, Questions, vars
<1>2. BuildInv => BuildInv'
  BY <1>1 DEF BuildInv, vars
<1> QED
  BY <1>2 DEF PaperInv, vars

\* One more paper is observed.
LEMMA ReadDocumentPapers ==
  ASSUME PaperInv, ReadDocument
  PROVE  PaperInv'
<1>1. /\ stage = "read" /\ stage' = "read" /\ multiple' = multiple
      /\ sections' = sections /\ bank' = bank /\ papers' = papers
  BY DEF ReadDocument, building
<1>2. PICK p \in Paper : observed' = Append(observed, p)
  BY DEF ReadDocument
<1>3. observed \in Seq(Paper) /\ multiple \in Multiples
  BY <1>1 DEF PaperInv
<1>4. observed' \in Seq(Paper)
  BY <1>2, <1>3
<1> QED
  BY <1>1, <1>3, <1>4 DEF PaperInv

\* The draft is the analysis of what was read.
LEMMA InferPatternPapers ==
  ASSUME PaperInv, InferPattern
  PROVE  PaperInv'
<1>1. /\ stage = "read" /\ stage' = "draft" /\ draft' = Analyze(observed, multiple)
      /\ observed' = observed /\ multiple' = multiple
      /\ sections' = sections /\ bank' = bank /\ papers' = papers
  BY DEF InferPattern, building
<1>2. observed \in Seq(Paper) /\ multiple \in Multiples
  BY <1>1 DEF PaperInv
<1> QED
  BY <1>1, <1>2 DEF PaperInv

\* The draft's sections become the pattern's.
LEMMA SaveDraftPapers ==
  ASSUME PaperInv, SaveDraft
  PROVE  PaperInv'
<1>1. /\ stage = "draft" /\ stage' = "ready" /\ bank' = bank /\ papers' = papers
      /\ sections' = [i \in DOMAIN draft.sections |->
           [subject |-> draft.sections[i].subject, count |-> draft.sections[i].count, mix |-> DefaultMix]]
  BY DEF SaveDraft, building
<1> DEFINE list == draft.sections
<1>2. list \in Seq(Drafted)
  <2>1. observed \in Seq(Paper) /\ multiple \in Multiples /\ draft = Analyze(observed, multiple)
    BY <1>1 DEF PaperInv
  <2> QED
    BY <2>1, DraftTyped
<1>3. sections' = [i \in DOMAIN list |->
                     [subject |-> list[i].subject, count |-> list[i].count, mix |-> DefaultMix]]
  BY <1>1
<1> HIDE DEF list
<1>4. ASSUME NEW i \in DOMAIN list
      PROVE  [subject |-> list[i].subject, count |-> list[i].count, mix |-> DefaultMix] \in Section
  <2>1. list[i] \in Drafted
    BY <1>2
  <2>2. DefaultMix \in Shares
    BY DefaultPercent DEF DefaultMix, Percent
  <2> QED
    BY <2>1, <2>2 DEF Drafted, Section
<1>5. DOMAIN list = 1..Len(list) /\ Len(list) \in Nat
  BY <1>2
<1>6. sections' \in Seq(Section)
  BY <1>3, <1>4, <1>5
<1> QED
  BY <1>1, <1>6 DEF PaperInv

\* The user's sections become the pattern's.
LEMMA EnterByHandPapers ==
  ASSUME PaperInv, EnterByHand
  PROVE  PaperInv'
<1>1. stage' = "ready" /\ bank' = bank /\ papers' = papers /\ \E h \in ByHand : sections' = h
  BY DEF EnterByHand, building
<1>2. sections' \in Seq(Section)
  BY <1>1, PatternAssumption
<1> QED
  BY <1>1, <1>2 DEF PaperInv

\* The request, its plan and its report are set together.
LEMMA GeneratePaperPapers ==
  ASSUME PaperInv, GeneratePaper
  PROVE  PaperInv'
<1> DEFINE earlier == UNION {papers[i] : i \in DOMAIN papers}
           Asking(r, series) ==
             [r EXCEPT !.excluded = IF series THEN r.excluded \union earlier ELSE r.excluded]
<1>1. stage' = "build" /\ filled' = <<>> /\ sections' = sections /\ papers' = papers
  BY DEF GeneratePaper, reading
<1>2. PICK b \in IF papers = <<>> THEN Bank ELSE {bank}, r \in Request, series \in BOOLEAN :
        /\ bank' = b /\ req' = Asking(r, series)
        /\ \E lost : report' = Inspect(b, Asking(r, series), sections, lost)
        /\ report'.available > 0
        /\ plans' = ScaleSections(Asking(r, series), sections)
  BY DEF GeneratePaper
<1>3. papers \in Seq(SUBSET UNION Bank) /\ sections \in Seq(Section) /\ (papers # <<>> => bank \in Bank)
  BY DEF PaperInv
<1>4. bank' \in Bank
  BY <1>2, <1>3
<1>5. earlier \in SUBSET UNION Bank
  BY <1>3
<1>6. r \in Asked
  BY RequestAssumption
<1>7. req' \in Asked
  <2> HIDE DEF earlier
  <2>1. r.excluded \in SUBSET UNION Bank
    BY <1>6 DEF Asked
  <2>2. (IF series THEN r.excluded \union earlier ELSE r.excluded) \in SUBSET UNION Bank
    BY <1>5, <2>1
  <2> QED
    BY <1>2, <1>6, <2>2 DEF Asked
<1>8. report' = Inspect(bank', req', sections', report'.uncounted) /\ report'.available > 0
      /\ plans' = ScaleSections(req', sections')
  <2>1. PICK lost : report' = Inspect(bank', req', sections', lost)
    BY <1>1, <1>2
  <2>2. report'.uncounted = lost
    BY <2>1 DEF Inspect
  <2> QED
    BY <1>1, <1>2, <2>1, <2>2
<1>9. filled' \in Seq(Fill) /\ Len(filled') = 0 /\ Len(filled') <= Len(plans')
  <2>1. plans' \in Seq(Plan)
    BY <1>1, <1>3, <1>7, <1>8, PlansTyped
  <2>2. Len(plans') \in Nat
    BY <2>1
  <2> QED
    BY <1>1, <2>2
<1>10. BuildInv'
  BY <1>7, <1>8, <1>9 DEF BuildInv
<1> QED
  BY <1>1, <1>3, <1>4, <1>10 DEF PaperInv

\* The paper's questions are the bank's.
LEMMA StorePapers ==
  ASSUME PaperInv, Store
  PROVE  PaperInv'
<1>1. /\ stage = "build" /\ stage' = "ready" /\ sections' = sections /\ bank' = bank
      /\ papers' = IF Questions(filled) = {} THEN papers ELSE Append(papers, Questions(filled))
  BY DEF Store, reading
<1>2. /\ papers \in Seq(SUBSET UNION Bank) /\ sections \in Seq(Section) /\ bank \in Bank
      /\ filled \in Seq(Fill)
  BY <1>1 DEF PaperInv, BuildInv
<1>3. Questions(filled) \in SUBSET UNION Bank
  <2>1. \A i \in DOMAIN filled : filled[i] \in Fill
    BY <1>2
  <2>2. \A i \in DOMAIN filled : filled[i].chosen \in SUBSET UNION Bank
    BY <2>1 DEF Fill
  <2> QED
    BY <2>2 DEF Questions
<1>4. papers' \in Seq(SUBSET UNION Bank)
  BY <1>1, <1>2, <1>3
<1> QED
  BY <1>1, <1>2, <1>4 DEF PaperInv

\* The section filled draws on candidates no other section has, among all unused ones,
\* and what it takes narrows what is left for those before it no further.
LEMMA FillSectionPapers ==
  ASSUME PaperInv, FillSection
  PROVE  PaperInv'
<1> DEFINE n == Len(filled) + 1
           free == LoadCandidates(bank, req, plans[n].subject) \ Used
<1>1. /\ stage = "build" /\ Len(filled) < Len(plans)
      /\ UNCHANGED <<stage, observed, multiple, draft, sections, bank, req, report, plans, papers>>
      /\ \E S \in SelectForSection(free, plans[n]) :
           filled' = Append(filled, [free |-> free, chosen |-> S])
  BY DEF FillSection, reading
<1>2. PICK S \in SelectForSection(free, plans[n]) :
        filled' = Append(filled, [free |-> free, chosen |-> S])
  BY <1>1
<1>3. /\ req \in Asked /\ sections \in Seq(Section) /\ bank \in Bank
      /\ plans = ScaleSections(req, sections) /\ filled \in Seq(Fill) /\ Len(filled) <= Len(plans)
      /\ \A i \in 1..Len(filled) : FillRight(i)
      /\ report = Inspect(bank, req, sections, report.uncounted) /\ report.available > 0
  BY <1>1 DEF PaperInv, BuildInv
<1>4. Len(filled) \in Nat /\ Len(plans) \in Nat
  <2>1. plans \in Seq(Plan)
    BY <1>3, PlansTyped
  <2> QED
    BY <1>3, <2>1
<1>5. free \in SUBSET UNION Bank /\ S \in SUBSET free
  BY <1>3 DEF LoadCandidates, SelectForSection
<1> DEFINE new == [free |-> free, chosen |-> S]
<1>6. new \in Fill /\ new.free = free /\ new.chosen = S
  BY <1>5 DEF Fill
<1>7. free \subseteq LoadCandidates(bank, req, plans[n].subject) \ req.excluded
      /\ LoadCandidates(bank, req, plans[n].subject) \ Used \subseteq free
  BY DEF Used
<1>8. \A j \in 1..Len(filled) : filled[j].chosen \intersect free = {}
  <2>1. \A j \in 1..Len(filled) : filled[j].chosen \subseteq Questions(filled)
    BY <1>3 DEF Questions
  <2> QED
    BY <2>1 DEF Used
<1> HIDE DEF free, n
<1>9. filled' = Append(filled, new)
  BY <1>2
<1> HIDE DEF new
<1>10. filled' \in Seq(Fill) /\ Len(filled') = n /\ filled'[n] = new
       /\ \A i \in 1..Len(filled) : filled'[i] = filled[i]
  BY <1>3, <1>6, <1>9 DEF n
<1>11. Used \subseteq Used'
  <2>1. \A i \in DOMAIN filled : i \in DOMAIN filled' /\ filled'[i] = filled[i]
    BY <1>3, <1>4, <1>10 DEF n
  <2>2. Questions(filled) \subseteq Questions(filled')
    BY <2>1 DEF Questions
  <2> QED
    BY <1>1, <2>2 DEF Used
<1>12. ASSUME NEW i \in 1..Len(filled) PROVE FillRight(i)'
  <2>1. FillRight(i)
    BY <1>3
  <2>2. i \in Nat /\ \A j \in 1..(i - 1) : j \in 1..Len(filled)
    BY <1>4
  <2> QED
    BY <1>1, <1>10, <1>11, <2>1, <2>2 DEF FillRight
<1>13. ASSUME NEW i \in {n} PROVE FillRight(i)'
  <2>1. \A j \in 1..(i - 1) : filled'[j].chosen \intersect free = {}
    BY <1>4, <1>8, <1>10 DEF n
  <2>2. i = n
    OBVIOUS
  <2> QED
    BY <1>1, <1>2, <1>6, <1>7, <1>10, <1>11, <2>1, <2>2 DEF FillRight
<1>14. \A i \in 1..Len(filled') : FillRight(i)'
  <2>1. \A i \in 1..Len(filled') : i \in 1..Len(filled) \/ i \in {n}
    BY <1>4, <1>10 DEF n
  <2> QED
    BY <1>12, <1>13, <2>1
<1>15. Len(filled') <= Len(plans')
  BY <1>1, <1>4, <1>10 DEF n
<1>16. BuildInv'
  BY <1>1, <1>3, <1>10, <1>14, <1>15 DEF BuildInv
<1> QED
  BY <1>1, <1>16 DEF PaperInv

\* The inductive invariant holds of every reachable state: every section filled
\* so far was filled from candidates that no other section had taken, among all
\* that were still unused, and the plan and the supply report are those of the
\* request at work (build.go, Build).
THEOREM PaperInvariant == Spec => []PaperInv
<1>1. PaperInv /\ [Next]_vars => PaperInv'
  <2> SUFFICES ASSUME PaperInv, [Next]_vars PROVE PaperInv'
    OBVIOUS
  <2>1. CASE ReadDocument
    BY <2>1, ReadDocumentPapers
  <2>2. CASE InferPattern
    BY <2>2, InferPatternPapers
  <2>3. CASE SaveDraft
    BY <2>3, SaveDraftPapers
  <2>4. CASE EnterByHand
    BY <2>4, EnterByHandPapers
  <2>5. CASE GeneratePaper
    BY <2>5, GeneratePaperPapers
  <2>6. CASE FillSection
    BY <2>6, FillSectionPapers
  <2>7. CASE Store
    BY <2>7, StorePapers
  <2>8. CASE UNCHANGED vars
    BY <2>8, SamePapers
  <2> QED
    BY <2>1, <2>2, <2>3, <2>4, <2>5, <2>6, <2>7, <2>8 DEF Next
<1> QED
  BY <1>1, InitPapers, PTL DEF Spec

-----------------------------------------------------------------------------
\* What the invariant says of a paper

\* All there is to know of a filled section.
LEMMA FilledSections ==
  ASSUME PaperInv, stage = "build", NEW i \in DOMAIN filled
  PROVE  /\ i \in 1..Len(filled) /\ i \in DOMAIN plans /\ plans[i] \in Plan
         /\ FillRight(i) /\ bank \in Bank /\ req \in Asked
         /\ filled[i].chosen \in SUBSET filled[i].free
         /\ filled[i].free \in SUBSET LoadCandidates(bank, req, plans[i].subject)
         /\ filled[i].free \intersect req.excluded = {}
         /\ \/ Cardinality(filled[i].chosen) = plans[i].want
            \/ /\ Cardinality(filled[i].chosen) < plans[i].want
               /\ filled[i].chosen = filled[i].free
         /\ \A d \in Difficulty : Cardinality(Buckets(filled[i].chosen)[d])
                 >= Min({Targets(plans[i])[d], Sizes(filled[i].free)[d]})
<1>1. BuildInv /\ sections \in Seq(Section) /\ bank \in Bank
  BY DEF PaperInv
<1>2. /\ req \in Asked /\ plans = ScaleSections(req, sections) /\ filled \in Seq(Fill)
      /\ Len(filled) <= Len(plans) /\ \A j \in 1..Len(filled) : FillRight(j)
  BY <1>1 DEF BuildInv
<1>3. plans \in Seq(Plan)
  BY <1>1, <1>2, PlansTyped
<1>4. i \in 1..Len(filled) /\ i \in 1..Len(plans)
  BY <1>2, <1>3
<1>5. i \in DOMAIN plans /\ plans[i] \in Plan /\ FillRight(i)
  BY <1>2, <1>3, <1>4
<1> DEFINE free == filled[i].free
           S == filled[i].chosen
           p == plans[i]
<1>6. S \in SelectForSection(free, p) /\ free \subseteq LoadCandidates(bank, req, p.subject) \ req.excluded
  BY <1>5 DEF FillRight
<1> HIDE DEF free, S, p
<1>7. free \in SUBSET LoadCandidates(bank, req, p.subject) /\ free \intersect req.excluded = {}
  BY <1>6
<1>8. IsFiniteSet(free) /\ \A q \in free : q.difficulty \in Difficulty
  <2>1. bank \in Bank /\ free \in SUBSET LoadCandidates(bank, req, p.subject)
    BY <1>1, <1>7
  <2> QED
    BY <2>1, CandidatesFinite
<1>9. p \in Plan
  BY <1>5 DEF p
<1>10. /\ S \subseteq free
       /\ Cardinality(S) = p.want \/ (Cardinality(S) < p.want /\ S = free)
       /\ \A d \in Difficulty : Cardinality(Buckets(S)[d]) >= Min({Targets(p)[d], Sizes(free)[d]})
  BY <1>6, <1>8, <1>9, ChoiceFills
<1> QED
  BY <1>1, <1>2, <1>4, <1>5, <1>7, <1>10 DEF free, S, p

\* No question is in two sections of a paper, in two papers of a series or against
\* the request, every one is of a status, a verdict and an answer the request
\* allows, and a section falls short only when nothing that could fill it is left
\* (resolveExclusions, loadCandidates and the loop over the sections in Build).
THEOREM PaperSoundHolds == Spec => []PaperSound
<1>1. ASSUME PaperInv PROVE PaperSound
  <2> SUFFICES ASSUME stage = "build"
               PROVE  /\ \A i, j \in DOMAIN filled :
                           i # j => filled[i].chosen \intersect filled[j].chosen = {}
                      /\ Questions(filled) \intersect req.excluded = {}
                      /\ \A q \in Questions(filled) :
                           /\ q.status # "rejected" /\ (q.passed \/ req.unvetted)
                           /\ (q.answered \/ ~req.requireAnswer)
                      /\ \A i \in DOMAIN filled :
                           LET left == LoadCandidates(bank, req, plans[i].subject) \ Used IN
                             \/ Cardinality(filled[i].chosen) = plans[i].want
                             \/ Cardinality(filled[i].chosen) < plans[i].want /\ left = {}
    BY DEF PaperSound
  <2>1. \A i \in DOMAIN filled :
          /\ i \in 1..Len(filled) /\ FillRight(i)
          /\ filled[i].chosen \in SUBSET filled[i].free
          /\ filled[i].free \in SUBSET LoadCandidates(bank, req, plans[i].subject)
          /\ filled[i].free \intersect req.excluded = {}
          /\ \/ Cardinality(filled[i].chosen) = plans[i].want
             \/ /\ Cardinality(filled[i].chosen) < plans[i].want
                /\ filled[i].chosen = filled[i].free
    BY <1>1, FilledSections
  <2>2. Len(filled) \in Nat
    BY <1>1 DEF PaperInv, BuildInv
  <2>3. ASSUME NEW i \in DOMAIN filled, NEW j \in DOMAIN filled, i < j
        PROVE  filled[i].chosen \intersect filled[j].chosen = {}
    <3>1. i \in 1..Len(filled) /\ j \in 1..Len(filled)
      BY <2>1
    <3>2. i \in 1..(j - 1)
      BY <2>2, <2>3, <3>1
    <3>3. FillRight(j) /\ filled[j].chosen \in SUBSET filled[j].free
      BY <2>1
    <3>4. filled[i].chosen \intersect filled[j].free = {}
      BY <3>2, <3>3 DEF FillRight
    <3> QED
      BY <3>3, <3>4
  <2>4. ASSUME NEW i \in DOMAIN filled, NEW j \in DOMAIN filled, i # j
        PROVE  filled[i].chosen \intersect filled[j].chosen = {}
    <3>1. i < j \/ j < i
      BY <2>1, <2>2, <2>4
    <3> QED
      BY <2>3, <3>1
  <2>5. Questions(filled) \intersect req.excluded = {}
    BY <2>1 DEF Questions
  <2>6. ASSUME NEW q \in Questions(filled)
        PROVE  /\ q.status # "rejected" /\ (q.passed \/ req.unvetted)
               /\ (q.answered \/ ~req.requireAnswer)
    <3>1. PICK i \in DOMAIN filled : q \in filled[i].chosen
      BY DEF Questions
    <3>2. q \in LoadCandidates(bank, req, plans[i].subject)
      BY <2>1, <3>1
    <3>3. IF req.onlyApproved THEN q.status = "approved" ELSE q.status # "rejected"
      BY <3>2 DEF LoadCandidates
    <3>4. (req.requireAnswer => q.answered) /\ (req.unvetted \/ q.passed)
      BY <3>2, Zenon DEF LoadCandidates
    <3>5. q.status # "rejected"
      BY <3>3
    <3> QED
      BY <3>4, <3>5, Zenon
  <2>7. ASSUME NEW i \in DOMAIN filled, filled[i].chosen = filled[i].free
        PROVE  LoadCandidates(bank, req, plans[i].subject) \ Used = {}
    <3>1. LoadCandidates(bank, req, plans[i].subject) \ Used \subseteq filled[i].free
      BY <2>1 DEF FillRight
    <3>2. filled[i].free \subseteq Used
      BY <2>7 DEF Used, Questions
    <3> QED
      BY <3>1, <3>2
  <2> QED
    BY <2>1, <2>4, <2>5, <2>6, <2>7
<1> QED
  BY <1>1, PaperInvariant, PTL

\* A section has as many questions of each difficulty as its mix calls for, or
\* every one there was (selectForSection).
THEOREM MixHonouredHolds == Spec => []MixHonoured
<1>1. ASSUME PaperInv PROVE MixHonoured
  <2> SUFFICES ASSUME stage = "build", NEW i \in DOMAIN filled, NEW d \in Difficulty
               PROVE  Cardinality(Buckets(filled[i].chosen)[d])
                        >= Min({Targets(plans[i])[d], Cardinality(Buckets(filled[i].free)[d])})
    BY DEF MixHonoured
  <2>1. Sizes(filled[i].free)[d] = Cardinality(Buckets(filled[i].free)[d])
    BY DEF Sizes
  <2>2. Cardinality(Buckets(filled[i].chosen)[d])
          >= Min({Targets(plans[i])[d], Sizes(filled[i].free)[d]})
    BY <1>1, FilledSections
  <2> QED
    BY <2>1, <2>2
<1> QED
  BY <1>1, PaperInvariant, PTL

\* The sections' targets add up to the size asked for, whatever rounding does: to more
\* only if nothing is left for the last, and then by fewer than there are sections; all
\* but the last ask for something (scaleSections).
THEOREM PlanCoversRequestHolds == Spec => []PlanCoversRequest
<1>1. ASSUME PaperInv PROVE PlanCoversRequest
  <2> SUFFICES ASSUME stage = "build", req.total > 0
               PROVE  /\ Planned >= req.total /\ Planned < req.total + Len(plans)
                      /\ Planned > req.total => plans[Len(plans)].want = 0
                      /\ \A i \in 1..(Len(plans) - 1) : plans[i].want >= 1
    BY DEF PlanCoversRequest
  <2> DEFINE u == Usable(sections)
  <2>1. /\ req \in Asked /\ sections \in Seq(Section) /\ plans = ScaleSections(req, sections)
        /\ Inspect(bank, req, sections, report.uncounted).available > 0
    BY <1>1 DEF PaperInv, BuildInv
  <2>2. plans # <<>>
    BY <2>1, AvailablePlans
  <2>3. plans \in Seq(Plan) /\ Len(plans) = Len(u) /\ [i \in DOMAIN plans |-> plans[i].want] = Wants(req, u)
    BY <2>1, PlansTyped
  <2>4. u \in Seq(Counted)
    BY <2>1, UsableSections
  <2> HIDE DEF u
  <2> DEFINE sum == RunningSum(Wants(req, u))[Len(u)]
  <2>5. /\ \A i \in 1..(Len(u) - 1) : Wants(req, u)[i] >= 1
        /\ u # <<>> => /\ sum >= Target(req, u) /\ sum < Target(req, u) + Len(u)
                       /\ sum > Target(req, u) => Wants(req, u)[Len(u)] = 0
    BY <2>1, <2>4, WantsCover
  <2>6. u # <<>>
    BY <2>2, <2>3, <2>4
  <2>7. Target(req, u) = req.total
    BY DEF Target
  <2>8. ASSUME NEW i \in 1..(Len(plans) - 1) PROVE plans[i].want >= 1
    <3>1. i \in DOMAIN plans
      BY <2>3
    <3>2. Wants(req, u)[i] = plans[i].want
      BY <2>3, <3>1
    <3> QED
      BY <2>3, <2>5, <3>2
  <2>9. Len(Wants(req, u)) = Len(u)
    BY <2>1, <2>4, WantsCover
  <2>10. Planned = sum
    BY <2>3, <2>9 DEF Total, Planned
  <2>11. plans[Len(plans)].want = Wants(req, u)[Len(u)]
    <3>1. Len(plans) \in DOMAIN plans
      BY <2>2, <2>3
    <3> QED
      BY <2>3, <3>1
  <2> HIDE DEF sum
  <2> QED
    BY <2>3, <2>5, <2>6, <2>7, <2>8, <2>10, <2>11
<1> QED
  BY <1>1, PaperInvariant, PTL

\* A section that the build fills was reported sufficient: whatever the narrowing
\* filters leave, Inspect counts at least as many candidates as Build finds, unless
\* a count of the section failed.
THEOREM SupplyNeverUnderstatedHolds == Spec => []SupplyNeverUnderstated
<1>1. ASSUME PaperInv PROVE SupplyNeverUnderstated
  <2> SUFFICES ASSUME stage = "build", NEW i \in DOMAIN filled, i \notin report.uncounted,
                      Cardinality(filled[i].chosen) = plans[i].want
               PROVE  i \in report.sufficient
    BY DEF SupplyNeverUnderstated
  <2>1. /\ plans = ScaleSections(req, sections) /\ report = Inspect(bank, req, sections, report.uncounted)
        /\ Len(filled) <= Len(plans) /\ req \in Asked /\ sections \in Seq(Section) /\ filled \in Seq(Fill)
    BY <1>1 DEF PaperInv, BuildInv
  <2>2. plans \in Seq(Plan)
    BY <2>1, PlansTyped
  <2>3. /\ filled[i].chosen \in SUBSET filled[i].free /\ bank \in Bank /\ plans[i] \in Plan
        /\ filled[i].free \in SUBSET LoadCandidates(bank, req, plans[i].subject)
    BY <1>1, FilledSections
  <2>4. filled[i].chosen \in SUBSET LoadCandidates(bank, req, plans[i].subject)
    BY <2>3
  <2>5. /\ UsableCount(bank, req, plans[i].subject) \in Nat
        /\ Cardinality(filled[i].chosen) <= UsableCount(bank, req, plans[i].subject)
    BY <2>1, <2>3, <2>4, SupplyCounts
  <2>6. i \in DOMAIN plans
    <3>1. Len(filled) \in Nat /\ Len(plans) \in Nat /\ i \in 1..Len(filled)
      BY <2>1, <2>2
    <3> QED
      BY <2>1, <2>2, <3>1
  <2>7. UsableCount(bank, req, plans[i].subject) >= plans[i].want
    BY <2>3, <2>5 DEF Plan
  <2>8. i \in Inspect(bank, req, sections, report.uncounted).sufficient
    BY <2>1, <2>6, <2>7, CountedSupply
  <2> QED
    BY <2>1, <2>8
<1> QED
  BY <1>1, PaperInvariant, PTL

-----------------------------------------------------------------------------
\* Medians: what one paper cannot do

\* With three sightings or more that all but one agree on, the k-th smallest
\* count is the one agreed on, the very first and the very last excepted.
LEMMA NthOutvotes ==
  ASSUME NEW D, IsFiniteSet(D), NEW c \in [D -> Nat], NEW odd \in D, NEW v \in Nat,
         \A i \in D \ {odd} : c[i] = v,
         NEW k \in Nat, 2 <= k, k <= Cardinality(D) - 1
  PROVE  Nth(c, k) = v
<1>1. Cardinality(D) \in Nat /\ k <= Cardinality(D) /\ D # {}
  BY FS_CardinalityType, FS_EmptySet
<1>2. /\ \E i \in D : Nth(c, k) = c[i] /\ Cardinality({m \in D : c[m] <= c[i]}) >= k
      /\ \A i \in D : Cardinality({m \in D : c[m] <= c[i]}) >= k => Nth(c, k) <= c[i]
      /\ Nth(c, k) \in Nat
  BY <1>1, NthOfFamily
<1>3. IsFiniteSet(D \ {odd}) /\ Cardinality(D \ {odd}) = Cardinality(D) - 1
  BY FS_RemoveElement
<1>4. Nth(c, k) <= v
  <2>1. PICK i \in D \ {odd} : TRUE
    <3>1. D \ {odd} # {}
      BY <1>1, <1>3, FS_EmptySet
    <3> QED
      BY <3>1
  <2> DEFINE M == {m \in D : c[m] <= c[i]}
  <2>2. c[i] = v /\ D \ {odd} \in SUBSET M /\ M \in SUBSET D
    BY <2>1
  <2> HIDE DEF M
  <2>3. IsFiniteSet(M) /\ Cardinality(M) \in Nat
    BY <2>2, FiniteParts
  <2>4. Cardinality(D \ {odd}) <= Cardinality(M)
    BY <2>2, <2>3, FiniteParts
  <2>5. Cardinality(M) >= k
    BY <1>1, <1>3, <2>3, <2>4
  <2> QED
    BY <1>2, <2>1, <2>2, <2>5 DEF M
<1>5. PICK i \in D : Nth(c, k) = c[i] /\ Cardinality({m \in D : c[m] <= c[i]}) >= k
  BY <1>2
<1>6. c[i] >= v
  <2> SUFFICES ASSUME c[i] < v PROVE FALSE
    BY <1>2, <1>5
  <2> DEFINE M == {m \in D : c[m] <= c[i]}
  <2>1. M \in SUBSET {odd}
    OBVIOUS
  <2>2. Cardinality(M) >= k
    BY <1>5
  <2> HIDE DEF M
  <2>3. IsFiniteSet({odd}) /\ Cardinality({odd}) = 1
    BY FS_Singleton
  <2>4. Cardinality(M) <= 1 /\ Cardinality(M) \in Nat
    BY <2>1, <2>3, FiniteParts
  <2> QED
    BY <2>2, <2>4
<1> QED
  BY <1>2, <1>4, <1>5, <1>6

\* "One badly extracted paper cannot drag a section's count away from what the
\* others agree on": whatever it says, the median of three papers or more is the
\* count of the others (medianInt).
THEOREM MisprintOutvoted ==
  ASSUME NEW D, IsFiniteSet(D), Cardinality(D) >= 3, NEW c \in [D -> Nat],
         NEW odd \in D, NEW v \in Nat, \A i \in D \ {odd} : c[i] = v
  PROVE  MedianInt(c) = v
<1> DEFINE n == Cardinality(D)
<1>1. n \in Nat /\ n >= 3 /\ DOMAIN c = D
  BY FS_CardinalityType
<1>2. MedianInt(c) = IF n = 0 THEN 0
                     ELSE IF n % 2 = 1 THEN Nth(c, (n + 1) \div 2)
                     ELSE RoundDiv(Nth(c, n \div 2) + Nth(c, n \div 2 + 1), 2)
  BY <1>1 DEF MedianInt
<1>3. ASSUME NEW k \in Nat, 2 <= k, k <= n - 1 PROVE Nth(c, k) = v
  BY <1>3, NthOutvotes
<1> HIDE DEF n
<1>4. CASE n % 2 = 1
  <2>1. (n + 1) \div 2 \in Nat /\ 2 <= (n + 1) \div 2 /\ (n + 1) \div 2 <= n - 1
    BY <1>1, <1>4
  <2>2. Nth(c, (n + 1) \div 2) = v
    BY <1>3, <2>1
  <2> QED
    BY <1>1, <1>2, <1>4, <2>2
<1>5. CASE n % 2 # 1
  <2>1. /\ n \div 2 \in Nat /\ 2 <= n \div 2 /\ n \div 2 <= n - 1
        /\ n \div 2 + 1 \in Nat /\ 2 <= n \div 2 + 1 /\ n \div 2 + 1 <= n - 1
    BY <1>1, <1>5
  <2>2. Nth(c, n \div 2) = v /\ Nth(c, n \div 2 + 1) = v
    BY <1>3, <2>1
  <2>3. RoundDiv(v + v, 2) = v
    BY DEF RoundDiv
  <2> QED
    BY <1>1, <1>2, <1>5, <2>2, <2>3
<1> QED
  BY <1>4, <1>5

\* The order in which the papers are listed changes no section's count: the
\* median depends only on how often each count was met (medianInt).
THEOREM MedianInAnyOrder ==
  ASSUME NEW D, IsFiniteSet(D), NEW E, IsFiniteSet(E), NEW c \in [D -> Nat], NEW d \in [E -> Nat],
         NEW f \in Bijection(D, E), \A i \in D : c[i] = d[f[i]]
  PROVE  MedianInt(c) = MedianInt(d)
<1>1. /\ f \in [D -> E] /\ \A i, j \in D : f[i] = f[j] => i = j
      /\ \A e \in E : \E i \in D : f[i] = e
  BY DEF Bijection, Injection, Surjection, IsInjective
<1>2. ASSUME NEW x \in Nat
      PROVE  Cardinality({m \in D : c[m] <= x}) = Cardinality({m \in E : d[m] <= x})
  <2> DEFINE A == {m \in D : c[m] <= x}
             B == {m \in E : d[m] <= x}
             g == [m \in A |-> f[m]]
  <2>1. A \in SUBSET D
    OBVIOUS
  <2>2. g \in Bijection(A, B)
    BY <1>1 DEF Bijection, Injection, Surjection, IsInjective
  <2> HIDE DEF A, B, g
  <2>3. IsFiniteSet(A)
    BY <2>1, FS_Subset
  <2>4. ExistsBijection(A, B)
    BY <2>2 DEF ExistsBijection
  <2>5. Cardinality(B) = Cardinality(A)
    BY <2>3, <2>4, FS_Bijection
  <2> QED
    BY <2>5 DEF A, B
<1>3. Cardinality(D) = Cardinality(E)
  <2>1. ExistsBijection(D, E)
    BY DEF ExistsBijection
  <2> QED
    BY <2>1, FS_Bijection
<1>4. ASSUME NEW k PROVE Nth(c, k) = Nth(d, k)
  <2> DEFINE few(i) == Cardinality({m \in D : c[m] <= c[i]})
             many(e) == Cardinality({m \in E : d[m] <= d[e]})
             V == {c[i] : i \in {j \in D : few(j) >= k}}
             W == {d[e] : e \in {j \in E : many(j) >= k}}
  <2>1. \A i \in D : few(i) = many(f[i]) /\ f[i] \in E /\ c[i] = d[f[i]]
    <3> TAKE i \in D
    <3>1. f[i] \in E /\ c[i] = d[f[i]] /\ c[i] \in Nat
      BY <1>1
    <3> QED
      BY <1>2, <3>1
  <2>2. Nth(c, k) = Min(V) /\ Nth(d, k) = Min(W)
    BY DEF Nth
  <2> HIDE DEF few, many
  <2>3. V = W
    BY <1>1, <2>1
  <2> QED
    BY <2>2, <2>3
<1>5. DOMAIN c = D /\ DOMAIN d = E
  OBVIOUS
<1> QED
  BY <1>3, <1>4, <1>5 DEF MedianInt

-----------------------------------------------------------------------------
\* The analysis: the value most papers state

\* How often a list has a value, in all and among its first n members.
Upto(c, n, v) == Cardinality({j \in 1..n : c[j] = v})

\* Of two values the one stated more often, or as often and larger.
Outdone(c, n, v, best) ==
  Upto(c, n, v) <= Upto(c, n, best) /\ (Upto(c, n, v) = Upto(c, n, best) => v <= best)

\* One more member makes one value more frequent.
LEMMA UptoSteps ==
  ASSUME NEW c \in Seq(Nat), NEW n \in Nat, n + 1 <= Len(c), NEW v
  PROVE  /\ Upto(c, n, v) \in Nat /\ Upto(c, 0, v) = 0
         /\ Upto(c, n + 1, v) = IF c[n + 1] = v THEN Upto(c, n, v) + 1 ELSE Upto(c, n, v)
<1> DEFINE A == {j \in 1..n : c[j] = v}
           B == {j \in 1..(n + 1) : c[j] = v}
<1>1. A \in SUBSET (1..n) /\ IsFiniteSet(1..n)
  BY FS_Interval
<1>2. {j \in 1..0 : c[j] = v} = {}
  OBVIOUS
<1>3. n + 1 \notin A /\ B = IF c[n + 1] = v THEN A \union {n + 1} ELSE A
  OBVIOUS
<1> HIDE DEF A, B
<1>4. IsFiniteSet(A) /\ Cardinality(A) \in Nat
  BY <1>1, FiniteParts
<1>5. Cardinality(B) = IF c[n + 1] = v THEN Cardinality(A) + 1 ELSE Cardinality(A)
  BY <1>3, <1>4, FS_AddElement
<1>6. Upto(c, n, v) = Cardinality(A) /\ Upto(c, n + 1, v) = Cardinality(B) /\ Upto(c, 0, v) = 0
  BY <1>2, FS_EmptySet DEF Upto, A, B
<1> QED
  BY <1>4, <1>5, <1>6

\* The running count of modeInt, as the recursion defines it.
LEMMA ModeSteps ==
  ASSUME NEW c \in Seq(Nat)
  PROVE  \E f : /\ ModeInt(c) = f[Len(c)].v
                /\ f[0] = [v |-> 0, n |-> 0]
                /\ \A n \in 1..Len(c) :
                     f[n] = IF \/ Met(c, n) > f[n - 1].n
                               \/ Met(c, n) = f[n - 1].n /\ c[n] > f[n - 1].v
                            THEN [v |-> c[n], n |-> Met(c, n)] ELSE f[n - 1]
                /\ \A n \in 0..Len(c) : f[n] \in [v : Nat, n : Nat]
<1> DEFINE T == [v : Nat, n : Nat]
           None == [v |-> 0, n |-> 0]
           One(n) == [v |-> c[n], n |-> Met(c, n)]
           More(b, n) == Met(c, n) > b.n \/ (Met(c, n) = b.n /\ c[n] > b.v)
           Best(b, n) == IF More(b, n) THEN One(n) ELSE b
           Def(f) == f = [n \in 0..Len(c) |-> IF n = 0 THEN None ELSE Best(f[n - 1], n)]
           Step == [p \in T \X Nat |-> IF p[2] \in 1..Len(c) THEN Best(p[1], p[2]) ELSE p[1]]
<1>1. ModeInt(c) = (CHOOSE f : Def(f))[Len(c)].v
  BY DEF ModeInt
<1>2. Len(c) \in Nat /\ \A n \in 1..Len(c) : c[n] \in Nat /\ n \in Nat /\ n - 1 \in 0..Len(c)
  OBVIOUS
<1>3. ASSUME NEW b \in T, NEW n \in 1..Len(c) PROVE Best(b, n) \in T
  <2>1. n - 1 \in Nat /\ (n - 1) + 1 = n /\ n <= Len(c)
    BY <1>2
  <2>2. Upto(c, n - 1, c[n]) \in Nat /\ Upto(c, n, c[n]) = Upto(c, n - 1, c[n]) + 1
    BY <2>1, UptoSteps
  <2>3. Met(c, n) \in Nat
    BY <2>2 DEF Met, Upto
  <2>4. One(n) \in T
    BY <1>2, <2>3
  <2> HIDE DEF T, One, More
  <2> QED
    BY <2>4
<1>4. None \in T
  OBVIOUS
<1> HIDE DEF T, None, Best
<1>5. Step \in [T \X Nat -> T]
  BY <1>2, <1>3
<1>6. \A b \in T, n \in 1..Len(c) : Step[<<b, n>>] = Best(b, n)
  BY <1>2
<1> HIDE DEF Step
<1>7. PICK g \in [0..Len(c) -> T] :
        g[0] = None /\ \A n \in 1..Len(c) : g[n] = Step[<<g[n - 1], n>>]
  <2>1. Recursive(T, None, Step, Len(c)) # {}
    BY <1>2, <1>4, <1>5, Recursion
  <2> QED
    BY <2>1 DEF Recursive
<1>8. \A n \in 1..Len(c) : g[n] = Best(g[n - 1], n)
  <2> TAKE n \in 1..Len(c)
  <2>1. g[n - 1] \in T
    BY <1>2, <1>7
  <2> QED
    BY <1>6, <1>7, <2>1
<1>9. Def(g)
  <2>1. \A n \in 0..Len(c) : g[n] = IF n = 0 THEN None ELSE Best(g[n - 1], n)
    BY <1>2, <1>7, <1>8
  <2> QED
    BY <1>7, <2>1
<1> DEFINE f == CHOOSE f : Def(f)
<1>10. Def(f)
  <2> HIDE DEF Def
  <2> QED
    BY <1>9
<1>11. ModeInt(c) = f[Len(c)].v
  BY <1>1
<1> HIDE DEF f
<1>12. f[0] = None /\ \A n \in 1..Len(c) : f[n] = Best(f[n - 1], n)
  <2>1. \A n \in 0..Len(c) : f[n] = IF n = 0 THEN None ELSE Best(f[n - 1], n)
    BY <1>10
  <2> QED
    BY <1>2, <2>1
<1> DEFINE S == {n \in Nat : n <= Len(c) => f[n] \in T}
<1>13. 0 \in S
  BY <1>4, <1>12
<1>14. ASSUME NEW n \in S PROVE n + 1 \in S
  <2> SUFFICES ASSUME n + 1 <= Len(c) PROVE f[n + 1] \in T
    OBVIOUS
  <2>1. n + 1 \in 1..Len(c) /\ (n + 1) - 1 = n /\ f[n] \in T
    BY <1>2
  <2>2. f[n + 1] = Best(f[n], n + 1)
    BY <1>12, <2>1
  <2> QED
    BY <1>3, <2>1, <2>2
<1>15. S \in SUBSET Nat
  OBVIOUS
<1> HIDE DEF S
<1>16. S = Nat
  BY <1>13, <1>14, <1>15, SetInduction
<1>17. \A n \in 0..Len(c) : f[n] \in T
  BY <1>2, <1>16 DEF S
<1>18. \A n \in 1..Len(c) : f[n] = IF More(f[n - 1], n) THEN One(n) ELSE f[n - 1]
  BY <1>12 DEF Best
<1> QED
  BY <1>11, <1>12, <1>17, <1>18 DEF T, None

\* The value most often stated, and the largest of these when there are several,
\* is what the running count ends with (modeInt, modeFloat).
THEOREM ModeMostStated ==
  ASSUME NEW c \in Seq(Nat)
  PROVE  /\ c = <<>> => ModeInt(c) = 0
         /\ c # <<>> => \E i \in 1..Len(c) : /\ ModeInt(c) = c[i]
                                             /\ \A j \in 1..Len(c) : Outdone(c, Len(c), c[j], c[i])
<1>1. PICK f : /\ ModeInt(c) = f[Len(c)].v
               /\ f[0] = [v |-> 0, n |-> 0]
               /\ \A n \in 1..Len(c) :
                    f[n] = IF \/ Met(c, n) > f[n - 1].n
                              \/ Met(c, n) = f[n - 1].n /\ c[n] > f[n - 1].v
                           THEN [v |-> c[n], n |-> Met(c, n)] ELSE f[n - 1]
               /\ \A n \in 0..Len(c) : f[n] \in [v : Nat, n : Nat]
  BY ModeSteps
<1>2. Len(c) \in Nat /\ \A n \in 1..Len(c) : c[n] \in Nat
  OBVIOUS
<1> DEFINE Good(n) == /\ f[n].n = Upto(c, n, f[n].v)
                      /\ n # 0 => \E i \in 1..n : f[n].v = c[i]
                      /\ \A j \in 1..n : Outdone(c, n, c[j], f[n].v)
           S == {n \in Nat : n <= Len(c) => Good(n)}
<1>3. 0 \in S
  <2>1. Upto(c, 0, 0) = 0
    <3>1. {j \in 1..0 : c[j] = 0} = {}
      OBVIOUS
    <3> QED
      BY <3>1, FS_EmptySet DEF Upto
  <2>2. f[0].v = 0 /\ f[0].n = 0
    BY <1>1
  <2> QED
    BY <2>1, <2>2
<1>4. ASSUME NEW n \in S PROVE n + 1 \in S
  <2> SUFFICES ASSUME n + 1 <= Len(c) PROVE Good(n + 1)
    OBVIOUS
  <2> DEFINE b == f[n]
             d == f[n + 1]
             x == c[n + 1]
             m == Upto(c, n + 1, x)
  <2>1. n \in Nat /\ n + 1 \in 1..Len(c) /\ n \in 0..Len(c) /\ (n + 1) - 1 = n /\ x \in Nat
    BY <1>2
  <2>2. Good(n) /\ b.v \in Nat /\ b.n \in Nat
    BY <1>1, <2>1
  <2>3. \A v : /\ Upto(c, n, v) \in Nat
               /\ Upto(c, n + 1, v) = IF x = v THEN Upto(c, n, v) + 1 ELSE Upto(c, n, v)
    BY <2>1, UptoSteps
  <2>4. m = Upto(c, n, x) + 1 /\ m \in Nat
    BY <2>3
  <2>5. m = Met(c, n + 1)
    BY DEF Met, Upto
  <2>6. d = IF m > b.n \/ (m = b.n /\ x > b.v) THEN [v |-> x, n |-> m] ELSE b
    BY <1>1, <2>1, <2>5
  <2>7. \A j \in 1..n : /\ c[j] \in Nat /\ Upto(c, n, c[j]) <= b.n
                        /\ Upto(c, n, c[j]) = b.n => c[j] <= b.v
    <3> TAKE j \in 1..n
    <3>1. c[j] \in Nat
      BY <1>2, <2>1
    <3>2. Outdone(c, n, c[j], b.v) /\ Upto(c, n, b.v) = b.n
      BY <2>2
    <3> QED
      BY <3>1, <3>2 DEF Outdone
  <2>8. b.n = Upto(c, n, b.v) /\ (n # 0 => \E i \in 1..n : b.v = c[i])
    BY <2>2
  <2>9. \A j \in 1..(n + 1) : j = n + 1 \/ j \in 1..n
    BY <2>1
  <2> HIDE DEF Good, b, d, m
  <2>10. CASE m > b.n \/ (m = b.n /\ x > b.v)
    <3>1. d.v = x /\ d.n = m
      BY <2>6, <2>10
    <3>2. ASSUME NEW j \in 1..(n + 1) PROVE Outdone(c, n + 1, c[j], x)
      <4>1. CASE c[j] = x
        BY <2>1, <2>4, <4>1 DEF Outdone, m
      <4>2. CASE c[j] # x
        <5>1. j \in 1..n
          BY <2>9, <4>2
        <5>2. Upto(c, n + 1, c[j]) = Upto(c, n, c[j]) /\ Upto(c, n, c[j]) \in Nat
          BY <2>3, <4>2
        <5>3. c[j] \in Nat /\ Upto(c, n, c[j]) <= b.n /\ (Upto(c, n, c[j]) = b.n => c[j] <= b.v)
          BY <2>7, <5>1
        <5>4. Upto(c, n + 1, c[j]) <= m /\ (Upto(c, n + 1, c[j]) = m => c[j] <= x)
          BY <2>1, <2>2, <2>4, <2>10, <5>2, <5>3
        <5> QED
          BY <5>4 DEF Outdone, m
      <4> QED
        BY <4>1, <4>2
    <3>3. n + 1 \in 1..(n + 1)
      BY <2>1
    <3>4. Good(n + 1)
      BY <3>1, <3>2, <3>3 DEF Good, d, m
    <3> QED
      BY <3>4
  <2>11. CASE ~(m > b.n \/ (m = b.n /\ x > b.v))
    <3>1. d = b /\ m <= b.n /\ (m = b.n => x <= b.v)
      BY <2>1, <2>2, <2>4, <2>6, <2>11
    <3>2. b.v # x
      <4> SUFFICES ASSUME b.v = x PROVE FALSE
        OBVIOUS
      <4>1. b.n = Upto(c, n, x) /\ Upto(c, n, x) \in Nat
        BY <2>3, <2>8
      <4> HIDE DEF x
      <4> QED
        BY <2>4, <3>1, <4>1
    <3>3. Upto(c, n + 1, b.v) = b.n
      BY <2>3, <2>8, <3>2
    <3>4. n # 0
      <4>1. n = 0 => Upto(c, n, b.v) = 0
        <5>1. {j \in 1..0 : c[j] = b.v} = {}
          OBVIOUS
        <5> QED
          BY <5>1, FS_EmptySet DEF Upto
      <4> QED
        BY <2>3, <2>4, <2>8, <3>1, <4>1
    <3>5. \E i \in 1..(n + 1) : b.v = c[i]
      <4>1. PICK i \in 1..n : b.v = c[i]
        BY <2>8, <3>4
      <4>2. i \in 1..(n + 1)
        BY <2>1
      <4> QED
        BY <4>1, <4>2
    <3>6. ASSUME NEW j \in 1..(n + 1) PROVE Outdone(c, n + 1, c[j], b.v)
      <4>1. CASE c[j] = x
        <5>1. Upto(c, n + 1, c[j]) = m
          BY <4>1 DEF m
        <5> QED
          BY <3>1, <3>3, <4>1, <5>1 DEF Outdone
      <4>2. CASE c[j] # x
        <5>1. j \in 1..n
          BY <2>9, <4>2
        <5>2. Upto(c, n + 1, c[j]) = Upto(c, n, c[j])
          BY <2>3, <4>2
        <5> QED
          BY <2>7, <3>3, <5>1, <5>2 DEF Outdone
      <4> QED
        BY <4>1, <4>2
    <3>7. Good(n + 1)
      BY <3>1, <3>3, <3>5, <3>6 DEF Good, d
    <3> QED
      BY <3>7
  <2> QED
    BY <2>10, <2>11
<1>5. S \in SUBSET Nat
  OBVIOUS
<1> HIDE DEF S
<1>6. S = Nat
  BY <1>3, <1>4, <1>5, SetInduction
<1>7. Good(Len(c))
  BY <1>2, <1>6 DEF S
<1>8. c = <<>> => ModeInt(c) = 0
  BY <1>1
<1>9. c # <<>> => Len(c) # 0
  OBVIOUS
<1> QED
  BY <1>1, <1>7, <1>8, <1>9

\* The order in which the papers are listed changes no rule: of the values stated
\* equally often the largest wins, whichever came first (modeInt, modeFloat).
THEOREM ModeInAnyOrder ==
  ASSUME NEW c \in Seq(Nat), NEW d \in Seq(Nat), NEW f \in Bijection(1..Len(c), 1..Len(d)),
         \A i \in 1..Len(c) : c[i] = d[f[i]]
  PROVE  ModeInt(c) = ModeInt(d)
<1>1. /\ f \in [1..Len(c) -> 1..Len(d)]
      /\ \A i, j \in 1..Len(c) : f[i] = f[j] => i = j
      /\ \A e \in 1..Len(d) : \E i \in 1..Len(c) : f[i] = e
  BY DEF Bijection, Injection, Surjection, IsInjective
<1>2. Len(c) \in Nat /\ Len(d) \in Nat /\ IsFiniteSet(1..Len(c))
  BY FS_Interval
<1>3. ASSUME NEW v PROVE Upto(c, Len(c), v) = Upto(d, Len(d), v) /\ Upto(c, Len(c), v) \in Nat
  <2> DEFINE A == {j \in 1..Len(c) : c[j] = v}
             B == {j \in 1..Len(d) : d[j] = v}
             g == [j \in A |-> f[j]]
  <2>1. A \in SUBSET (1..Len(c))
    OBVIOUS
  <2>2. g \in Bijection(A, B)
    <3>1. \A t \in A : t \in 1..Len(c) /\ f[t] \in B
      BY <1>1
    <3>2. \A t \in B : \E u \in A : f[u] = t
      <4> TAKE t \in B
      <4>1. PICK u \in 1..Len(c) : f[u] = t
        BY <1>1
      <4>2. c[u] = d[t] /\ d[t] = v
        BY <4>1
      <4> QED
        BY <4>1, <4>2
    <3> HIDE DEF A, B
    <3>3. g \in [A -> B]
      BY <3>1
    <3>4. \A t, u \in A : g[t] = g[u] => t = u
      BY <1>1, <3>1
    <3>5. \A t \in B : \E u \in A : g[u] = t
      BY <3>2
    <3> HIDE DEF g
    <3> QED
      BY <3>3, <3>4, <3>5 DEF Bijection, Injection, Surjection, IsInjective
  <2> HIDE DEF A, B, g
  <2>3. IsFiniteSet(A) /\ Cardinality(A) \in Nat
    BY <1>2, <2>1, FiniteParts
  <2>4. ExistsBijection(A, B)
    BY <2>2 DEF ExistsBijection
  <2>5. Cardinality(B) = Cardinality(A)
    BY <2>3, <2>4, FS_Bijection
  <2> QED
    BY <2>3, <2>5 DEF A, B, Upto
<1>4. CASE c = <<>>
  <2>1. d = <<>>
    <3> SUFFICES ASSUME d # <<>> PROVE FALSE
      OBVIOUS
    <3>1. 1 \in 1..Len(d)
      BY <1>2
    <3>2. 1..Len(c) = {}
      BY <1>4
    <3> QED
      BY <1>1, <3>1, <3>2
  <2>2. ModeInt(c) = 0
    BY <1>4, ModeMostStated
  <2>3. ModeInt(d) = 0
    BY <2>1, ModeMostStated
  <2> QED
    BY <2>2, <2>3
<1>5. CASE c # <<>>
  <2>1. PICK i \in 1..Len(c) : /\ ModeInt(c) = c[i]
                               /\ \A j \in 1..Len(c) : Outdone(c, Len(c), c[j], c[i])
    BY <1>5, ModeMostStated
  <2>2. d # <<>>
    <3>1. f[i] \in 1..Len(d)
      BY <1>1
    <3>2. d = <<>> => 1..Len(d) = {}
      OBVIOUS
    <3> QED
      BY <3>1, <3>2
  <2>3. PICK k \in 1..Len(d) : /\ ModeInt(d) = d[k]
                               /\ \A j \in 1..Len(d) : Outdone(d, Len(d), d[j], d[k])
    BY <2>2, ModeMostStated
  <2>4. PICK l \in 1..Len(c) : f[l] = k
    BY <1>1
  <2>5. c[l] = d[k] /\ f[i] \in 1..Len(d) /\ d[f[i]] = c[i] /\ c[i] \in Nat /\ d[k] \in Nat
    <3>1. f[i] \in 1..Len(d) /\ d[f[i]] = c[i]
      BY <1>1
    <3>2. c[l] = d[f[l]]
      BY <2>4
    <3>3. c[i] \in Nat /\ d[k] \in Nat
      OBVIOUS
    <3> QED
      BY <2>4, <3>1, <3>2, <3>3
  <2>6. Outdone(c, Len(c), d[k], c[i]) /\ Outdone(d, Len(d), c[i], d[k])
    BY <2>1, <2>3, <2>5
  <2>7. /\ Upto(c, Len(c), d[k]) = Upto(d, Len(d), d[k]) /\ Upto(c, Len(c), d[k]) \in Nat
        /\ Upto(c, Len(c), c[i]) = Upto(d, Len(d), c[i]) /\ Upto(c, Len(c), c[i]) \in Nat
    BY <1>3
  <2>8. d[k] <= c[i] /\ c[i] <= d[k]
    BY <2>6, <2>7 DEF Outdone
  <2> QED
    BY <2>1, <2>3, <2>5, <2>8
<1> QED
  BY <1>4, <1>5

\* "so a single misprint cannot set the pattern": where two papers state a value
\* and at most one states another, that value is taken (modeInt, modeFloat).
THEOREM MisprintIgnored ==
  ASSUME NEW c \in Seq(Nat), NEW v \in Nat, NEW odd,
         NEW i \in 1..Len(c), NEW j \in 1..Len(c), i # j, c[i] = v, c[j] = v,
         \A k \in 1..Len(c) : k = odd \/ c[k] = v
  PROVE  ModeInt(c) = v
<1>1. Len(c) \in Nat /\ IsFiniteSet(1..Len(c)) /\ c # <<>>
  BY FS_Interval
<1>2. PICK m \in 1..Len(c) : /\ ModeInt(c) = c[m]
                             /\ \A k \in 1..Len(c) : Outdone(c, Len(c), c[k], c[m])
  BY <1>1, ModeMostStated
<1> SUFFICES ASSUME c[m] # v PROVE FALSE
  BY <1>2
<1> DEFINE A == {k \in 1..Len(c) : c[k] = v}
           B == {k \in 1..Len(c) : c[k] = c[m]}
<1>3. A \in SUBSET (1..Len(c)) /\ {i, j} \in SUBSET A /\ B \in SUBSET {odd}
  OBVIOUS
<1> HIDE DEF A, B
<1>4. IsFiniteSet({i}) /\ Cardinality({i}) = 1 /\ IsFiniteSet({odd}) /\ Cardinality({odd}) = 1
  BY FS_Singleton
<1>5. Cardinality({i, j}) = 2
  <2>1. {i, j} = {i} \union {j} /\ j \notin {i}
    OBVIOUS
  <2> DEFINE s == {i}
  <2>2. IsFiniteSet(s) /\ Cardinality(s) = 1 /\ j \notin s
    BY <1>4, <2>1
  <2> HIDE DEF s
  <2>3. Cardinality(s \union {j}) = 2
    <3>1. Cardinality(s \union {j}) = IF j \in s THEN Cardinality(s) ELSE Cardinality(s) + 1
      BY <2>2, FS_AddElement
    <3> QED
      BY <2>2, <3>1
  <2> QED
    BY <2>1, <2>3 DEF s
<1>6. IsFiniteSet(A) /\ Cardinality(A) \in Nat
  BY <1>1, <1>3, FiniteParts
<1>7. Cardinality(A) >= 2
  <2>1. Cardinality({i, j}) <= Cardinality(A)
    BY <1>3, <1>6, FiniteParts
  <2> QED
    BY <1>5, <1>6, <2>1
<1>8. Cardinality(B) \in Nat /\ Cardinality(B) <= 1
  BY <1>3, <1>4, FiniteParts
<1>9. Cardinality(A) <= Cardinality(B)
  <2>1. Outdone(c, Len(c), c[i], c[m])
    BY <1>2
  <2> QED
    BY <2>1 DEF Outdone, Upto, A, B
<1> QED
  BY <1>6, <1>7, <1>8, <1>9

-----------------------------------------------------------------------------
\* The analysis: what another order of the papers changes

\* What is kept of a list in another order is what is kept of the list, in
\* another order.
LEMMA AmongMoved ==
  ASSUME NEW M, NEW K, NEW list \in Seq(M), NEW moved \in Seq(M),
         NEW g \in Bijection(1..Len(moved), 1..Len(list)),
         \A k \in 1..Len(moved) : moved[k] = list[g[k]]
  PROVE  \E f \in Bijection(1..Len(Among(moved, K)), 1..Len(Among(list, K))) :
           \A k \in 1..Len(Among(moved, K)) : Among(moved, K)[k] = Among(list, K)[f[k]]
<1> DEFINE a == Among(list, K)
           b == Among(moved, K)
           I == {i \in 1..Len(list) : list[i] \in K}
           J == {i \in 1..Len(moved) : moved[i] \in K}
<1>1. PICK h \in [1..Len(a) -> I] :
        /\ \A k \in 1..Len(a) : a[k] = list[h[k]]
        /\ \A k, l \in 1..Len(a) : k < l => h[k] < h[l]
        /\ \A i \in 1..Len(list) : list[i] \in K => \E k \in 1..Len(a) : h[k] = i
  <2>1. StoodAt(list, K) # {}
    BY AmongPlaces
  <2> QED
    BY <2>1 DEF StoodAt
<1>2. PICK e \in [1..Len(b) -> J] :
        /\ \A k \in 1..Len(b) : b[k] = moved[e[k]]
        /\ \A k, l \in 1..Len(b) : k < l => e[k] < e[l]
        /\ \A i \in 1..Len(moved) : moved[i] \in K => \E k \in 1..Len(b) : e[k] = i
  <2>1. StoodAt(moved, K) # {}
    BY AmongPlaces
  <2> QED
    BY <2>1 DEF StoodAt
<1>3. a \in Seq(M \intersect K) /\ b \in Seq(M \intersect K)
  BY AmongMembers
<1> HIDE DEF a, b
<1>4. Len(a) \in Nat /\ Len(b) \in Nat
  BY <1>3
<1>5. /\ \A k, l \in 1..Len(a) : h[k] = h[l] => k = l
      /\ \A k, l \in 1..Len(b) : e[k] = e[l] => k = l
  <2>1. I \in SUBSET Int /\ J \in SUBSET Int
    OBVIOUS
  <2>2. ASSUME NEW k \in 1..Len(a), NEW l \in 1..Len(a), h[k] = h[l] PROVE k = l
    <3>1. h[k] \in Int /\ h[l] \in Int /\ ~(h[k] < h[l]) /\ ~(h[l] < h[k])
      BY <1>1, <2>1, <2>2
    <3>2. ~(k < l) /\ ~(l < k)
      BY <1>1, <3>1
    <3> QED
      BY <1>4, <3>2
  <2>3. ASSUME NEW k \in 1..Len(b), NEW l \in 1..Len(b), e[k] = e[l] PROVE k = l
    <3>1. e[k] \in Int /\ e[l] \in Int /\ ~(e[k] < e[l]) /\ ~(e[l] < e[k])
      BY <1>2, <2>1, <2>3
    <3>2. ~(k < l) /\ ~(l < k)
      BY <1>2, <3>1
    <3> QED
      BY <1>4, <3>2
  <2> QED
    BY <2>2, <2>3
<1>6. /\ g \in [1..Len(moved) -> 1..Len(list)]
      /\ \A i, j \in 1..Len(moved) : g[i] = g[j] => i = j
      /\ \A t \in 1..Len(list) : \E i \in 1..Len(moved) : g[i] = t
  BY DEF Bijection, Injection, Surjection, IsInjective
<1> DEFINE f == [k \in 1..Len(b) |-> CHOOSE l \in 1..Len(a) : h[l] = g[e[k]]]
<1>7. ASSUME NEW k \in 1..Len(b)
      PROVE  f[k] \in 1..Len(a) /\ h[f[k]] = g[e[k]] /\ e[k] \in 1..Len(moved) /\ b[k] = a[f[k]]
  <2>1. e[k] \in 1..Len(moved) /\ moved[e[k]] \in K /\ b[k] = moved[e[k]]
    BY <1>2
  <2>2. g[e[k]] \in 1..Len(list) /\ list[g[e[k]]] = moved[e[k]]
    BY <1>6, <2>1
  <2>3. \E l \in 1..Len(a) : h[l] = g[e[k]]
    BY <1>1, <2>1, <2>2
  <2>4. f[k] \in 1..Len(a) /\ h[f[k]] = g[e[k]]
    BY <2>3
  <2> HIDE DEF f
  <2>5. a[f[k]] = list[h[f[k]]]
    BY <1>1, <2>4
  <2> QED
    BY <2>1, <2>2, <2>4, <2>5
<1> HIDE DEF f, I, J
<1>8. f \in [1..Len(b) -> 1..Len(a)]
  BY <1>7 DEF f
<1>9. \A k, l \in 1..Len(b) : f[k] = f[l] => k = l
  BY <1>5, <1>6, <1>7
<1>10. ASSUME NEW l \in 1..Len(a) PROVE \E k \in 1..Len(b) : f[k] = l
  <2>1. h[l] \in 1..Len(list) /\ list[h[l]] \in K
    BY <1>1 DEF I
  <2>2. PICK i \in 1..Len(moved) : g[i] = h[l]
    BY <1>6, <2>1
  <2>3. moved[i] \in K
    BY <2>1, <2>2
  <2>4. PICK k \in 1..Len(b) : e[k] = i
    BY <1>2, <2>3
  <2>5. h[f[k]] = h[l] /\ f[k] \in 1..Len(a)
    BY <1>7, <2>2, <2>4
  <2> QED
    BY <1>5, <2>5
<1>11. f \in Bijection(1..Len(b), 1..Len(a))
  BY <1>8, <1>9, <1>10 DEF Bijection, Injection, Surjection, IsInjective
<1> QED
  BY <1>7, <1>11 DEF a, b

\* What most papers state is stated by most in any order.
LEMMA ModeMoved ==
  ASSUME NEW s \in Seq(Int), NEW t \in Seq(Int), NEW T \in SUBSET Nat,
         NEW g \in Bijection(1..Len(t), 1..Len(s)), \A k \in 1..Len(t) : t[k] = s[g[k]]
  PROVE  ModeInt(Among(t, T)) = ModeInt(Among(s, T))
<1>1. PICK f \in Bijection(1..Len(Among(t, T)), 1..Len(Among(s, T))) :
        \A k \in 1..Len(Among(t, T)) : Among(t, T)[k] = Among(s, T)[f[k]]
  BY AmongMoved
<1>2. Among(s, T) \in Seq(Int \intersect T) /\ Among(t, T) \in Seq(Int \intersect T)
  BY AmongMembers
<1>3. \A l \in Seq(Int \intersect T) : l \in Seq(Nat)
  OBVIOUS
<1> DEFINE c == Among(t, T)
           d == Among(s, T)
<1>4. /\ c \in Seq(Nat) /\ d \in Seq(Nat) /\ f \in Bijection(1..Len(c), 1..Len(d))
      /\ \A k \in 1..Len(c) : c[k] = d[f[k]]
  BY <1>1, <1>2, <1>3
<1> HIDE DEF c, d
<1>5. ModeInt(c) = ModeInt(d)
  BY <1>4, ModeInAnyOrder
<1> QED
  BY <1>5 DEF c, d

\* What a front page states is a number, whatever is on it; -1 is for a page that
\* says nothing of penalties.
LEMMA RulesTyped ==
  ASSUME NEW header
  PROVE  /\ DetectDuration(header) \in Nat /\ DetectTotalMarks(header) \in Nat
         /\ DetectMarksPerQuestion(header) \in Nat /\ DetectNegative(header) \in Int
<1>1. ASSUME NEW n, NEW low \in Nat, NEW high \in Nat PROVE InRange(n, low, high) \in Nat
  BY DEF InRange
<1>2. \A line : DurationOf(line) \in Nat
  BY <1>1 DEF DurationOf
<1>3. DetectDuration(header) \in Nat
  BY <1>2 DEF DetectDuration, FirstValue
<1>4. DetectTotalMarks(header) \in Nat
  BY <1>1 DEF DetectTotalMarks, FirstValue
<1>5. DetectMarksPerQuestion(header) \in Nat
  BY <1>1 DEF DetectMarksPerQuestion, FirstValue
<1>6. \A line : PenaltyOf(line) \in Nat
  BY <1>1 DEF PenaltyOf, FirstValue
<1> DEFINE penalty == FirstValue(header, LAMBDA l : IF l.kind = "penalty" THEN PenaltyOf(l) ELSE 0)
<1>7. penalty \in Nat
  BY <1>6 DEF FirstValue
<1>8. DetectNegative(header) \in Int
  <2>1. \/ DetectNegative(header) = 0 \/ DetectNegative(header) = penalty
        \/ DetectNegative(header) = Silent
    BY DEF DetectNegative
  <2> HIDE DEF penalty
  <2> QED
    BY <1>7, <2>1 DEF Silent
<1> QED
  BY <1>3, <1>4, <1>5, <1>8

\* The papers that yielded questions are the same in any order.
LEMMA PapersMoved ==
  ASSUME NEW o \in Seq(Paper), NEW moved \in Seq(Paper),
         NEW g \in Bijection(1..Len(moved), 1..Len(o)),
         \A k \in 1..Len(moved) : moved[k] = o[g[k]]
  PROVE  \E f \in Bijection(1..Len(WithQuestions(moved)), 1..Len(WithQuestions(o))) :
           \A k \in 1..Len(WithQuestions(moved)) : WithQuestions(moved)[k] = WithQuestions(o)[f[k]]
<1> DEFINE K == {d \in Range(o) : d.questions > 0}
<1>1. /\ g \in [1..Len(moved) -> 1..Len(o)]
      /\ \A t \in 1..Len(o) : \E i \in 1..Len(moved) : g[i] = t
  BY DEF Bijection, Injection, Surjection
<1>2. Range(moved) = Range(o)
  <2>1. DOMAIN o = 1..Len(o) /\ DOMAIN moved = 1..Len(moved)
    OBVIOUS
  <2>2. ASSUME NEW x \in Range(moved) PROVE x \in Range(o)
    <3>1. PICK k \in 1..Len(moved) : x = moved[k]
      BY <2>1 DEF Range
    <3>2. g[k] \in 1..Len(o) /\ o[g[k]] = moved[k]
      BY <1>1
    <3> QED
      BY <2>1, <3>1, <3>2 DEF Range
  <2>3. ASSUME NEW x \in Range(o) PROVE x \in Range(moved)
    <3>1. PICK t \in 1..Len(o) : x = o[t]
      BY <2>1 DEF Range
    <3>2. PICK k \in 1..Len(moved) : g[k] = t
      BY <1>1
    <3>3. moved[k] = x
      BY <3>1, <3>2
    <3> QED
      BY <2>1, <3>3 DEF Range
  <2> QED
    BY <2>2, <2>3
<1>3. WithQuestions(o) = Among(o, K) /\ WithQuestions(moved) = Among(moved, K)
  BY <1>2 DEF WithQuestions
<1> HIDE DEF K
<1>4. \E f \in Bijection(1..Len(Among(moved, K)), 1..Len(Among(o, K))) :
        \A k \in 1..Len(Among(moved, K)) : Among(moved, K)[k] = Among(o, K)[f[k]]
  BY AmongMoved
<1> QED
  BY <1>3, <1>4

\* A rule that most papers state is stated by most in any order.
LEMMA StatedMoved ==
  ASSUME NEW docs \in Seq(Paper), NEW moved \in Seq(Paper),
         NEW f \in Bijection(1..Len(moved), 1..Len(docs)),
         \A k \in 1..Len(moved) : moved[k] = docs[f[k]],
         NEW rule \in [Paper -> Int], NEW T \in SUBSET Nat
  PROVE  ModeInt(Among([i \in DOMAIN moved |-> rule[moved[i]]], T))
           = ModeInt(Among([i \in DOMAIN docs |-> rule[docs[i]]], T))
<1> DEFINE s == [i \in DOMAIN docs |-> rule[docs[i]]]
           t == [i \in DOMAIN moved |-> rule[moved[i]]]
<1>1. /\ DOMAIN docs = 1..Len(docs) /\ DOMAIN moved = 1..Len(moved)
      /\ Len(docs) \in Nat /\ Len(moved) \in Nat
  OBVIOUS
<1>2. \A k \in 1..Len(moved) : f[k] \in 1..Len(docs)
  BY DEF Bijection, Injection
<1>3. s \in Seq(Int) /\ t \in Seq(Int) /\ Len(s) = Len(docs) /\ Len(t) = Len(moved)
  BY <1>1
<1>4. \A k \in 1..Len(t) : t[k] = s[f[k]]
  BY <1>1, <1>2, <1>3
<1> HIDE DEF s, t
<1>5. f \in Bijection(1..Len(t), 1..Len(s))
  BY <1>3
<1>6. ModeInt(Among(t, T)) = ModeInt(Among(s, T))
  BY <1>3, <1>4, <1>5, ModeMoved
<1> QED
  BY <1>6 DEF s, t

\* The rules inferred are the same in any order.
LEMMA SchemeMoved ==
  ASSUME NEW docs \in Seq(Paper), NEW moved \in Seq(Paper),
         NEW f \in Bijection(1..Len(moved), 1..Len(docs)),
         \A k \in 1..Len(moved) : moved[k] = docs[f[k]]
  PROVE  DetectScheme(moved) = DetectScheme(docs)
<1> DEFINE Mode(d, rule, T) == ModeInt(Among([i \in DOMAIN d |-> rule[d[i]]], T))
           time == [p \in Paper |-> DetectDuration(p.header)]
           marks == [p \in Paper |-> DetectTotalMarks(p.header)]
           each == [p \in Paper |-> DetectMarksPerQuestion(p.header)]
           penalty == [p \in Paper |-> DetectNegative(p.header)]
<1>1. /\ time \in [Paper -> Int] /\ marks \in [Paper -> Int]
      /\ each \in [Paper -> Int] /\ penalty \in [Paper -> Int]
  BY RulesTyped
<1>2. Nat \in SUBSET Nat /\ Nat \ {0} \in SUBSET Nat
  OBVIOUS
<1>3. ASSUME NEW d \in Seq(Paper)
      PROVE  DetectScheme(d) = [duration |-> Mode(d, time, Nat \ {0}), total |-> Mode(d, marks, Nat \ {0}),
                                each |-> Mode(d, each, Nat \ {0}), negative |-> Mode(d, penalty, Nat)]
  <2>1. \A i \in DOMAIN d : d[i] \in Paper
    OBVIOUS
  <2>2. /\ [i \in DOMAIN d |-> time[d[i]]] = [i \in DOMAIN d |-> DetectDuration(d[i].header)]
        /\ [i \in DOMAIN d |-> marks[d[i]]] = [i \in DOMAIN d |-> DetectTotalMarks(d[i].header)]
        /\ [i \in DOMAIN d |-> each[d[i]]] = [i \in DOMAIN d |-> DetectMarksPerQuestion(d[i].header)]
        /\ [i \in DOMAIN d |-> penalty[d[i]]] = [i \in DOMAIN d |-> DetectNegative(d[i].header)]
    BY <2>1
  <2> HIDE DEF time, marks, each, penalty
  <2> QED
    BY <2>2 DEF DetectScheme, Stated
<1> HIDE DEF time, marks, each, penalty, Mode
<1>4. ASSUME NEW rule \in [Paper -> Int], NEW T \in SUBSET Nat PROVE Mode(moved, rule, T) = Mode(docs, rule, T)
  BY StatedMoved DEF Mode
<1>5. /\ Mode(moved, time, Nat \ {0}) = Mode(docs, time, Nat \ {0})
      /\ Mode(moved, marks, Nat \ {0}) = Mode(docs, marks, Nat \ {0})
      /\ Mode(moved, each, Nat \ {0}) = Mode(docs, each, Nat \ {0})
      /\ Mode(moved, penalty, Nat) = Mode(docs, penalty, Nat)
  BY <1>1, <1>2, <1>4
<1> QED
  BY <1>3, <1>5

-----------------------------------------------------------------------------
\* The analysis: the parts of a draft

\* The draft of some papers, in its parts.
LEMMA DraftParts ==
  ASSUME NEW o \in Seq(Paper), NEW m \in Int
  PROVE  /\ Len(Analyze(o, m).sections) = Len(BuildSections(WithQuestions(o), m))
         /\ DOMAIN Analyze(o, m).sections = 1..Len(BuildSections(WithQuestions(o), m))
         /\ \A n \in 1..Len(BuildSections(WithQuestions(o), m)) :
              LET g == BuildSections(WithQuestions(o), m)[n]
                  s == Analyze(o, m).sections[n]
              IN s.name = g.name /\ s.subject = g.subject /\ s.count = g.count /\ s.seenIn = g.seenIn
         /\ Analyze(o, m).duration = DetectScheme(WithQuestions(o)).duration
<1> DEFINE docs == WithQuestions(o)
           list == BuildSections(docs, m)
           counts == [i \in DOMAIN list |-> list[i].count]
           sizes == [i \in DOMAIN docs |-> docs[i].questions]
           total == IF Total(counts) > 0 THEN Total(counts) ELSE RoundTo(MedianInt(sizes), m)
<1>1. docs \in Seq(Paper)
  BY PapersKept
<1> HIDE DEF docs
<1>2. list \in Seq(Group)
  BY <1>1, SectionsListed
<1> HIDE DEF list
<1>3. DOMAIN list = 1..Len(list) /\ Len(list) \in Nat
  BY <1>2
<1>4. Analyze(o, m).sections = AssignWeightage(list, total)
  BY DEF Analyze, docs, list, counts, sizes
<1>5. Analyze(o, m).duration = DetectScheme(docs).duration
  BY DEF Analyze, docs
<1> DEFINE part(i) == [name |-> list[i].name, subject |-> list[i].subject, count |-> list[i].count,
                       seenIn |-> list[i].seenIn,
                       weightage |-> IF total > 0 THEN RoundDiv(10000 * list[i].count, total) ELSE 0]
<1>6. AssignWeightage(list, total) = [i \in 1..Len(list) |-> part(i)]
  BY <1>3 DEF AssignWeightage
<1>7. \A i : /\ part(i).name = list[i].name /\ part(i).subject = list[i].subject
             /\ part(i).count = list[i].count /\ part(i).seenIn = list[i].seenIn
  OBVIOUS
<1> DEFINE s == Analyze(o, m).sections
<1> HIDE DEF part, s
<1>8. s = [i \in 1..Len(list) |-> part(i)]
  BY <1>4, <1>6 DEF s
<1>9. DOMAIN s = 1..Len(list) /\ Len(s) = Len(list)
  BY <1>3, <1>8
<1>10. \A n \in 1..Len(list) : s[n] = part(n)
  BY <1>8
<1> QED
  BY <1>5, <1>7, <1>9, <1>10 DEF s, docs, list

\* Every section sighted is in the draft, with its median count, unless that is 0.
LEMMA SightedInDraft ==
  ASSUME NEW o \in Seq(Paper), NEW m \in Int, NEW p \in Places(WithQuestions(o)),
         CountOf(WithQuestions(o), m, KeyOf(At(WithQuestions(o), p))) > 0
  PROVE  \E s \in Inferred(Analyze(o, m)) :
           /\ s.key = Named(KeyOf(At(WithQuestions(o), p)))
           /\ s.count = CountOf(WithQuestions(o), m, KeyOf(At(WithQuestions(o), p)))
<1> DEFINE docs == WithQuestions(o)
           key == KeyOf(At(docs, p))
           list == BuildSections(docs, m)
           d == Analyze(o, m)
<1>1. docs \in Seq(Paper)
  BY PapersKept
<1>2. PICK q \in CollectGroups(docs) : q \in Places(docs) /\ KeyOf(At(docs, q)) = key
  <2> HIDE DEF docs
  <2> QED
    BY <1>1, OneGroup DEF docs
<1> DEFINE g == SectionAt(docs, m, q)
<1>3. g.subject = At(docs, q).subject /\ g.count = CountOf(docs, m, key)
  BY <1>2, SectionByKey
<1>4. g \in Kept(docs, m)
  BY <1>2, <1>3 DEF Kept
<1>5. PICK n \in 1..Len(list) : list[n] = g
  <2> HIDE DEF docs, g
  <2> QED
    BY <1>1, <1>4, SectionsListed
<1>6. /\ DOMAIN d.sections = 1..Len(list)
      /\ d.sections[n].name = g.name /\ d.sections[n].subject = g.subject /\ d.sections[n].count = g.count
  BY <1>5, DraftParts
<1>7. At(docs, q) \in Printed
  <2> HIDE DEF docs
  <2> QED
    BY <1>1, <1>2, PlacesFinite
<1>8. g.name = IF At(docs, q).label # "" THEN At(docs, q).label
               ELSE IF At(docs, q).subject # "none" THEN At(docs, q).subject ELSE "Section"
  BY DEF SectionAt
<1> DEFINE s == [key |-> IF d.sections[n].subject = "none" THEN <<"label", d.sections[n].name>>
                         ELSE <<"subject", d.sections[n].subject>>,
                 count |-> d.sections[n].count]
<1>9. s \in Inferred(d)
  <2>1. d.sections[n] \in Range(d.sections)
    BY <1>6 DEF Range
  <2> QED
    BY <2>1 DEF Inferred
<1>10. s.count = CountOf(docs, m, key)
  BY <1>3, <1>6
<1>11. s.key = Named(key)
  <2>1. s.key = IF At(docs, q).subject = "none" THEN <<"label", g.name>>
                ELSE <<"subject", At(docs, q).subject>>
    BY <1>3, <1>6
  <2>2. key = IF At(docs, q).subject = "none" THEN <<"label", At(docs, q).label>>
              ELSE <<"subject", At(docs, q).subject>>
    BY <1>2 DEF KeyOf
  <2> HIDE DEF s, key, d, docs, g
  <2>3. CASE At(docs, q).subject = "none"
    <3>1. g.name = IF At(docs, q).label # "" THEN At(docs, q).label ELSE "Section"
      BY <1>8, <2>3
    <3> QED
      BY <2>1, <2>2, <2>3, <3>1 DEF Named
  <2>4. CASE At(docs, q).subject # "none"
    <3>1. key = <<"subject", At(docs, q).subject>> /\ s.key = key
      BY <2>1, <2>2, <2>4
    <3>2. key # <<"label", "">>
      BY <3>1
    <3> QED
      BY <3>1, <3>2 DEF Named
  <2> QED
    BY <2>3, <2>4
<1> HIDE DEF s
<1> QED
  BY <1>9, <1>10, <1>11

-----------------------------------------------------------------------------
\* The analysis: one bad paper

\* The median of counts that are all the same.
LEMMA MedianOfSame ==
  ASSUME NEW D, IsFiniteSet(D), D # {}, NEW v \in Nat, NEW c \in [D -> Nat], \A i \in D : c[i] = v
  PROVE  MedianInt(c) = v
<1> DEFINE n == Cardinality(D)
<1>1. n \in Nat /\ n # 0 /\ DOMAIN c = D
  BY FS_CardinalityType, FS_EmptySet
<1>2. ASSUME NEW k \in Nat, k <= n PROVE Nth(c, k) = v
  BY <1>2, NthOfFamily
<1> HIDE DEF n
<1>3. MedianInt(c) = IF n % 2 = 1 THEN Nth(c, (n + 1) \div 2)
                     ELSE RoundDiv(Nth(c, n \div 2) + Nth(c, n \div 2 + 1), 2)
  BY <1>1 DEF MedianInt, n
<1>4. CASE n % 2 = 1
  <2>1. (n + 1) \div 2 \in Nat /\ (n + 1) \div 2 <= n
    BY <1>1
  <2> QED
    BY <1>2, <1>3, <1>4, <2>1
<1>5. CASE n % 2 # 1
  <2>1. n \div 2 \in Nat /\ n \div 2 + 1 \in Nat /\ n \div 2 + 1 <= n /\ n \div 2 <= n
    BY <1>1, <1>5
  <2>2. Nth(c, n \div 2) = v /\ Nth(c, n \div 2 + 1) = v
    BY <1>2, <2>1
  <2>3. RoundDiv(v + v, 2) = v
    BY DEF RoundDiv
  <2> QED
    BY <1>3, <1>5, <2>2, <2>3
<1> QED
  BY <1>4, <1>5

\* Where the other papers have a section once each and with the same count, it
\* is given this count, whatever one paper makes of it.
LEMMA CountOutvoted ==
  ASSUME NEW docs \in Seq(Paper), Len(docs) >= 3, NEW m \in Int, m <= 1,
         NEW odd \in 1..Len(docs), NEW key, NEW v \in Nat,
         \A q \in Seen(docs, key) : q[1] # odd => At(docs, q).count = v,
         \A i \in 1..Len(docs) : i # odd => \E q \in Seen(docs, key) : q[1] = i,
         \A q, r \in Seen(docs, key) : q[1] = odd /\ r[1] = odd => q = r
  PROVE  CountOf(docs, m, key) = v
<1> DEFINE seen == Seen(docs, key)
           c == [q \in seen |-> At(docs, q).count]
<1>1. /\ IsFiniteSet(Places(docs))
      /\ \A p \in Places(docs) : p \in Nat \X Nat /\ At(docs, p) \in Printed
  BY PlacesFinite
<1>2. seen \in SUBSET Places(docs)
  BY DEF Seen
<1> HIDE DEF seen
<1>3. IsFiniteSet(seen)
  BY <1>1, <1>2, FS_Subset
<1>4. c \in [seen -> Nat] /\ \A q \in seen : c[q] = At(docs, q).count
  <2>1. \A q \in seen : At(docs, q).count \in Nat
    BY <1>1, <1>2 DEF Printed
  <2> QED
    BY <2>1
<1> HIDE DEF c
<1>5. Len(docs) \in Nat
  OBVIOUS
<1>6. MedianInt(c) = v
  <2>1. CASE \E r \in seen : r[1] = odd
    <3>1. PICK r \in seen : r[1] = odd
      BY <2>1
    <3>2. \A q \in seen \ {r} : c[q] = v
      BY <1>4, <3>1 DEF seen
    <3>3. Cardinality(seen) >= 3
      <4> DEFINE f == [q \in seen |-> q[1]]
                 T == {f[q] : q \in seen}
      <4>1. f \in Surjection(seen, T)
        BY DEF Surjection
      <4>2. 1..Len(docs) \in SUBSET T
        <5> SUFFICES ASSUME NEW i \in 1..Len(docs) PROVE \E q \in seen : q[1] = i
          OBVIOUS
        <5>1. CASE i = odd
          BY <3>1, <5>1
        <5>2. CASE i # odd
          BY <5>2 DEF seen
        <5> QED
          BY <5>1, <5>2
      <4> HIDE DEF T, f
      <4>3. IsFiniteSet(T) /\ Cardinality(T) <= Cardinality(seen)
        BY <1>3, <4>1, FS_Surjection
      <4>4. Cardinality(1..Len(docs)) = Len(docs)
        BY <1>5, FirstNumbers
      <4>5. Cardinality(1..Len(docs)) <= Cardinality(T)
        BY <4>2, <4>3, FiniteParts
      <4>6. Cardinality(T) \in Nat /\ Cardinality(seen) \in Nat
        BY <1>3, <4>3, FS_CardinalityType
      <4> QED
        BY <1>5, <4>3, <4>4, <4>5, <4>6
    <3> QED
      BY <1>3, <1>4, <3>2, <3>3, MisprintOutvoted
  <2>2. CASE ~\E r \in seen : r[1] = odd
    <3>1. \A q \in seen : c[q] = v
      BY <1>4, <2>2 DEF seen
    <3>2. seen # {}
      <4>1. PICK i \in 1..Len(docs) : i # odd
        <5>1. 1 \in 1..Len(docs) /\ 2 \in 1..Len(docs)
          BY <1>5
        <5> QED
          BY <5>1
      <4> QED
        BY <4>1 DEF seen
    <3> QED
      BY <1>3, <1>4, <3>1, <3>2, MedianOfSame
  <2> QED
    BY <2>1, <2>2
<1>7. CountOf(docs, m, key) = RoundTo(MedianInt(c), m)
  BY DEF CountOf, c, seen
<1> QED
  BY <1>6, <1>7 DEF RoundTo

\* "nor a misprint the duration": where every other of three papers or more
\* states a duration, the draft has it.
LEMMA DurationOutvoted ==
  ASSUME NEW docs \in Seq(Paper), Len(docs) >= 3, NEW odd, NEW v \in Nat \ {0},
         \A i \in 1..Len(docs) : i = odd \/ DetectDuration(docs[i].header) = v
  PROVE  DetectScheme(docs).duration = v
<1> DEFINE s == [i \in DOMAIN docs |-> DetectDuration(docs[i].header)]
           K == Nat \ {0}
           a == Among(s, K)
           I == {i \in 1..Len(s) : s[i] \in K}
<1>1. DOMAIN docs = 1..Len(docs) /\ Len(docs) \in Nat
  OBVIOUS
<1>2. s \in Seq(Int) /\ Len(s) = Len(docs)
  <2>1. \A i \in DOMAIN docs : DetectDuration(docs[i].header) \in Int
    BY RulesTyped
  <2> QED
    BY <1>1, <2>1
<1>3. \A i \in 1..Len(s) : i = odd \/ s[i] = v
  BY <1>1, <1>2
<1>4. DetectScheme(docs).duration = ModeInt(a)
  BY DEF DetectScheme, Stated
<1> HIDE DEF s
<1>5. PICK h \in [1..Len(a) -> I] :
        /\ \A k \in 1..Len(a) : a[k] = s[h[k]]
        /\ \A k, l \in 1..Len(a) : k < l => h[k] < h[l]
        /\ \A i \in 1..Len(s) : s[i] \in K => \E k \in 1..Len(a) : h[k] = i
  <2>1. StoodAt(s, K) # {}
    BY <1>2, AmongPlaces
  <2> QED
    BY <2>1 DEF StoodAt
<1>6. a \in Seq(Nat)
  <2>1. a \in Seq(Int \intersect K)
    BY <1>2, AmongMembers
  <2>2. \A l \in Seq(Int \intersect K) : l \in Seq(Nat)
    OBVIOUS
  <2> HIDE DEF a, K
  <2> QED
    BY <2>1, <2>2
<1> HIDE DEF a
<1>7. PICK x \in 1..Len(s), y \in 1..Len(s) : x # y /\ x # odd /\ y # odd
  <2>1. 1 \in 1..Len(s) /\ 2 \in 1..Len(s) /\ 3 \in 1..Len(s)
    BY <1>1, <1>2
  <2> QED
    BY <2>1
<1>8. s[x] = v /\ s[y] = v /\ v \in K
  BY <1>3, <1>7
<1>9. PICK k \in 1..Len(a), l \in 1..Len(a) : h[k] = x /\ h[l] = y
  BY <1>5, <1>8
<1>10. a[k] = v /\ a[l] = v /\ k # l
  BY <1>5, <1>7, <1>8, <1>9
<1>11. \E other : \A n \in 1..Len(a) : n = other \/ a[n] = v
  <2>1. \A n, r \in 1..Len(a) : h[n] = h[r] => n = r
    <3> SUFFICES ASSUME NEW n \in 1..Len(a), NEW r \in 1..Len(a), h[n] = h[r] PROVE n = r
      OBVIOUS
    <3>1. I \in SUBSET Int
      OBVIOUS
    <3> HIDE DEF I
    <3>2. h[n] \in I /\ h[r] \in I
      BY <1>5
    <3>3. h[n] \in Int /\ h[r] \in Int
      BY <3>1, <3>2
    <3>4. ~(h[n] < h[r]) /\ ~(h[r] < h[n])
      BY <3>3
    <3>5. ~(n < r) /\ ~(r < n)
      BY <1>5, <3>4
    <3>6. Len(a) \in Nat
      BY <1>6
    <3> QED
      BY <3>6, <3>5
  <2>2. \A n \in 1..Len(a) : h[n] # odd => a[n] = v
    <3> SUFFICES ASSUME NEW n \in 1..Len(a), h[n] # odd PROVE a[n] = v
      OBVIOUS
    <3>1. h[n] \in 1..Len(s) /\ a[n] = s[h[n]]
      BY <1>5
    <3> QED
      BY <1>3, <3>1
  <2>3. CASE \E n \in 1..Len(a) : h[n] = odd
    BY <2>1, <2>2, <2>3
  <2>4. CASE ~\E n \in 1..Len(a) : h[n] = odd
    BY <2>2, <2>4
  <2> QED
    BY <2>3, <2>4
<1>12. PICK other : \A n \in 1..Len(a) : n = other \/ a[n] = v
  BY <1>11
<1>13. ModeInt(a) = v
  BY <1>6, <1>10, <1>12, MisprintIgnored
<1> QED
  BY <1>4, <1>13

\* A place is the number of a paper and of one of its sections.
LEMMA PlacesAre ==
  ASSUME NEW docs
  PROVE  /\ \A d \in DOMAIN docs : \A i \in DOMAIN Whole(docs[d]) :
              <<d, i>> \in Places(docs) /\ At(docs, <<d, i>>) = Whole(docs[d])[i]
         /\ \A p \in Places(docs) :
              /\ p[1] \in DOMAIN docs /\ p[2] \in DOMAIN Whole(docs[p[1]]) /\ p = <<p[1], p[2]>>
              /\ At(docs, p) = Whole(docs[p[1]])[p[2]]
  BY DEF Places, At

\* No single paper decides a section's count or the duration.
LEMMA OneMisprintHolds ==
  ASSUME observed \in Seq(Paper), multiple \in Multiples, draft = Analyze(observed, multiple)
  PROVE  OneMisprint
<1> DEFINE docs == Parsed
<1>1. docs \in Seq(Paper) /\ docs = WithQuestions(observed) /\ multiple \in Int
  BY PapersKept, MultiplesAssumption DEF Parsed
<1> SUFFICES ASSUME Len(docs) >= 3, multiple <= 1, OncePerPaper, NEW odd \in DOMAIN docs
             PROVE  LET others == {docs[i] : i \in DOMAIN docs \ {odd}} IN
      /\ \A key \in {KeyOf(s) : s \in UNION {Range(Whole(d)) : d \in others}} :
           LET counts == UNION {CountsOf(d, key) : d \in others} IN
             Cardinality(counts) = 1 /\ 0 \notin counts /\ (\A d \in others : CountsOf(d, key) # {})
               => \E s \in Inferred(draft) : s.key = Named(key) /\ s.count \in counts
      /\ \A v \in 1..600 : (\A d \in others : DetectDuration(d.header) = v) => draft.duration = v
  BY DEF OneMisprint
<1> DEFINE others == {docs[i] : i \in DOMAIN docs \ {odd}}
<1>2. OncePerPaper => \A i \in DOMAIN docs :
        \A k, l \in DOMAIN Whole(docs[i]) : KeyOf(Whole(docs[i])[k]) = KeyOf(Whole(docs[i])[l]) => k = l
  <2> SUFFICES ASSUME OncePerPaper, NEW i \in DOMAIN docs
               PROVE  \A k, l \in DOMAIN Whole(docs[i]) :
                        KeyOf(Whole(docs[i])[k]) = KeyOf(Whole(docs[i])[l]) => k = l
    OBVIOUS
  <2>1. docs[i] \in Range(docs)
    BY DEF Range
  <2>2. IsInjective([k \in DOMAIN Whole(docs[i]) |-> KeyOf(Whole(docs[i])[k])])
    BY <2>1 DEF OncePerPaper
  <2> QED
    BY <2>2 DEF IsInjective
<1> HIDE DEF docs
<1>3. DOMAIN docs = 1..Len(docs) /\ Len(docs) \in Nat
  BY <1>1
<1>4. ASSUME NEW v \in 1..600, \A d \in others : DetectDuration(d.header) = v
      PROVE  draft.duration = v
  <2>1. \A i \in 1..Len(docs) : i = odd \/ DetectDuration(docs[i].header) = v
    BY <1>3, <1>4
  <2>2. v \in Nat \ {0}
    OBVIOUS
  <2>3. docs \in Seq(Paper) /\ Len(docs) >= 3
    BY <1>1
  <2>4. DetectScheme(docs).duration = v
    BY <2>1, <2>2, <2>3, DurationOutvoted
  <2> QED
    BY <1>1, <2>4, DraftParts
<1>5. ASSUME NEW key \in {KeyOf(s) : s \in UNION {Range(Whole(d)) : d \in others}},
             Cardinality(UNION {CountsOf(d, key) : d \in others}) = 1,
             0 \notin UNION {CountsOf(d, key) : d \in others},
             \A d \in others : CountsOf(d, key) # {}
      PROVE  \E s \in Inferred(draft) : s.key = Named(key) /\ s.count \in UNION {CountsOf(d, key) : d \in others}
  <2> DEFINE counts == UNION {CountsOf(d, key) : d \in others}
             seen == Seen(docs, key)
             c == [q \in seen |-> At(docs, q).count]
  <2>1. /\ IsFiniteSet(Places(docs))
        /\ \A p \in Places(docs) : p \in Nat \X Nat /\ At(docs, p) \in Printed
    BY <1>1, PlacesFinite
  <2>2. seen \in SUBSET Places(docs) /\ IsFiniteSet(seen)
    <3>1. seen \in SUBSET Places(docs)
      BY DEF Seen
    <3> QED
      BY <2>1, <3>1, FS_Subset
  <2>3. ASSUME NEW q \in seen, q[1] # odd PROVE At(docs, q).count \in counts
    <3>1. q[1] \in DOMAIN docs /\ q[2] \in DOMAIN Whole(docs[q[1]]) /\ At(docs, q) = Whole(docs[q[1]])[q[2]]
      BY <2>2, PlacesAre
    <3>2. KeyOf(At(docs, q)) = key
      BY DEF Seen
    <3>3. docs[q[1]] \in others
      BY <2>3, <3>1
    <3>4. At(docs, q).count \in CountsOf(docs[q[1]], key)
      BY <3>1, <3>2 DEF CountsOf, Range
    <3> QED
      BY <3>3, <3>4
  <2>4. ASSUME NEW i \in 1..Len(docs), i # odd
        PROVE  \E q \in seen : q[1] = i
    <3>1. docs[i] \in others
      BY <1>3, <2>4
    <3>2. CountsOf(docs[i], key) # {}
      BY <1>5, <3>1
    <3>3. PICK k \in DOMAIN Whole(docs[i]) : KeyOf(Whole(docs[i])[k]) = key
      BY <3>2 DEF CountsOf, Range
    <3>4. <<i, k>> \in Places(docs) /\ At(docs, <<i, k>>) = Whole(docs[i])[k]
      BY <1>3, PlacesAre
    <3>5. <<i, k>> \in seen
      BY <3>3, <3>4 DEF Seen
    <3> QED
      BY <3>5
  <2>5. ASSUME NEW w \in counts
        PROVE  \E q \in seen : q[1] # odd /\ At(docs, q).count = w
    <3>1. PICK d \in others : w \in CountsOf(d, key)
      BY <2>5
    <3>2. PICK i \in DOMAIN docs : i # odd /\ d = docs[i]
      BY <3>1
    <3>3. PICK k \in DOMAIN Whole(docs[i]) :
            KeyOf(Whole(docs[i])[k]) = key /\ Whole(docs[i])[k].count = w
      BY <3>1, <3>2 DEF CountsOf, Range
    <3>4. <<i, k>> \in Places(docs) /\ At(docs, <<i, k>>) = Whole(docs[i])[k]
      BY PlacesAre
    <3>5. <<i, k>> \in seen
      BY <3>3, <3>4 DEF Seen
    <3> QED
      BY <3>2, <3>3, <3>4, <3>5
  <2>6. counts # {}
    <3> HIDE DEF counts
    <3>1. 1 \in 1..Len(docs) /\ 2 \in 1..Len(docs)
      BY <1>3
    <3>2. PICK i \in 1..Len(docs) : i # odd
      BY <3>1
    <3>3. PICK q \in seen : q[1] = i
      BY <2>4, <3>2
    <3> QED
      BY <2>3, <3>2, <3>3
  <2> HIDE DEF counts, seen, others
  <2>7. PICK v : counts = {v}
    <3>1. IsFiniteSet({c[q] : q \in seen})
      <4>1. DOMAIN c = seen
        OBVIOUS
      <4> HIDE DEF c
      <4> QED
        BY <2>2, <4>1, ImageFinite
    <3>2. counts \in SUBSET {c[q] : q \in seen}
      BY <2>5
    <3>3. IsFiniteSet(counts)
      <4> HIDE DEF c
      <4> QED
        BY <3>1, <3>2, FS_Subset
    <3>4. PICK v \in counts : TRUE
      BY <2>6
    <3>5. Cardinality({v}) = 1 /\ {v} \in SUBSET counts
      BY FS_Singleton
    <3>6. {v} = counts
      BY <1>5, <3>3, <3>5, FiniteParts DEF counts
    <3> QED
      BY <3>6
  <2>8. PICK p \in seen : p[1] # odd /\ At(docs, p).count = v
    BY <2>5, <2>7
  <2>9. v \in Nat /\ v > 0
    <3>1. v \in Nat
      BY <2>1, <2>2, <2>8 DEF Printed
    <3>2. v # 0
      BY <1>5, <2>7 DEF counts
    <3> QED
      BY <3>1, <3>2
  <2>10. \A q \in seen : q[1] # odd => At(docs, q).count = v
    BY <2>3, <2>7
  <2>11. \A q, r \in seen : q[1] = odd /\ r[1] = odd => q = r
    <3> SUFFICES ASSUME NEW q \in seen, NEW r \in seen, q[1] = odd, r[1] = odd PROVE q = r
      OBVIOUS
    <3>1. KeyOf(At(docs, q)) = KeyOf(At(docs, r))
      BY DEF seen, Seen
    <3>2. /\ q[2] \in DOMAIN Whole(docs[odd]) /\ q = <<odd, q[2]>> /\ At(docs, q) = Whole(docs[odd])[q[2]]
          /\ r[2] \in DOMAIN Whole(docs[odd]) /\ r = <<odd, r[2]>> /\ At(docs, r) = Whole(docs[odd])[r[2]]
      BY <2>2, PlacesAre
    <3>3. q[2] = r[2]
      BY <1>2, <3>1, <3>2
    <3> QED
      BY <3>2, <3>3
  <2>12. CountOf(docs, multiple, key) = v
    BY <1>1, <1>3, <2>4, <2>9, <2>10, <2>11, CountOutvoted DEF seen
  <2>13. p \in Places(docs) /\ KeyOf(At(docs, p)) = key
    BY DEF seen, Seen
  <2>14. \E s \in Inferred(Analyze(observed, multiple)) : s.key = Named(key) /\ s.count = v
    BY <1>1, <2>9, <2>12, <2>13, SightedInDraft
  <2>15. \E s \in Inferred(draft) : s.key = Named(key) /\ s.count \in counts
    BY <2>7, <2>14
  <2> QED
    BY <2>15 DEF counts
<1> QED
  BY <1>4, <1>5

-----------------------------------------------------------------------------
\* The analysis: papers that agree

\* A function that tells the members of a finite set apart has as many values.
LEMMA ImageSize ==
  ASSUME NEW D, IsFiniteSet(D), NEW f, DOMAIN f = D, \A x, y \in D : f[x] = f[y] => x = y
  PROVE  Cardinality({f[x] : x \in D}) = Cardinality(D)
<1> DEFINE T == {f[x] : x \in D}
           g == [x \in D |-> f[x]]
<1>1. g \in [D -> T] /\ (\A x, y \in D : g[x] = g[y] => x = y) /\ \A t \in T : \E x \in D : g[x] = t
  OBVIOUS
<1> HIDE DEF T, g
<1>2. g \in Bijection(D, T)
  BY <1>1 DEF Bijection, Injection, Surjection, IsInjective
<1>3. ExistsBijection(D, T)
  BY <1>2 DEF ExistsBijection
<1>4. Cardinality(T) = Cardinality(D)
  BY <1>3, FS_Bijection
<1> QED
  BY <1>4 DEF T

\* A list of one number over and over comes to as many times the number.
LEMMA SumOfSame ==
  ASSUME NEW s \in Seq(Nat), NEW v \in Nat, \A n \in 1..Len(s) : s[n] = v
  PROVE  Total(s) = Len(s) * v
<1> DEFINE f == RunningSum(s)
           S == {n \in Nat : n <= Len(s) => f[n] = n * v}
<1>1. s \in Seq(Int) /\ Len(s) \in Nat
  OBVIOUS
<1>2. f[0] = 0 /\ \A n \in 1..Len(s) : f[n] = f[n - 1] + s[n]
  BY <1>1, RunningSums
<1> HIDE DEF f
<1>3. 0 \in S
  BY <1>2
<1>4. ASSUME NEW n \in S PROVE n + 1 \in S
  <2> SUFFICES ASSUME n + 1 <= Len(s) PROVE f[n + 1] = (n + 1) * v
    OBVIOUS
  <2>1. n + 1 \in 1..Len(s) /\ (n + 1) - 1 = n /\ n \in Nat
    BY <1>1
  <2>2. n <= Len(s) /\ s[n + 1] = v /\ f[n + 1] = f[n] + s[n + 1]
    BY <1>1, <1>2, <2>1
  <2>3. f[n] = n * v
    BY <2>2
  <2>4. (n + 1) * v = n * v + v
    BY <2>1
  <2> QED
    BY <2>2, <2>3, <2>4
<1>5. S \in SUBSET Nat
  OBVIOUS
<1> HIDE DEF S
<1>6. S = Nat
  BY <1>3, <1>4, <1>5, SetInduction
<1> QED
  BY <1>1, <1>6 DEF S, f, Total

\* A list of zeros but for one number comes to that number.
LEMMA SumOfOne ==
  ASSUME NEW s \in Seq(Nat), NEW i \in 1..Len(s), \A n \in 1..Len(s) : n # i => s[n] = 0
  PROVE  Total(s) = s[i]
<1> DEFINE f == RunningSum(s)
           S == {n \in Nat : n <= Len(s) => f[n] = IF n < i THEN 0 ELSE s[i]}
<1>1. s \in Seq(Int) /\ Len(s) \in Nat /\ i \in Nat /\ i >= 1 /\ i <= Len(s) /\ s[i] \in Nat
  OBVIOUS
<1>2. f[0] = 0 /\ \A n \in 1..Len(s) : f[n] = f[n - 1] + s[n]
  BY <1>1, RunningSums
<1> HIDE DEF f
<1>3. 0 \in S
  BY <1>1, <1>2
<1>4. ASSUME NEW n \in S PROVE n + 1 \in S
  <2> SUFFICES ASSUME n + 1 <= Len(s) PROVE f[n + 1] = IF n + 1 < i THEN 0 ELSE s[i]
    OBVIOUS
  <2>1. n + 1 \in 1..Len(s) /\ (n + 1) - 1 = n /\ n \in Nat
    BY <1>1
  <2>2. f[n + 1] = f[n] + s[n + 1] /\ f[n] = IF n < i THEN 0 ELSE s[i]
    BY <1>1, <1>2, <2>1
  <2>3. CASE n + 1 = i
    <3>1. n < i
      BY <2>1, <2>3
    <3> QED
      BY <1>1, <2>2, <2>3, <3>1
  <2>4. CASE n + 1 # i
    <3>1. s[n + 1] = 0 /\ (n < i <=> n + 1 < i)
      BY <1>1, <2>1, <2>4
    <3> QED
      BY <1>1, <2>2, <3>1
  <2> QED
    BY <2>3, <2>4
<1>5. S \in SUBSET Nat
  OBVIOUS
<1> HIDE DEF S
<1>6. S = Nat
  BY <1>3, <1>4, <1>5, SetInduction
<1>7. ~(Len(s) < i)
  BY <1>1
<1> QED
  BY <1>1, <1>6, <1>7 DEF S, f, Total

\* A multiple divided is the factor.
LEMMA RoundedMultiple ==
  ASSUME NEW a \in Nat, NEW b \in Nat, b > 0
  PROVE  RoundDiv(b * a, b) = a
<1>1. 2 * (b * a) + b = (2 * b) * a + b /\ 0 <= b /\ b < 2 * b
  OBVIOUS
<1> DEFINE y == 2 * b
           x == 2 * (b * a) + b
<1>2. y \in Nat /\ y > 0 /\ x \in Nat /\ x = y * a + b /\ b < y
  BY <1>1
<1> HIDE DEF x, y
<1>3. x \div y = a
  BY <1>2
<1> QED
  BY <1>3 DEF RoundDiv, x, y

\* Papers with the same sections each.
Alike(docs, W) == /\ docs \in Seq(Paper) /\ docs # <<>> /\ W \in Seq(Printed)
                  /\ \A d \in 1..Len(docs) : Whole(docs[d]) = W
                  /\ \A i, j \in 1..Len(W) : KeyOf(W[i]) = KeyOf(W[j]) => i = j

\* Where they have a section, and what it comes to.
LEMMA AlikeSeen ==
  ASSUME NEW docs, NEW W, Alike(docs, W), NEW i \in 1..Len(W), NEW m \in Int, m <= 1
  PROVE  /\ Seen(docs, KeyOf(W[i])) = {<<d, i>> : d \in 1..Len(docs)}
         /\ Cardinality(Seen(docs, KeyOf(W[i]))) = Len(docs)
         /\ CountOf(docs, m, KeyOf(W[i])) = W[i].count
         /\ AverageOrder(docs, Seen(docs, KeyOf(W[i]))) = i - 1
<1> DEFINE N == Len(docs)
           seen == Seen(docs, KeyOf(W[i]))
           c == [q \in seen |-> At(docs, q).count]
<1>1. /\ N \in Nat /\ N > 0 /\ DOMAIN docs = 1..N /\ docs \in Seq(Paper)
      /\ Len(W) \in Nat /\ DOMAIN W = 1..Len(W) /\ W \in Seq(Printed)
      /\ \A j \in 1..Len(W) : W[j].count \in Nat
  <2>1. docs \in Seq(Paper) /\ docs # <<>> /\ W \in Seq(Printed)
    BY DEF Alike
  <2>2. N \in Nat /\ N > 0 /\ DOMAIN docs = 1..N /\ Len(W) \in Nat /\ DOMAIN W = 1..Len(W)
    BY <2>1
  <2>3. \A j \in 1..Len(W) : W[j] \in Printed
    BY <2>1
  <2>4. \A j \in 1..Len(W) : W[j].count \in Nat
    BY <2>3 DEF Printed
  <2> QED
    BY <2>1, <2>2, <2>4
<1>2. \A d \in 1..N : Whole(docs[d]) = W
  BY DEF Alike
<1>3. seen = {<<d, i>> : d \in 1..N}
  <2>1. ASSUME NEW q \in seen PROVE q \in {<<d, i>> : d \in 1..N}
    <3>1. q \in Places(docs) /\ KeyOf(At(docs, q)) = KeyOf(W[i])
      BY DEF Seen
    <3>2. /\ q[1] \in DOMAIN docs /\ q[2] \in DOMAIN Whole(docs[q[1]]) /\ q = <<q[1], q[2]>>
          /\ At(docs, q) = Whole(docs[q[1]])[q[2]]
      BY <3>1, PlacesAre
    <3>3. q[1] \in 1..N /\ q[2] \in 1..Len(W) /\ At(docs, q) = W[q[2]]
      BY <1>1, <1>2, <3>2
    <3>4. q[2] = i
      BY <3>1, <3>3 DEF Alike
    <3> QED
      BY <3>2, <3>3, <3>4
  <2>2. ASSUME NEW d \in 1..N PROVE <<d, i>> \in seen
    <3>1. d \in DOMAIN docs /\ i \in DOMAIN Whole(docs[d])
      BY <1>1, <1>2
    <3>2. <<d, i>> \in Places(docs) /\ At(docs, <<d, i>>) = Whole(docs[d])[i]
      BY <3>1, PlacesAre
    <3> QED
      BY <1>2, <3>2 DEF Seen
  <2> HIDE DEF seen
  <2> QED
    BY <2>1, <2>2
<1> HIDE DEF N, seen
<1>4. Cardinality(seen) = N /\ IsFiniteSet(seen)
  <2> DEFINE D == 1..N
             f == [d \in D |-> <<d, i>>]
  <2>1. IsFiniteSet(D) /\ Cardinality(D) = N
    BY <1>1, FS_Interval
  <2>2. DOMAIN f = D /\ (\A x, y \in D : f[x] = f[y] => x = y) /\ seen = {f[d] : d \in D}
    BY <1>3
  <2> HIDE DEF D, f
  <2>3. Cardinality({f[d] : d \in D}) = Cardinality(D)
    BY <2>1, <2>2, ImageSize
  <2>4. IsFiniteSet({f[d] : d \in D})
    BY <2>1, <2>2, ImageFinite
  <2> QED
    BY <2>1, <2>2, <2>3, <2>4
<1>5. CountOf(docs, m, KeyOf(W[i])) = W[i].count
  <2>1. \A q \in seen : At(docs, q) = W[i]
    <3> SUFFICES ASSUME NEW d \in 1..N PROVE At(docs, <<d, i>>) = W[i]
      BY <1>3
    <3>1. <<d, i>>[1] = d /\ <<d, i>>[2] = i
      OBVIOUS
    <3> QED
      BY <1>2, <3>1 DEF At
  <2>2. <<1, i>> \in seen
    <3>1. 1 \in 1..N
      BY <1>1
    <3> QED
      BY <1>3, <3>1
  <2> DEFINE v == W[i].count
  <2>3. v \in Nat /\ c \in [seen -> Nat] /\ \A q \in seen : c[q] = v
    BY <1>1, <2>1
  <2> HIDE DEF c, v
  <2>4. MedianInt(c) = v
    BY <1>4, <2>2, <2>3, MedianOfSame
  <2>5. CountOf(docs, m, KeyOf(W[i])) = RoundTo(MedianInt(c), m)
    BY DEF CountOf, c, seen
  <2> QED
    BY <2>4, <2>5 DEF RoundTo, v
<1>6. AverageOrder(docs, seen) = i - 1
  <2> DEFINE row(d) == [j \in DOMAIN Whole(docs[d]) |-> IF <<d, j>> \in seen THEN j - 1 ELSE 0]
             one == [j \in 1..Len(W) |-> IF j = i THEN i - 1 ELSE 0]
             sums == [d \in 1..N |-> Total(row(d))]
  <2>1. i - 1 \in Nat
    BY <1>1
  <2>2. \A d \in 1..N : row(d) = one
    <3> TAKE d \in 1..N
    <3>1. Whole(docs[d]) = W
      BY <1>2
    <3>2. \A j : <<d, j>> \in seen <=> j = i
      BY <1>3
    <3> QED
      BY <1>1, <3>1, <3>2
  <2>3. Total(one) = i - 1
    <3>1. one \in Seq(Nat) /\ Len(one) = Len(W)
      BY <1>1, <2>1
    <3>2. i \in 1..Len(one) /\ one[i] = i - 1 /\ \A n \in 1..Len(one) : n # i => one[n] = 0
      BY <3>1
    <3> HIDE DEF one
    <3>3. Total(one) = one[i]
      BY <3>1, <3>2, SumOfOne
    <3> QED
      BY <3>2, <3>3
  <2>4. Total(sums) = N * (i - 1)
    <3> DEFINE v == i - 1
    <3> HIDE DEF row, one
    <3>1. \A d \in 1..N : Total(row(d)) = v
      BY <2>2, <2>3
    <3>2. v \in Nat
      BY <2>1
    <3> HIDE DEF v
    <3>3. sums = [d \in 1..N |-> v]
      BY <3>1
    <3>4. sums \in Seq(Nat) /\ Len(sums) = N /\ \A n \in 1..N : sums[n] = v
      BY <1>1, <3>2, <3>3
    <3> HIDE DEF sums
    <3>5. Total(sums) = Len(sums) * v
      BY <3>2, <3>4, SumOfSame
    <3> QED
      BY <3>4, <3>5 DEF v
  <2>5. AverageOrder(docs, seen) = RoundDiv(Total(sums), N)
    BY <1>1, <1>4 DEF AverageOrder
  <2> HIDE DEF sums
  <2> DEFINE a == i - 1
  <2>6. a \in Nat /\ Total(sums) = N * a
    BY <2>1, <2>4
  <2> HIDE DEF a
  <2>7. RoundDiv(N * a, N) = a
    BY <1>1, <2>6, RoundedMultiple
  <2> QED
    BY <2>5, <2>6, <2>7 DEF a
<1> QED
  BY <1>3, <1>4, <1>5, <1>6 DEF N, seen

\* They make one group of each section, known by its place in the first paper.
LEMMA AlikeGroups ==
  ASSUME NEW docs, NEW W, Alike(docs, W)
  PROVE  /\ CollectGroups(docs) = {<<1, i>> : i \in 1..Len(W)}
         /\ \A i \in 1..Len(W) : <<1, i>> \in Places(docs) /\ At(docs, <<1, i>>) = W[i]
<1>1. /\ docs \in Seq(Paper) /\ DOMAIN docs = 1..Len(docs) /\ Len(docs) \in Nat /\ 1 \in 1..Len(docs)
      /\ DOMAIN W = 1..Len(W)
  BY DEF Alike
<1>2. \A d \in 1..Len(docs) : Whole(docs[d]) = W
  BY DEF Alike
<1>3. ASSUME NEW d \in 1..Len(docs), NEW i \in 1..Len(W)
      PROVE  <<d, i>> \in Places(docs) /\ At(docs, <<d, i>>) = W[i]
  <2>1. d \in DOMAIN docs /\ Whole(docs[d]) = W /\ i \in DOMAIN Whole(docs[d])
    BY <1>1, <1>2
  <2> QED
    BY <2>1, PlacesAre
<1>4. ASSUME NEW i \in 1..Len(W) PROVE <<1, i>> \in CollectGroups(docs)
  <2>1. <<1, i>> \in Places(docs) /\ At(docs, <<1, i>>) = W[i]
    BY <1>1, <1>3
  <2>2. Sightings(docs, <<1, i>>) = {<<d, i>> : d \in 1..Len(docs)}
    <3>1. Sightings(docs, <<1, i>>) = Seen(docs, KeyOf(W[i]))
      BY <2>1 DEF Sightings, Seen
    <3>2. Seen(docs, KeyOf(W[i])) = {<<d, i>> : d \in 1..Len(docs)}
      <4>1. 0 \in Int /\ 0 <= 1
        OBVIOUS
      <4> QED
        BY <4>1, AlikeSeen
    <3> QED
      BY <3>1, <3>2
  <2>3. ASSUME NEW d \in 1..Len(docs) PROVE ~Before(<<d, i>>, <<1, i>>)
    <3>1. d >= 1 /\ d \in Int /\ i \in Int
      OBVIOUS
    <3> QED
      BY <3>1 DEF Before
  <2> QED
    BY <2>1, <2>2, <2>3 DEF CollectGroups
<1>5. ASSUME NEW p \in CollectGroups(docs) PROVE \E i \in 1..Len(W) : p = <<1, i>>
  <2>1. p \in Places(docs)
    BY DEF CollectGroups
  <2>2. /\ p[1] \in DOMAIN docs /\ p[2] \in DOMAIN Whole(docs[p[1]]) /\ p = <<p[1], p[2]>>
    BY <2>1, PlacesAre
  <2>3. p[1] \in 1..Len(docs) /\ p[2] \in 1..Len(W)
    BY <1>1, <1>2, <2>2
  <2> DEFINE q == <<1, p[2]>>
  <2>4. q \in CollectGroups(docs)
    BY <1>4, <2>3
  <2>5. At(docs, q) = W[p[2]] /\ At(docs, p) = W[p[2]]
    BY <1>1, <1>3, <2>2, <2>3
  <2>6. p = q
    BY <1>1, <2>4, <2>5, OneGroup
  <2> QED
    BY <2>3, <2>6
<1> QED
  BY <1>1, <1>3, <1>4, <1>5

\* The draft of papers with the same sections has these sections, in order.
LEMMA AlikeListed ==
  ASSUME NEW docs, NEW W, Alike(docs, W), NEW m \in Int, m <= 1
  PROVE  LET agreed == Among(W, {s \in Range(W) : s.count > 0})
             list == BuildSections(docs, m)
         IN /\ Len(list) = Len(agreed)
            /\ \A n \in 1..Len(agreed) : /\ list[n].subject = agreed[n].subject
                                         /\ list[n].count = agreed[n].count
                                         /\ list[n].seenIn = Len(docs)
<1> DEFINE K == {s \in Range(W) : s.count > 0}
           agreed == Among(W, K)
           list == BuildSections(docs, m)
           I == {i \in 1..Len(W) : W[i] \in K}
           G == [i \in 1..Len(W) |-> SectionAt(docs, m, <<1, i>>)]
           kept == Kept(docs, m)
           L == Len(agreed)
<1>1. docs \in Seq(Paper) /\ W \in Seq(Printed) /\ DOMAIN W = 1..Len(W) /\ Len(W) \in Nat
  BY DEF Alike
<1>2. ASSUME NEW i \in 1..Len(W)
      PROVE  /\ G[i].first = <<1, i>> /\ G[i].order = i - 1 /\ G[i].count = W[i].count
             /\ G[i].subject = W[i].subject /\ G[i].seenIn = Len(docs)
  <2> DEFINE p == <<1, i>>
  <2>1. p \in Places(docs) /\ At(docs, p) = W[i]
    BY AlikeGroups
  <2> HIDE DEF p
  <2>2. SectionAt(docs, m, p).first = p
    BY <1>1, <2>1, SectionGroup
  <2>3. /\ SectionAt(docs, m, p).subject = W[i].subject
        /\ SectionAt(docs, m, p).count = CountOf(docs, m, KeyOf(W[i]))
        /\ SectionAt(docs, m, p).seenIn = Cardinality(Seen(docs, KeyOf(W[i])))
        /\ SectionAt(docs, m, p).order = AverageOrder(docs, Seen(docs, KeyOf(W[i])))
    BY <2>1, SectionByKey
  <2>4. /\ Cardinality(Seen(docs, KeyOf(W[i]))) = Len(docs)
        /\ CountOf(docs, m, KeyOf(W[i])) = W[i].count
        /\ AverageOrder(docs, Seen(docs, KeyOf(W[i]))) = i - 1
    BY AlikeSeen
  <2>5. G[i] = SectionAt(docs, m, p)
    BY DEF p
  <2> HIDE DEF G
  <2> QED
    BY <2>2, <2>3, <2>4, <2>5 DEF p
<1>3. \A i \in 1..Len(W) : W[i] \in K <=> W[i].count > 0
  BY <1>1 DEF Range
<1>4. CollectGroups(docs) = {<<1, i>> : i \in 1..Len(W)}
  BY AlikeGroups
<1>5. kept = {g \in {G[i] : i \in 1..Len(W)} : g.count > 0}
  BY <1>4 DEF Kept
<1> HIDE DEF G, K, kept
<1>6. kept = {G[i] : i \in I}
  BY <1>2, <1>3, <1>5
<1>7. PICK h \in [1..L -> I] :
        /\ \A k \in 1..L : agreed[k] = W[h[k]]
        /\ \A k, l \in 1..L : k < l => h[k] < h[l]
        /\ \A i \in 1..Len(W) : W[i] \in K => \E k \in 1..L : h[k] = i
  <2>1. StoodAt(W, K) # {}
    BY <1>1, AmongPlaces
  <2> QED
    BY <2>1 DEF StoodAt
<1>8. L \in Nat
  <2>1. agreed \in Seq(Printed \intersect K)
    BY <1>1, AmongMembers
  <2> HIDE DEF agreed
  <2> QED
    BY <2>1
<1> DEFINE F == [k \in 1..L |-> G[h[k]]]
<1> HIDE DEF agreed, list, L
<1>9. \A k \in 1..L : h[k] \in I /\ h[k] \in 1..Len(W) /\ h[k] \in Int
  <2>1. \A i \in I : i \in 1..Len(W) /\ i \in Int
    OBVIOUS
  <2> HIDE DEF I
  <2> QED
    BY <1>7, <2>1
<1>10. ASSUME NEW k \in 1..L, NEW l \in 1..L PROVE Ahead(F[l], F[k]) <=> l < k
  <2>1. /\ F[k].order = h[k] - 1 /\ F[k].first = <<1, h[k]>>
        /\ F[l].order = h[l] - 1 /\ F[l].first = <<1, h[l]>>
    BY <1>2, <1>9
  <2>2. h[k] \in Int /\ h[l] \in Int /\ k \in Int /\ l \in Int
    BY <1>8, <1>9
  <2> HIDE DEF F
  <2>3. Ahead(F[l], F[k]) <=> h[l] < h[k]
    <3>1. Ahead(F[l], F[k]) <=> \/ h[l] - 1 < h[k] - 1
                                \/ h[l] - 1 = h[k] - 1 /\ Before(<<1, h[l]>>, <<1, h[k]>>)
      BY <2>1 DEF Ahead
    <3>2. Before(<<1, h[l]>>, <<1, h[k]>>) <=> h[l] < h[k]
      BY DEF Before
    <3> QED
      BY <2>2, <3>1, <3>2
  <2>4. l < k => h[l] < h[k]
    BY <1>7
  <2>5. k < l => h[k] < h[l]
    BY <1>7
  <2>6. k = l => h[k] = h[l]
    OBVIOUS
  <2> QED
    BY <2>2, <2>3, <2>4, <2>5, <2>6
<1>11. \A k, l \in 1..L : F[k] = F[l] => k = l
  <2> SUFFICES ASSUME NEW k \in 1..L, NEW l \in 1..L, F[k] = F[l] PROVE k = l
    OBVIOUS
  <2> HIDE DEF F
  <2>1. ~(k < k) /\ ~(l < l) /\ k \in Int /\ l \in Int
    BY <1>8
  <2>2. ~Ahead(F[k], F[k])
    BY <1>10, <2>1
  <2>3. ~(k < l) /\ ~(l < k)
    BY <1>10, <2>2
  <2> QED
    BY <2>1, <2>3
<1>12. kept = {F[k] : k \in 1..L}
  <2>1. ASSUME NEW k \in 1..L PROVE F[k] \in kept
    BY <1>6, <1>9
  <2>2. ASSUME NEW g \in kept PROVE \E k \in 1..L : F[k] = g
    <3>1. PICK i \in I : g = G[i]
      BY <1>6
    <3>2. PICK k \in 1..L : h[k] = i
      BY <1>7
    <3> QED
      BY <3>1, <3>2
  <2> HIDE DEF F
  <2> QED
    BY <2>1, <2>2
<1>13. Cardinality(kept) = L
  <2> DEFINE D == 1..L
  <2>1. IsFiniteSet(D) /\ Cardinality(D) = L
    BY <1>8, FS_Interval
  <2>2. DOMAIN F = D /\ \A k, l \in D : F[k] = F[l] => k = l
    BY <1>11
  <2>3. kept = {F[k] : k \in D}
    BY <1>12
  <2> HIDE DEF D, F
  <2>4. Cardinality({F[k] : k \in D}) = Cardinality(D)
    BY <2>1, <2>2, ImageSize
  <2> QED
    BY <2>1, <2>3, <2>4
<1>14. ASSUME NEW k \in 1..L PROVE Cardinality({g \in kept : Ahead(g, F[k])}) = k - 1
  <2> DEFINE D == 1..(k - 1)
             E == [l \in D |-> F[l]]
  <2>1. k - 1 \in Nat /\ D \in SUBSET (1..L) /\ \A l \in 1..L : l \in D <=> l < k
    BY <1>8
  <2>2. IsFiniteSet(D) /\ Cardinality(D) = k - 1
    <3> DEFINE a == k - 1
    <3>1. a \in Nat
      BY <2>1
    <3> HIDE DEF a
    <3>2. IsFiniteSet(1..a) /\ Cardinality(1..a) = a
      BY <3>1, FS_Interval
    <3> QED
      BY <3>2 DEF a
  <2> HIDE DEF D, F
  <2>3. {g \in kept : Ahead(g, F[k])} = {F[l] : l \in D}
    BY <1>10, <1>12, <2>1
  <2>4. DOMAIN E = D /\ (\A x, y \in D : E[x] = E[y] => x = y) /\ {E[l] : l \in D} = {F[l] : l \in D}
    BY <1>11, <2>1
  <2> HIDE DEF E
  <2>5. Cardinality({E[l] : l \in D}) = Cardinality(D)
    BY <2>2, <2>4, ImageSize
  <2> QED
    BY <2>2, <2>3, <2>4, <2>5
<1> HIDE DEF F
<1>15. /\ Len(list) = L
       /\ \A n \in 1..L : list[n] \in kept /\ Cardinality({g \in kept : Ahead(g, list[n])}) = n - 1
  BY <1>1, <1>13, SectionsListed DEF list, kept
<1>16. ASSUME NEW n \in 1..L PROVE list[n] = F[n]
  <2>1. PICK k \in 1..L : list[n] = F[k]
    BY <1>12, <1>15
  <2> DEFINE rank == Cardinality({g \in kept : Ahead(g, list[n])})
  <2>2. rank = n - 1
    BY <1>15
  <2>3. rank = k - 1
    BY <1>14, <2>1
  <2> HIDE DEF rank
  <2>4. n = k
    BY <1>8, <2>2, <2>3
  <2> QED
    BY <2>1, <2>4
<1>17. ASSUME NEW n \in 1..L
       PROVE  list[n].subject = agreed[n].subject /\ list[n].count = agreed[n].count /\ list[n].seenIn = Len(docs)
  <2>1. list[n] = G[h[n]]
    BY <1>16 DEF F
  <2> QED
    BY <1>2, <1>7, <1>9, <2>1
<1> QED
  BY <1>15, <1>17 DEF list, agreed, L, K

\* Papers that agree set the draft.
LEMMA AgreedPapersHolds ==
  ASSUME observed \in Seq(Paper), multiple \in Multiples, draft = Analyze(observed, multiple)
  PROVE  AgreedPapers
<1> DEFINE docs == Parsed
           W == Whole(docs[1])
<1>1. docs \in Seq(Paper) /\ docs = WithQuestions(observed) /\ multiple \in Int
  BY PapersKept, MultiplesAssumption DEF Parsed
<1> SUFFICES ASSUME multiple <= 1, OncePerPaper, \A d, e \in Range(docs) : Whole(d) = Whole(e), docs # <<>>
             PROVE  LET agreed == Among(W, {s \in Range(W) : s.count > 0}) IN
                      /\ Len(draft.sections) = Len(agreed)
                      /\ \A i \in DOMAIN agreed : /\ draft.sections[i].subject = agreed[i].subject
                                                  /\ draft.sections[i].count = agreed[i].count
                                                  /\ draft.sections[i].seenIn = Len(docs)
  BY DEF AgreedPapers
<1>2. 1 \in DOMAIN docs /\ docs[1] \in Paper /\ DOMAIN docs = 1..Len(docs)
  <2> HIDE DEF docs
  <2>1. Len(docs) \in Nat /\ Len(docs) > 0 /\ DOMAIN docs = 1..Len(docs)
    BY <1>1
  <2> QED
    BY <1>1, <2>1
<1>3. W \in Seq(Printed)
  BY <1>2, WholePrinted
<1>4. \A d \in 1..Len(docs) : Whole(docs[d]) = W
  BY <1>2 DEF Range
<1>5. \A i, j \in 1..Len(W) : KeyOf(W[i]) = KeyOf(W[j]) => i = j
  <2>1. docs[1] \in Range(docs)
    BY <1>2 DEF Range
  <2>2. IsInjective([i \in DOMAIN W |-> KeyOf(W[i])])
    BY <2>1 DEF OncePerPaper
  <2>3. DOMAIN W = 1..Len(W)
    BY <1>3
  <2> HIDE DEF W
  <2> QED
    BY <2>2, <2>3 DEF IsInjective
<1> HIDE DEF docs, W
<1>6. Alike(docs, W)
  BY <1>1, <1>3, <1>4, <1>5 DEF Alike
<1> DEFINE agreed == Among(W, {s \in Range(W) : s.count > 0})
           list == BuildSections(docs, multiple)
<1>7. /\ Len(list) = Len(agreed)
      /\ \A n \in 1..Len(agreed) : /\ list[n].subject = agreed[n].subject
                                   /\ list[n].count = agreed[n].count
                                   /\ list[n].seenIn = Len(docs)
  BY <1>1, <1>6, AlikeListed
<1>8. DOMAIN agreed = 1..Len(agreed)
  <2>1. agreed \in Seq(Printed \intersect {s \in Range(W) : s.count > 0})
    BY <1>3, AmongMembers
  <2> HIDE DEF agreed
  <2> QED
    BY <2>1
<1> HIDE DEF agreed
<1>9. /\ Len(draft.sections) = Len(list)
      /\ \A n \in 1..Len(list) : LET g == list[n]
                                     s == draft.sections[n]
                                 IN s.name = g.name /\ s.subject = g.subject /\ s.count = g.count /\ s.seenIn = g.seenIn
  BY <1>1, DraftParts
<1> HIDE DEF list
<1>10. /\ Len(draft.sections) = Len(agreed)
       /\ \A i \in DOMAIN agreed : /\ draft.sections[i].subject = agreed[i].subject
                                   /\ draft.sections[i].count = agreed[i].count
                                   /\ draft.sections[i].seenIn = Len(docs)
  BY <1>7, <1>8, <1>9
<1> QED
  BY <1>10 DEF agreed

-----------------------------------------------------------------------------
\* The analysis: sections in another order of the papers

\* The units a list of numbers is made of, place by place.
Units(s, n) == {p \in (1..n) \X Nat : 1 <= p[2] /\ p[2] <= s[p[1]]}

\* What a list comes to is how many units it is made of.
LEMMA TotalUnits ==
  ASSUME NEW s \in Seq(Nat)
  PROVE  IsFiniteSet(Units(s, Len(s))) /\ Total(s) = Cardinality(Units(s, Len(s)))
<1> DEFINE f == RunningSum(s)
           S == {n \in Nat : n <= Len(s) => IsFiniteSet(Units(s, n)) /\ f[n] = Cardinality(Units(s, n))}
<1>1. s \in Seq(Int) /\ Len(s) \in Nat
  OBVIOUS
<1>2. f[0] = 0 /\ \A n \in 1..Len(s) : f[n] = f[n - 1] + s[n]
  BY <1>1, RunningSums
<1> HIDE DEF f
<1>3. 0 \in S
  <2>1. Units(s, 0) = {}
    BY DEF Units
  <2>2. IsFiniteSet({}) /\ Cardinality({}) = 0
    BY FS_EmptySet
  <2> QED
    BY <1>2, <2>1, <2>2
<1>4. ASSUME NEW n \in S PROVE n + 1 \in S
  <2> SUFFICES ASSUME n + 1 <= Len(s)
               PROVE  IsFiniteSet(Units(s, n + 1)) /\ f[n + 1] = Cardinality(Units(s, n + 1))
    OBVIOUS
  <2>1. n + 1 \in 1..Len(s) /\ (n + 1) - 1 = n /\ n \in Nat /\ n <= Len(s)
    BY <1>1
  <2>2. s[n + 1] \in Nat
    BY <2>1
  <2> DEFINE old == Units(s, n)
             v == s[n + 1]
             D == 1..v
             e == [j \in D |-> <<n + 1, j>>]
             new == {e[j] : j \in D}
  <2>3. IsFiniteSet(old) /\ f[n] = Cardinality(old)
    BY <2>1
  <2>4. Units(s, n + 1) = old \union new
    <3>1. ASSUME NEW p \in Units(s, n + 1) PROVE p \in old \/ p \in new
      <4>1. p \in (1..(n + 1)) \X Nat /\ 1 <= p[2] /\ p[2] <= s[p[1]]
        BY DEF Units
      <4>2. CASE p[1] = n + 1
        <5>1. p = <<n + 1, p[2]>> /\ p[2] \in 1..s[n + 1]
          BY <2>2, <4>1, <4>2
        <5> QED
          BY <5>1
      <4>3. CASE p[1] # n + 1
        <5>1. p[1] \in 1..n
          BY <2>1, <4>1, <4>3
        <5> QED
          BY <4>1, <5>1 DEF Units
      <4> QED
        BY <4>2, <4>3
    <3>2. ASSUME NEW p \in old PROVE p \in Units(s, n + 1)
      BY <2>1 DEF Units
    <3>3. ASSUME NEW j \in 1..s[n + 1] PROVE <<n + 1, j>> \in Units(s, n + 1)
      <4>1. n + 1 \in 1..(n + 1) /\ j \in Nat /\ 1 <= j /\ j <= s[n + 1]
        BY <2>1, <2>2
      <4> QED
        BY <4>1 DEF Units
    <3> QED
      BY <3>1, <3>2, <3>3
  <2>5. old \intersect new = {}
    <3>1. \A p \in old : p[1] # n + 1
      BY <2>1 DEF Units
    <3>2. \A j \in D : e[j][1] = n + 1
      OBVIOUS
    <3> HIDE DEF old, e, D
    <3> QED
      BY <3>1, <3>2
  <2>6. v \in Nat /\ IsFiniteSet(D) /\ Cardinality(D) = v
    <3>1. v \in Nat
      BY <2>2
    <3> HIDE DEF v
    <3> QED
      BY <3>1, FirstNumbers
  <2>7. DOMAIN e = D /\ \A x, y \in D : e[x] = e[y] => x = y
    OBVIOUS
  <2>8. IsFiniteSet(new) /\ Cardinality(new) = v
    <3> HIDE DEF e, D
    <3>1. IsFiniteSet({e[j] : j \in D})
      BY <2>6, <2>7, ImageFinite
    <3>2. Cardinality({e[j] : j \in D}) = Cardinality(D)
      BY <2>6, <2>7, ImageSize
    <3> QED
      BY <2>6, <3>1, <3>2
  <2> HIDE DEF old, new
  <2>9. IsFiniteSet(old \union new) /\ Cardinality(old \union new) = Cardinality(old) + Cardinality(new)
    BY <2>3, <2>5, <2>8, Disjoint
  <2>10. f[n + 1] = f[n] + v
    BY <1>2, <2>1
  <2> QED
    BY <2>3, <2>4, <2>8, <2>9, <2>10
<1>5. S \in SUBSET Nat
  OBVIOUS
<1> HIDE DEF S
<1>6. S = Nat
  BY <1>3, <1>4, <1>5, SetInduction
<1> QED
  BY <1>1, <1>6 DEF S, f, Total

\* A list comes to the same in any order.
LEMMA TotalMoved ==
  ASSUME NEW s \in Seq(Nat), NEW t \in Seq(Nat), NEW g \in Bijection(1..Len(t), 1..Len(s)),
         \A k \in 1..Len(t) : t[k] = s[g[k]]
  PROVE  Total(t) = Total(s)
<1> DEFINE A == Units(t, Len(t))
           B == Units(s, Len(s))
           e == [p \in A |-> <<g[p[1]], p[2]>>]
<1>1. IsFiniteSet(A) /\ Total(t) = Cardinality(A) /\ Total(s) = Cardinality(B)
  BY TotalUnits
<1>2. /\ g \in [1..Len(t) -> 1..Len(s)]
      /\ \A k, l \in 1..Len(t) : g[k] = g[l] => k = l
      /\ \A i \in 1..Len(s) : \E k \in 1..Len(t) : g[k] = i
  BY DEF Bijection, Injection, Surjection, IsInjective
<1>3. ASSUME NEW p \in A
      PROVE  p[1] \in 1..Len(t) /\ p[2] \in Nat /\ p = <<p[1], p[2]>> /\ 1 <= p[2] /\ p[2] <= t[p[1]]
  BY DEF Units
<1>4. ASSUME NEW p \in A PROVE e[p] \in B
  <2>1. g[p[1]] \in 1..Len(s) /\ t[p[1]] = s[g[p[1]]]
    BY <1>2, <1>3
  <2>2. e[p] = <<g[p[1]], p[2]>>
    OBVIOUS
  <2> HIDE DEF A, e
  <2> QED
    BY <1>3, <2>1, <2>2 DEF Units
<1>5. ASSUME NEW p \in A, NEW q \in A, e[p] = e[q] PROVE p = q
  <2>1. g[p[1]] = g[q[1]] /\ p[2] = q[2]
    BY <1>5
  <2> HIDE DEF A, e
  <2>2. p[1] = q[1]
    BY <1>2, <1>3, <2>1
  <2> QED
    BY <1>3, <2>1, <2>2
<1>6. ASSUME NEW q \in B PROVE \E p \in A : e[p] = q
  <2>1. q[1] \in 1..Len(s) /\ q[2] \in Nat /\ q = <<q[1], q[2]>> /\ 1 <= q[2] /\ q[2] <= s[q[1]]
    BY DEF Units
  <2>2. PICK k \in 1..Len(t) : g[k] = q[1]
    BY <1>2, <2>1
  <2>3. <<k, q[2]>> \in A
    <3>1. q[2] <= t[k]
      BY <2>1, <2>2
    <3> QED
      BY <2>1, <3>1 DEF Units
  <2>4. e[<<k, q[2]>>] = <<g[k], q[2]>>
    BY <2>3
  <2> QED
    BY <2>1, <2>2, <2>3, <2>4
<1>7. DOMAIN e = A /\ \A p, q \in A : e[p] = e[q] => p = q
  BY <1>5
<1> HIDE DEF A, B, e
<1>8. {e[p] : p \in A} = B
  BY <1>4, <1>6
<1>9. Cardinality({e[p] : p \in A}) = Cardinality(A)
  BY <1>1, <1>7, ImageSize
<1> QED
  BY <1>1, <1>8, <1>9

\* The same papers in another order: moved[k] is docs[f[k]].
Moved(docs, moved, f) == /\ docs \in Seq(Paper) /\ moved \in Seq(Paper)
                         /\ f \in [1..Len(moved) -> 1..Len(docs)]
                         /\ \A k, l \in 1..Len(moved) : f[k] = f[l] => k = l
                         /\ \A i \in 1..Len(docs) : \E k \in 1..Len(moved) : f[k] = i
                         /\ \A k \in 1..Len(moved) : moved[k] = docs[f[k]]
There(f, p) == <<f[p[1]], p[2]>>

\* Their sections are at other places, each at its own.
LEMMA PlacesMoved ==
  ASSUME NEW docs, NEW moved, NEW f, Moved(docs, moved, f)
  PROVE  /\ \A p \in Places(moved) : There(f, p) \in Places(docs) /\ At(moved, p) = At(docs, There(f, p))
         /\ \A p, q \in Places(moved) : There(f, p) = There(f, q) => p = q
         /\ \A q \in Places(docs) : \E p \in Places(moved) : There(f, p) = q
<1>1. DOMAIN docs = 1..Len(docs) /\ DOMAIN moved = 1..Len(moved)
  BY DEF Moved
<1>2. ASSUME NEW p \in Places(moved)
      PROVE  There(f, p) \in Places(docs) /\ At(moved, p) = At(docs, There(f, p))
  <2>1. p[1] \in 1..Len(moved) /\ p[2] \in DOMAIN Whole(moved[p[1]]) /\ At(moved, p) = Whole(moved[p[1]])[p[2]]
    BY <1>1, PlacesAre
  <2>2. f[p[1]] \in DOMAIN docs /\ moved[p[1]] = docs[f[p[1]]]
    BY <1>1, <2>1 DEF Moved
  <2>3. p[2] \in DOMAIN Whole(docs[f[p[1]]])
    BY <2>1, <2>2
  <2>4. /\ <<f[p[1]], p[2]>> \in Places(docs)
        /\ At(docs, <<f[p[1]], p[2]>>) = Whole(docs[f[p[1]]])[p[2]]
    BY <2>2, <2>3, PlacesAre
  <2> QED
    BY <2>1, <2>2, <2>4 DEF There
<1>3. ASSUME NEW p \in Places(moved), NEW q \in Places(moved), There(f, p) = There(f, q) PROVE p = q
  <2>1. /\ p[1] \in 1..Len(moved) /\ p = <<p[1], p[2]>>
        /\ q[1] \in 1..Len(moved) /\ q = <<q[1], q[2]>>
    BY <1>1, PlacesAre
  <2>2. f[p[1]] = f[q[1]] /\ p[2] = q[2]
    BY <1>3 DEF There
  <2>3. p[1] = q[1]
    BY <2>1, <2>2 DEF Moved
  <2> QED
    BY <2>1, <2>2, <2>3
<1>4. ASSUME NEW q \in Places(docs) PROVE \E p \in Places(moved) : There(f, p) = q
  <2>1. q[1] \in 1..Len(docs) /\ q[2] \in DOMAIN Whole(docs[q[1]]) /\ q = <<q[1], q[2]>>
    BY <1>1, PlacesAre
  <2>2. PICK k \in 1..Len(moved) : f[k] = q[1]
    BY <2>1 DEF Moved
  <2>3. k \in DOMAIN moved /\ q[2] \in DOMAIN Whole(moved[k])
    BY <1>1, <2>1, <2>2 DEF Moved
  <2>4. <<k, q[2]>> \in Places(moved)
    BY <2>3, PlacesAre
  <2>5. There(f, <<k, q[2]>>) = q
    BY <2>1, <2>2 DEF There
  <2> QED
    BY <2>4, <2>5
<1> QED
  BY <1>2, <1>3, <1>4

\* They have the same sections, and each comes to the same.
LEMMA CountMoved ==
  ASSUME NEW docs, NEW moved, NEW f, Moved(docs, moved, f), NEW m
  PROVE  /\ KeysSeen(moved) = KeysSeen(docs)
         /\ \A key : CountOf(moved, m, key) = CountOf(docs, m, key)
<1>1. /\ \A p \in Places(moved) : There(f, p) \in Places(docs) /\ At(moved, p) = At(docs, There(f, p))
      /\ \A p, q \in Places(moved) : There(f, p) = There(f, q) => p = q
      /\ \A q \in Places(docs) : \E p \in Places(moved) : There(f, p) = q
  BY PlacesMoved
<1>2. KeysSeen(moved) = KeysSeen(docs)
  <2>1. ASSUME NEW p \in Places(moved) PROVE \E q \in Places(docs) : KeyOf(At(docs, q)) = KeyOf(At(moved, p))
    BY <1>1
  <2>2. ASSUME NEW q \in Places(docs) PROVE \E p \in Places(moved) : KeyOf(At(docs, q)) = KeyOf(At(moved, p))
    BY <1>1
  <2> QED
    BY <2>1, <2>2 DEF KeysSeen
<1>3. ASSUME NEW key PROVE CountOf(moved, m, key) = CountOf(docs, m, key)
  <2> DEFINE D == Seen(moved, key)
             E == Seen(docs, key)
             e == [p \in D |-> There(f, p)]
             c == [p \in D |-> At(moved, p).count]
             d == [q \in E |-> At(docs, q).count]
  <2>1. moved \in Seq(Paper) /\ docs \in Seq(Paper)
    BY DEF Moved
  <2>2. /\ IsFiniteSet(Places(moved)) /\ \A p \in Places(moved) : At(moved, p) \in Printed
        /\ IsFiniteSet(Places(docs)) /\ \A p \in Places(docs) : At(docs, p) \in Printed
    BY <2>1, PlacesFinite
  <2>3. D \in SUBSET Places(moved) /\ E \in SUBSET Places(docs)
    BY DEF Seen
  <2>4. IsFiniteSet(D) /\ IsFiniteSet(E)
    BY <2>2, <2>3, FS_Subset
  <2>5. e \in [D -> E]
    BY <1>1 DEF Seen
  <2>6. \A p, q \in D : e[p] = e[q] => p = q
    BY <1>1, <2>3
  <2>7. \A q \in E : \E p \in D : e[p] = q
    <3> SUFFICES ASSUME NEW q \in E PROVE \E p \in D : There(f, p) = q
      OBVIOUS
    <3>1. q \in Places(docs) /\ KeyOf(At(docs, q)) = key
      BY DEF Seen
    <3>2. PICK p \in Places(moved) : There(f, p) = q
      BY <1>1, <3>1
    <3>3. p \in D
      BY <1>1, <3>1, <3>2 DEF Seen
    <3> QED
      BY <3>2, <3>3
  <2>8. \A p \in D : c[p] = d[e[p]]
    <3> SUFFICES ASSUME NEW p \in D PROVE c[p] = d[e[p]]
      OBVIOUS
    <3>1. e[p] \in E /\ e[p] = There(f, p) /\ p \in Places(moved)
      BY <2>3, <2>5
    <3>2. At(moved, p) = At(docs, e[p])
      BY <1>1, <3>1
    <3> HIDE DEF D, E, e
    <3> QED
      BY <3>1, <3>2
  <2> HIDE DEF D, E
  <2>9. c \in [D -> Nat] /\ d \in [E -> Nat]
    <3>1. /\ \A p \in D : At(moved, p).count \in Nat
          /\ \A q \in E : At(docs, q).count \in Nat
      BY <2>2, <2>3 DEF Printed
    <3> QED
      BY <3>1
  <2> HIDE DEF c, d, e
  <2>10. e \in Bijection(D, E)
    BY <2>5, <2>6, <2>7 DEF Bijection, Injection, Surjection, IsInjective
  <2>11. MedianInt(c) = MedianInt(d)
    BY <2>4, <2>8, <2>9, <2>10, MedianInAnyOrder
  <2> QED
    BY <2>11 DEF CountOf, c, d, D, E
<1> QED
  BY <1>2, <1>3

\* The subject a section is known by.
SubjectOf(key) == IF key[1] = "label" THEN "none" ELSE key[2]
KeysKept(docs, m) == {key \in KeysSeen(docs) : CountOf(docs, m, key) > 0}

\* The sections of a draft are the keys that count, each once.
LEMMA ListedByKey ==
  ASSUME NEW docs \in Seq(Paper), NEW m \in Int
  PROVE  \E kf \in [1..Len(BuildSections(docs, m)) -> KeysKept(docs, m)] :
           /\ \A n, k \in 1..Len(BuildSections(docs, m)) : kf[n] = kf[k] => n = k
           /\ \A key \in KeysKept(docs, m) : \E n \in 1..Len(BuildSections(docs, m)) : kf[n] = key
           /\ \A n \in 1..Len(BuildSections(docs, m)) :
                /\ BuildSections(docs, m)[n].count = CountOf(docs, m, kf[n])
                /\ BuildSections(docs, m)[n].subject = SubjectOf(kf[n])
<1> DEFINE list == BuildSections(docs, m)
           kept == Kept(docs, m)
           kf == [n \in 1..Len(list) |-> KeyOf(At(docs, list[n].first))]
<1>1. /\ CollectGroups(docs) \in SUBSET Places(docs)
      /\ \A p \in Places(docs) : \E q \in CollectGroups(docs) : KeyOf(At(docs, q)) = KeyOf(At(docs, p))
      /\ \A p, q \in CollectGroups(docs) : KeyOf(At(docs, q)) = KeyOf(At(docs, p)) => p = q
  BY OneGroup
<1>2. /\ list \in Seq(Group) /\ IsFiniteSet(kept) /\ Len(list) = Cardinality(kept)
      /\ \A n \in 1..Len(list) : /\ list[n] \in kept
                                 /\ Cardinality({h \in kept : Ahead(h, list[n])}) = n - 1
      /\ \A g \in kept : \E n \in 1..Len(list) : list[n] = g
  BY SectionsListed
<1>3. ASSUME NEW g \in kept
      PROVE  /\ g.first \in CollectGroups(docs) /\ g = SectionAt(docs, m, g.first)
             /\ KeyOf(At(docs, g.first)) \in KeysKept(docs, m)
             /\ g.count = CountOf(docs, m, KeyOf(At(docs, g.first)))
             /\ g.subject = SubjectOf(KeyOf(At(docs, g.first)))
  <2>1. PICK p \in CollectGroups(docs) : g = SectionAt(docs, m, p) /\ g.count > 0
    BY DEF Kept
  <2>2. p \in Places(docs) /\ g.first = p
    BY <1>1, <2>1, SectionGroup
  <2>3. g.subject = At(docs, p).subject /\ g.count = CountOf(docs, m, KeyOf(At(docs, p)))
    BY <2>1, <2>2, SectionByKey
  <2>4. SubjectOf(KeyOf(At(docs, p))) = At(docs, p).subject
    <3>1. CASE At(docs, p).subject = "none"
      BY <3>1 DEF KeyOf, SubjectOf
    <3>2. CASE At(docs, p).subject # "none"
      BY <3>2 DEF KeyOf, SubjectOf
    <3> QED
      BY <3>1, <3>2
  <2>5. KeyOf(At(docs, p)) \in KeysKept(docs, m)
    BY <2>1, <2>2, <2>3 DEF KeysKept, KeysSeen
  <2> QED
    BY <2>1, <2>2, <2>3, <2>4, <2>5
<1>4. ASSUME NEW n \in 1..Len(list), NEW k \in 1..Len(list), list[n] = list[k] PROVE n = k
  <2> HIDE DEF list, kept
  <2> DEFINE rank(g) == Cardinality({h \in kept : Ahead(h, g)})
  <2>1. rank(list[n]) = n - 1 /\ rank(list[k]) = k - 1
    BY <1>2
  <2>2. rank(list[n]) = rank(list[k])
    BY <1>4
  <2> HIDE DEF rank
  <2>3. Len(list) \in Nat
    BY <1>2
  <2> QED
    BY <2>1, <2>2, <2>3
<1> HIDE DEF list, kept
<1>5. kf \in [1..Len(list) -> KeysKept(docs, m)]
  BY <1>2, <1>3
<1>6. ASSUME NEW n \in 1..Len(list), NEW k \in 1..Len(list), kf[n] = kf[k] PROVE n = k
  <2>1. KeyOf(At(docs, list[n].first)) = KeyOf(At(docs, list[k].first))
    BY <1>6
  <2>2. list[n] \in kept /\ list[k] \in kept
    BY <1>2
  <2>3. list[n].first = list[k].first
    BY <1>1, <1>3, <2>1, <2>2
  <2>4. list[n] = list[k]
    BY <1>3, <2>2, <2>3
  <2> QED
    BY <1>4, <2>4
<1>7. ASSUME NEW key \in KeysKept(docs, m) PROVE \E n \in 1..Len(list) : kf[n] = key
  <2>1. PICK p \in Places(docs) : key = KeyOf(At(docs, p))
    BY DEF KeysKept, KeysSeen
  <2>2. CountOf(docs, m, key) > 0
    BY DEF KeysKept
  <2>3. PICK q \in CollectGroups(docs) : KeyOf(At(docs, q)) = key /\ q \in Places(docs)
    BY <1>1, <2>1
  <2>4. SectionAt(docs, m, q).count = CountOf(docs, m, key) /\ SectionAt(docs, m, q).first = q
    BY <2>3, SectionByKey, SectionGroup
  <2>5. SectionAt(docs, m, q) \in kept
    BY <2>2, <2>3, <2>4 DEF kept, Kept
  <2>6. PICK n \in 1..Len(list) : list[n] = SectionAt(docs, m, q)
    BY <1>2, <2>5
  <2>7. kf[n] = key
    BY <2>3, <2>4, <2>6
  <2> QED
    BY <2>7
<1>8. ASSUME NEW n \in 1..Len(list)
      PROVE  list[n].count = CountOf(docs, m, kf[n]) /\ list[n].subject = SubjectOf(kf[n])
  BY <1>2, <1>3
<1> HIDE DEF kf
<1> QED
  BY <1>5, <1>6, <1>7, <1>8 DEF list

\* The sections of the draft, in another order.
LEMMA ListsMoved ==
  ASSUME NEW docs, NEW moved, NEW f, Moved(docs, moved, f), NEW m \in Int
  PROVE  \E g \in Bijection(1..Len(BuildSections(moved, m)), 1..Len(BuildSections(docs, m))) :
           \A n \in 1..Len(BuildSections(moved, m)) :
             /\ BuildSections(moved, m)[n].count = BuildSections(docs, m)[g[n]].count
             /\ BuildSections(moved, m)[n].subject = BuildSections(docs, m)[g[n]].subject
<1> DEFINE s == BuildSections(docs, m)
           t == BuildSections(moved, m)
           K == KeysKept(docs, m)
<1>1. docs \in Seq(Paper) /\ moved \in Seq(Paper)
  BY DEF Moved
<1>2. KeysKept(moved, m) = K
  BY CountMoved DEF KeysKept
<1>3. PICK kf \in [1..Len(s) -> K] :
        /\ \A n, k \in 1..Len(s) : kf[n] = kf[k] => n = k
        /\ \A key \in K : \E n \in 1..Len(s) : kf[n] = key
        /\ \A n \in 1..Len(s) : s[n].count = CountOf(docs, m, kf[n]) /\ s[n].subject = SubjectOf(kf[n])
  BY <1>1, ListedByKey
<1>4. PICK kg \in [1..Len(t) -> K] :
        /\ \A n, k \in 1..Len(t) : kg[n] = kg[k] => n = k
        /\ \A key \in K : \E n \in 1..Len(t) : kg[n] = key
        /\ \A n \in 1..Len(t) : t[n].count = CountOf(docs, m, kg[n]) /\ t[n].subject = SubjectOf(kg[n])
  <2>1. \E kg \in [1..Len(t) -> KeysKept(moved, m)] :
          /\ \A n, k \in 1..Len(t) : kg[n] = kg[k] => n = k
          /\ \A key \in KeysKept(moved, m) : \E n \in 1..Len(t) : kg[n] = key
          /\ \A n \in 1..Len(t) : t[n].count = CountOf(moved, m, kg[n]) /\ t[n].subject = SubjectOf(kg[n])
    BY <1>1, ListedByKey
  <2>2. \A key : CountOf(moved, m, key) = CountOf(docs, m, key)
    BY CountMoved
  <2> HIDE DEF t, K
  <2> QED
    BY <1>2, <2>1, <2>2
<1> DEFINE A == 1..Len(t)
           B == 1..Len(s)
           g == [n \in A |-> CHOOSE k \in B : kf[k] = kg[n]]
<1> HIDE DEF s, t, K, A, B
<1>5. ASSUME NEW n \in A PROVE g[n] \in B /\ kf[g[n]] = kg[n]
  <2>1. \E k \in B : kf[k] = kg[n]
    BY <1>3, <1>4 DEF A, B
  <2> QED
    BY <2>1
<1> HIDE DEF g
<1>6. g \in [A -> B]
  BY <1>5 DEF g
<1>7. \A n, k \in A : g[n] = g[k] => n = k
  BY <1>4, <1>5 DEF A
<1>8. ASSUME NEW k \in B PROVE \E n \in A : g[n] = k
  <2>1. PICK n \in A : kg[n] = kf[k]
    BY <1>3, <1>4 DEF A, B
  <2>2. g[n] = k
    BY <1>3, <1>5, <2>1 DEF B
  <2> QED
    BY <2>2
<1>9. g \in Bijection(A, B)
  BY <1>6, <1>7, <1>8 DEF Bijection, Injection, Surjection, IsInjective
<1>10. \A n \in A : t[n].count = s[g[n]].count /\ t[n].subject = s[g[n]].subject
  BY <1>3, <1>4, <1>5 DEF A, B
<1> QED
  BY <1>9, <1>10 DEF A, B, s, t

\* The size of the draft, in another order.
SizeOf(docs, m) ==
  LET list == BuildSections(docs, m)
      sum == Total([i \in DOMAIN list |-> list[i].count])
  IN IF sum > 0 THEN sum ELSE RoundTo(MedianInt([i \in DOMAIN docs |-> docs[i].questions]), m)
LEMMA SizeMoved ==
  ASSUME NEW docs, NEW moved, NEW f, Moved(docs, moved, f), NEW m \in Int
  PROVE  SizeOf(moved, m) = SizeOf(docs, m)
<1> DEFINE s == BuildSections(docs, m)
           t == BuildSections(moved, m)
           c == [i \in DOMAIN s |-> s[i].count]
           d == [i \in DOMAIN t |-> t[i].count]
           p == [i \in DOMAIN docs |-> docs[i].questions]
           q == [i \in DOMAIN moved |-> moved[i].questions]
<1>1. docs \in Seq(Paper) /\ moved \in Seq(Paper)
  BY DEF Moved
<1>2. s \in Seq(Group) /\ t \in Seq(Group)
  BY <1>1, SectionsListed
<1>3. PICK g \in Bijection(1..Len(t), 1..Len(s)) :
        \A n \in 1..Len(t) : t[n].count = s[g[n]].count /\ t[n].subject = s[g[n]].subject
  BY ListsMoved
<1> HIDE DEF s, t
<1>4. DOMAIN s = 1..Len(s) /\ DOMAIN t = 1..Len(t) /\ Len(s) \in Nat /\ Len(t) \in Nat
  BY <1>2
<1>5. c \in Seq(Nat) /\ d \in Seq(Nat) /\ Len(c) = Len(s) /\ Len(d) = Len(t)
  <2>1. (\A i \in DOMAIN s : s[i] \in Group) /\ (\A i \in DOMAIN t : t[i] \in Group)
    BY <1>2
  <2>2. (\A i \in DOMAIN s : s[i].count \in Nat) /\ (\A i \in DOMAIN t : t[i].count \in Nat)
    BY <2>1 DEF Group
  <2> QED
    BY <1>4, <2>2
<1>6. Total(d) = Total(c)
  <2>1. \A n \in 1..Len(t) : g[n] \in 1..Len(s)
    BY DEF Bijection, Injection
  <2>2. \A n \in 1..Len(d) : d[n] = c[g[n]]
    BY <1>3, <1>4, <1>5, <2>1
  <2> HIDE DEF c, d
  <2>3. g \in Bijection(1..Len(d), 1..Len(c))
    BY <1>5
  <2> QED
    BY <1>5, <2>2, <2>3, TotalMoved
<1>7. MedianInt(q) = MedianInt(p)
  <2> DEFINE A == 1..Len(moved)
             B == 1..Len(docs)
  <2>1. DOMAIN docs = B /\ DOMAIN moved = A /\ IsFiniteSet(A) /\ IsFiniteSet(B)
    BY <1>1, FS_Interval
  <2>2. f \in [A -> B] /\ \A i \in A : moved[i] = docs[f[i]]
    BY DEF Moved
  <2>3. f \in Bijection(A, B)
    BY DEF Moved, Bijection, Injection, Surjection, IsInjective
  <2>4. (\A i \in A : moved[i].questions \in Nat) /\ (\A i \in B : docs[i].questions \in Nat)
    BY <1>1, PaperAssumption
  <2> HIDE DEF A, B
  <2>5. q \in [A -> Nat] /\ p \in [B -> Nat] /\ \A i \in A : q[i] = p[f[i]]
    BY <2>1, <2>2, <2>4
  <2> HIDE DEF p, q
  <2> QED
    BY <2>1, <2>3, <2>5, MedianInAnyOrder
<1>8. SizeOf(moved, m) = IF Total(d) > 0 THEN Total(d) ELSE RoundTo(MedianInt(q), m)
  BY DEF SizeOf, t
<1>9. SizeOf(docs, m) = IF Total(c) > 0 THEN Total(c) ELSE RoundTo(MedianInt(p), m)
  BY DEF SizeOf, s
<1> HIDE DEF c, d, p, q
<1> QED
  BY <1>6, <1>7, <1>8, <1>9

\* The counts of a draft are those of the sections built.
LEMMA CountsListed ==
  ASSUME NEW o \in Seq(Paper), NEW m \in Int
  PROVE  CountsIn(Analyze(o, m))
           = {[subject |-> BuildSections(WithQuestions(o), m)[n].subject,
               count |-> BuildSections(WithQuestions(o), m)[n].count] :
                n \in 1..Len(BuildSections(WithQuestions(o), m))}
<1> DEFINE list == BuildSections(WithQuestions(o), m)
           d == Analyze(o, m)
<1>1. /\ DOMAIN d.sections = 1..Len(list)
      /\ \A n \in 1..Len(list) : d.sections[n].subject = list[n].subject /\ d.sections[n].count = list[n].count
  BY DraftParts
<1> HIDE DEF list, d
<1>2. CountsIn(d) = {[subject |-> s.subject, count |-> s.count] : s \in {d.sections[n] : n \in 1..Len(list)}}
  BY <1>1 DEF CountsIn, Range
<1>3. CountsIn(d) = {[subject |-> d.sections[n].subject, count |-> d.sections[n].count] : n \in 1..Len(list)}
  BY <1>2
<1> QED
  BY <1>1, <1>3 DEF list, d

\* The draft of the same papers in another order.
LEMMA DraftMoved ==
  ASSUME NEW o \in Seq(Paper), NEW w \in Seq(Paper), NEW m \in Int,
         NEW g \in Bijection(1..Len(w), 1..Len(o)), \A k \in 1..Len(w) : w[k] = o[g[k]]
  PROVE  LET d == Analyze(o, m)
             other == Analyze(w, m)
         IN /\ CountsIn(other) = CountsIn(d)
            /\ other.total = d.total /\ other.duration = d.duration
            /\ other.negative = d.negative /\ other.totalMarks = d.totalMarks
<1> DEFINE docs == WithQuestions(o)
           moved == WithQuestions(w)
<1>1. docs \in Seq(Paper) /\ moved \in Seq(Paper)
  BY PapersKept
<1>2. PICK f \in Bijection(1..Len(moved), 1..Len(docs)) : \A k \in 1..Len(moved) : moved[k] = docs[f[k]]
  BY PapersMoved
<1>3. Moved(docs, moved, f)
  BY <1>1, <1>2 DEF Moved, Bijection, Injection, Surjection, IsInjective
<1>4. CountsIn(Analyze(w, m)) = CountsIn(Analyze(o, m))
  <2> DEFINE s == BuildSections(docs, m)
             t == BuildSections(moved, m)
  <2>1. PICK e \in Bijection(1..Len(t), 1..Len(s)) :
          \A n \in 1..Len(t) : t[n].count = s[e[n]].count /\ t[n].subject = s[e[n]].subject
    BY <1>3, ListsMoved
  <2>2. /\ CountsIn(Analyze(w, m)) = {[subject |-> t[n].subject, count |-> t[n].count] : n \in 1..Len(t)}
        /\ CountsIn(Analyze(o, m)) = {[subject |-> s[n].subject, count |-> s[n].count] : n \in 1..Len(s)}
    BY CountsListed
  <2> HIDE DEF s, t
  <2>3. e \in [1..Len(t) -> 1..Len(s)] /\ \A i \in 1..Len(s) : \E k \in 1..Len(t) : e[k] = i
    BY DEF Bijection, Injection, Surjection
  <2> DEFINE A == 1..Len(t)
             B == 1..Len(s)
             part(x) == [subject |-> x.subject, count |-> x.count]
  <2>4. (\A n \in A : e[n] \in B /\ part(t[n]) = part(s[e[n]])) /\ \A i \in B : \E k \in A : e[k] = i
    BY <2>1, <2>3
  <2>5. CountsIn(Analyze(w, m)) = {part(t[n]) : n \in A} /\ CountsIn(Analyze(o, m)) = {part(s[n]) : n \in B}
    BY <2>2
  <2> HIDE DEF A, B, part
  <2>6. {part(t[n]) : n \in A} = {part(s[n]) : n \in B}
    BY <2>4
  <2> QED
    BY <2>5, <2>6
<1>5. DetectScheme(moved) = DetectScheme(docs)
  BY <1>1, <1>2, SchemeMoved
<1>6. SizeOf(moved, m) = SizeOf(docs, m)
  BY <1>3, SizeMoved
<1> HIDE DEF docs, moved
<1> DEFINE each(scheme) == IF scheme.each > 0 THEN scheme.each ELSE 100
           marks(scheme, total) == IF scheme.total > 0 THEN scheme.total ELSE total * each(scheme)
<1>7. /\ Analyze(o, m).total = SizeOf(docs, m) /\ Analyze(o, m).duration = DetectScheme(docs).duration
      /\ Analyze(o, m).negative = DetectScheme(docs).negative
      /\ Analyze(o, m).totalMarks = marks(DetectScheme(docs), SizeOf(docs, m))
  BY DEF Analyze, SizeOf, docs
<1>8. /\ Analyze(w, m).total = SizeOf(moved, m) /\ Analyze(w, m).duration = DetectScheme(moved).duration
      /\ Analyze(w, m).negative = DetectScheme(moved).negative
      /\ Analyze(w, m).totalMarks = marks(DetectScheme(moved), SizeOf(moved, m))
  BY DEF Analyze, SizeOf, moved
<1> HIDE DEF marks
<1> QED
  BY <1>4, <1>5, <1>6, <1>7, <1>8

\* The order in which the papers were read changes nothing that is built on.
LEMMA AnyOrderHolds ==
  ASSUME observed \in Seq(Paper), multiple \in Multiples, draft = Analyze(observed, multiple)
  PROVE  AnyOrder
<1> DEFINE D == 1..Len(observed)
<1>1. DOMAIN observed = D /\ IsFiniteSet(D) /\ multiple \in Int
  <2>1. DOMAIN observed = D /\ Len(observed) \in Nat
    OBVIOUS
  <2> QED
    BY <2>1, FirstNumbers, MultiplesAssumption
<1> SUFFICES ASSUME NEW p \in [D -> D], IsInjective(p)
             PROVE  LET other == Analyze([i \in D |-> observed[p[i]]], multiple)
                    IN /\ CountsIn(other) = CountsIn(draft)
                       /\ other.total = draft.total /\ other.duration = draft.duration
                       /\ other.negative = draft.negative /\ other.totalMarks = draft.totalMarks
  BY <1>1 DEF AnyOrder, Reordered
<1> DEFINE w == [i \in D |-> observed[p[i]]]
<1>2. w \in Seq(Paper) /\ Len(w) = Len(observed)
  <2>1. \A i \in D : observed[p[i]] \in Paper
    OBVIOUS
  <2>2. Len(observed) \in Nat
    OBVIOUS
  <2> QED
    BY <2>1, <2>2
<1>3. \A k \in 1..Len(w) : w[k] = observed[p[k]]
  BY <1>2
<1> HIDE DEF D
<1>4. \A x, y \in D : p[x] = p[y] => x = y
  BY DEF IsInjective
<1>5. {p[x] : x \in D} = D
  <2> DEFINE T == {p[x] : x \in D}
  <2>1. T \in SUBSET D
    OBVIOUS
  <2>2. DOMAIN p = D
    OBVIOUS
  <2>3. Cardinality(T) = Cardinality(D)
    BY <1>1, <1>4, <2>2, ImageSize
  <2> HIDE DEF T
  <2>4. T = D
    BY <1>1, <2>1, <2>3, FiniteParts
  <2> QED
    BY <2>4 DEF T
<1>6. p \in Bijection(D, D)
  <2>1. \A t \in D : \E x \in D : p[x] = t
    BY <1>5
  <2> QED
    BY <1>4, <2>1 DEF Bijection, Injection, Surjection, IsInjective
<1> HIDE DEF w
<1>7. p \in Bijection(1..Len(w), 1..Len(observed))
  BY <1>2, <1>6 DEF D
<1> QED
  BY <1>1, <1>2, <1>3, <1>7, DraftMoved DEF w

\* "One badly extracted paper cannot drag a section's count away from what the
\* others agree on", "a single misprint cannot set the pattern" and the order in
\* which documents are listed decides nothing (Analyze, CollectGroups, medianInt,
\* modeInt): the draft is what the papers agree on, for any papers.
THEOREM DraftFollowsPapersHolds == Spec => []DraftFollowsPapers
<1>1. ASSUME PaperInv PROVE DraftFollowsPapers
  <2> SUFFICES ASSUME stage = "draft" PROVE AgreedPapers /\ OneMisprint /\ AnyOrder
    BY DEF DraftFollowsPapers
  <2>1. observed \in Seq(Paper) /\ multiple \in Multiples /\ draft = Analyze(observed, multiple)
    BY <1>1 DEF PaperInv
  <2> QED
    BY <2>1, AgreedPapersHolds, OneMisprintHolds, AnyOrderHolds
<1> QED
  BY <1>1, PaperInvariant, PTL
=============================================================================
