------------------------- MODULE SequenceTotals_proofs -------------------------
EXTENDS SequenceTotals, TLAPS, WellFoundedInduction

\* Induction over the naturals, for a set instead of a predicate.
LEMMA NatSetInduction ==
  ASSUME NEW S, 0 \in S, \A n \in Nat : n \in S => n + 1 \in S
  PROVE  Nat \subseteq S
<1> DEFINE Less == {ss \in Nat \X Nat : ss[1] < ss[2]}
<1>1. IsWellFoundedOn(Less, Nat)
  BY NatLessThanWellFounded, Zenon DEF OpToRel
<1> HIDE DEF Less
<1>2. SUFFICES ASSUME Nat \ S # {} PROVE FALSE
  OBVIOUS
<1>3. PICK n \in Nat \ S : \A m \in Nat \ S : ~(<<m, n>> \in Less)
  BY <1>1, <1>2, WFMin
<1>4. n # 0 /\ n - 1 \in Nat
  BY <1>3
<1>5. <<n - 1, n>> \in Less
  BY <1>4 DEF Less
<1>6. n - 1 \in S
  BY <1>3, <1>4, <1>5
<1>7. QED
  BY <1>4, <1>6

\* What the next value is made of: the place, and the value before it.
StepsWithin(S, n, step) == \A k \in 1..n, v \in S : step[<<k, v>>] \in S

Recurs(f, S, n, base, step) ==
  /\ f \in [0..n -> S]
  /\ f[0] = base
  /\ \A k \in 1..n : f[k] = step[<<k, f[k - 1]>>]

\* A function may be defined by recursion over 0..n.
LEMMA Recursion ==
  ASSUME NEW S, NEW base \in S, NEW n \in Nat, NEW step, StepsWithin(S, n, step)
  PROVE  \E f : Recurs(f, S, n, base, step)
<1> DEFINE Good(m, f) == Recurs(f, S, m, base, step)
           Done == {m \in Nat : m <= n => \E f : Good(m, f)}
<1> USE DEF StepsWithin, Recurs
<1>1. 0 \in Done
  <2>1. Good(0, [k \in 0..0 |-> base])
    OBVIOUS
  <2>2. QED
    BY <2>1
<1>2. ASSUME NEW m \in Nat, m \in Done PROVE m + 1 \in Done
  <2>1. SUFFICES ASSUME m + 1 <= n PROVE \E f : Good(m + 1, f)
    OBVIOUS
  <2>2. PICK f : Good(m, f)
    BY <1>2, <2>1
  <2> DEFINE g == [k \in 0..(m + 1) |-> IF k <= m THEN f[k] ELSE step[<<m + 1, f[m]>>]]
  <2>3. f[m] \in S /\ m + 1 \in 1..n
    BY <2>1, <2>2
  <2>4. step[<<m + 1, f[m]>>] \in S
    BY <2>3
  <2>5. g \in [0..(m + 1) -> S] /\ g[0] = base
    BY <2>2, <2>4
  <2>6. \A k \in 0..m : g[k] = f[k]
    OBVIOUS
  <2>7. g[m + 1] = step[<<m + 1, g[m]>>]
    <3>1. m \in 0..m /\ m + 1 \in 0..(m + 1) /\ ~(m + 1 <= m)
      OBVIOUS
    <3>2. g[m + 1] = step[<<m + 1, f[m]>>] /\ g[m] = f[m]
      BY <2>6, <3>1
    <3>3. QED
      BY <3>2
  <2>8. ASSUME NEW k \in 1..(m + 1) PROVE g[k] = step[<<k, g[k - 1]>>]
    <3>1. CASE k = m + 1
      <4>1. k - 1 = m
        BY <3>1
      <4> HIDE DEF g
      <4>2. QED
        BY <2>7, <3>1, <4>1
    <3>2. CASE k # m + 1
      <4>1. k \in 1..m /\ k \in 0..m /\ k - 1 \in 0..m
        BY <3>2
      <4> HIDE DEF g
      <4>2. QED
        BY <2>2, <2>6, <4>1
    <3>3. QED
      BY <3>1, <3>2
  <2>9. Good(m + 1, g)
    <3> HIDE DEF g
    <3>1. QED
      BY <2>5, <2>8
  <2>10. QED
    BY <2>9
<1> HIDE DEF StepsWithin, Recurs
<1>3. n \in Done
  <2> HIDE DEF Done
  <2>1. Nat \subseteq Done
    BY <1>1, <1>2, NatSetInduction
  <2>2. QED
    BY <2>1
<1>4. QED
  BY <1>3

Alike(f, g, n) == \A k \in 0..n : f[k] = g[k]
StaysAlike(f, g, n) == \A k \in 1..n : f[k - 1] = g[k - 1] => f[k] = g[k]

\* Two functions that begin alike and continue alike are alike.
LEMMA RecursionAgrees ==
  ASSUME NEW n \in Nat, NEW f, NEW g, f[0] = g[0], StaysAlike(f, g, n)
  PROVE  Alike(f, g, n)
<1> DEFINE Done == {m \in Nat : m <= n => f[m] = g[m]}
<1>1. 0 \in Done
  OBVIOUS
<1>2. ASSUME NEW m \in Nat, m \in Done PROVE m + 1 \in Done
  <2>1. m + 1 <= n => m + 1 \in 1..n /\ (m + 1) - 1 = m /\ m <= n
    OBVIOUS
  <2>2. QED
    BY <1>2, <2>1 DEF StaysAlike
<1>3. Nat \subseteq Done
  <2> HIDE DEF Done
  <2>1. QED
    BY <1>1, <1>2, NatSetInduction
<1>4. QED
  BY <1>3 DEF Alike

--------------------------------------------------------------------------------
\* Totals adds one number after the other.
LEMMA TotalsAre ==
  ASSUME NEW w \in Seq(Int)
  PROVE  /\ Totals(w) \in [0..Len(w) -> Int]
         /\ Totals(w)[0] = 0
         /\ \A k \in 1..Len(w) : Totals(w)[k] = Totals(w)[k - 1] + w[k]
<1> DEFINE n == Len(w)
           step == [p \in (1..n) \X Int |-> p[2] + w[p[1]]]
<1>1. n \in Nat /\ \A k \in 1..n : w[k] \in Int
  OBVIOUS
<1>2. \A k \in 1..n, v \in Int : step[<<k, v>>] = v + w[k] /\ step[<<k, v>>] \in Int
  BY <1>1
<1> HIDE DEF n, step
<1>3. PICK f : Recurs(f, Int, n, 0, step)
  <2>1. StepsWithin(Int, n, step) /\ 0 \in Int
    BY <1>2 DEF StepsWithin
  <2>2. QED
    BY <1>1, <2>1, Recursion
<1>4. /\ f \in [0..n -> Int] /\ f[0] = 0
      /\ \A k \in 1..n : f[k] = f[k - 1] + w[k]
  <2>1. f \in [0..n -> Int] /\ f[0] = 0 /\ \A k \in 1..n : f[k] = step[<<k, f[k - 1]>>]
    BY <1>3 DEF Recurs
  <2>2. \A k \in 1..n : f[k - 1] \in Int
    BY <1>1, <2>1
  <2>3. QED
    BY <1>2, <2>1, <2>2
<1>5. f = [k \in 0..n |-> IF k = 0 THEN 0 ELSE f[k - 1] + w[k]]
  BY <1>1, <1>4
<1>6. Totals(w) = CHOOSE g : g = [k \in 0..n |-> IF k = 0 THEN 0 ELSE g[k - 1] + w[k]]
  BY DEF Totals, n
<1>7. Totals(w) = [k \in 0..n |-> IF k = 0 THEN 0 ELSE Totals(w)[k - 1] + w[k]]
  BY <1>5, <1>6
<1>8. /\ Totals(w)[0] = 0
      /\ \A k \in 1..n : Totals(w)[k] = Totals(w)[k - 1] + w[k]
  <2>1. 0 \in 0..n /\ \A k \in 1..n : k \in 0..n /\ k # 0
    BY <1>1
  <2>2. QED
    BY <1>7, <2>1
<1>9. \A k \in 0..n : Totals(w)[k] = f[k]
  <2>1. StaysAlike(Totals(w), f, n)
    BY <1>4, <1>8 DEF StaysAlike
  <2>2. Totals(w)[0] = f[0]
    BY <1>4, <1>8
  <2>3. Alike(Totals(w), f, n)
    BY <1>1, <2>1, <2>2, RecursionAgrees
  <2>4. QED
    BY <2>3 DEF Alike
<1>10. Totals(w) \in [0..n -> Int]
  BY <1>4, <1>7, <1>9
<1>11. QED
  BY <1>8, <1>10 DEF n

\* The totals of a longer sequence begin with those of its beginning.
LEMMA TotalsAgree ==
  ASSUME NEW v \in Seq(Int), NEW w \in Seq(Int), NEW n \in 0..Len(v), n <= Len(w),
         \A k \in 1..n : v[k] = w[k]
  PROVE  \A k \in 0..n : Totals(v)[k] = Totals(w)[k]
<1>1. n \in Nat /\ Len(v) \in Nat /\ Len(w) \in Nat
  OBVIOUS
<1>2. Totals(v)[0] = Totals(w)[0]
  BY TotalsAre
<1>3. ASSUME NEW k \in 1..n, Totals(v)[k - 1] = Totals(w)[k - 1]
      PROVE  Totals(v)[k] = Totals(w)[k]
  <2>1. k \in 1..Len(v) /\ k \in 1..Len(w)
    BY <1>1
  <2>2. Totals(v)[k] = Totals(v)[k - 1] + v[k] /\ Totals(w)[k] = Totals(w)[k - 1] + w[k]
    BY <2>1, TotalsAre
  <2>3. QED
    BY <1>3, <2>2
<1>4. StaysAlike(Totals(v), Totals(w), n)
  BY <1>3 DEF StaysAlike
<1>5. Alike(Totals(v), Totals(w), n)
  BY <1>1, <1>2, <1>4, RecursionAgrees
<1>6. QED
  BY <1>5 DEF Alike

LEMMA TotalEmpty == Total(<<>>) = 0
<1>1. <<>> \in Seq(Int) /\ Len(<<>>) = 0
  OBVIOUS
<1>2. QED
  BY <1>1, TotalsAre DEF Total

LEMMA TotalType ==
  ASSUME NEW w \in Seq(Int)
  PROVE  Total(w) \in Int
<1>1. Len(w) \in 0..Len(w)
  OBVIOUS
<1>2. QED
  BY <1>1, TotalsAre DEF Total

\* A number more adds itself to the total.
LEMMA TotalAppend ==
  ASSUME NEW w \in Seq(Int), NEW x \in Int
  PROVE  Total(Append(w, x)) = Total(w) + x
<1> DEFINE v == Append(w, x)
           n == Len(w)
<1>1. /\ v \in Seq(Int) /\ Len(v) = n + 1 /\ n \in Nat
      /\ v[n + 1] = x /\ \A k \in 1..n : v[k] = w[k]
  OBVIOUS
<1> HIDE DEF v, n
<1>2. \A k \in 0..n : Totals(v)[k] = Totals(w)[k]
  <2>1. n \in 0..Len(v) /\ n <= Len(w)
    BY <1>1 DEF n
  <2>2. QED
    BY <1>1, <2>1, TotalsAgree
<1>3. Totals(v)[n + 1] = Totals(v)[(n + 1) - 1] + v[n + 1]
  <2>1. n + 1 \in 1..Len(v)
    BY <1>1
  <2>2. QED
    BY <1>1, <2>1, TotalsAre
<1>4. (n + 1) - 1 = n /\ n \in 0..n
  BY <1>1
<1>5. Total(v) = Totals(w)[n] + x
  BY <1>1, <1>2, <1>3, <1>4 DEF Total
<1>6. QED
  BY <1>5 DEF Total, v, n

\* Totals of naturals never fall.
LEMMA TotalsRise ==
  ASSUME NEW w \in Seq(Nat), NEW j \in 0..Len(w), NEW k \in 0..Len(w), j <= k
  PROVE  Totals(w)[j] <= Totals(w)[k]
<1> DEFINE n == Len(w)
           Done == {m \in Nat : m <= n /\ j <= m => Totals(w)[j] <= Totals(w)[m]}
<1>1. w \in Seq(Int) /\ n \in Nat /\ \A m \in 1..n : w[m] \in Nat
  OBVIOUS
<1>2. /\ Totals(w) \in [0..n -> Int]
      /\ \A m \in 1..n : Totals(w)[m] = Totals(w)[m - 1] + w[m]
  BY <1>1, TotalsAre
<1> HIDE DEF n
<1>3. Totals(w)[j] \in Int /\ j \in Nat
  <2>1. j \in 0..n
    BY DEF n
  <2>2. QED
    BY <1>1, <1>2, <2>1
<1>4. 0 \in Done
  <2>1. j <= 0 => j = 0
    BY <1>3
  <2>2. QED
    BY <1>3, <2>1
<1>5. ASSUME NEW m \in Nat, m \in Done PROVE m + 1 \in Done
  <2>1. SUFFICES ASSUME m + 1 <= n, j <= m + 1 PROVE Totals(w)[j] <= Totals(w)[m + 1]
    BY <1>5
  <2>2. CASE j = m + 1
    BY <1>3, <2>2
  <2>3. CASE j # m + 1
    <3>1. m + 1 \in 1..n /\ m \in 0..n /\ (m + 1) - 1 = m /\ j <= m /\ m <= n
      BY <1>1, <1>3, <2>1, <2>3
    <3>2. Totals(w)[m + 1] = Totals(w)[m] + w[m + 1]
      BY <1>2, <3>1
    <3>3. Totals(w)[m] \in Int /\ w[m + 1] \in Nat
      BY <1>1, <1>2, <3>1
    <3>4. Totals(w)[j] <= Totals(w)[m]
      BY <1>5, <3>1
    <3>5. QED
      BY <1>3, <3>2, <3>3, <3>4
  <2>4. QED
    BY <2>2, <2>3
<1>6. k \in Done
  <2>1. Nat \subseteq Done
    <3> HIDE DEF Done
    <3>1. QED
      BY <1>4, <1>5, NatSetInduction
  <2>2. k \in Nat
    BY <1>1 DEF n
  <2>3. QED
    BY <2>1, <2>2
<1>7. QED
  BY <1>6 DEF n

\* So they are naturals, none above the last.
LEMMA TotalsNat ==
  ASSUME NEW w \in Seq(Nat)
  PROVE  /\ \A k \in 0..Len(w) : Totals(w)[k] \in Nat /\ Totals(w)[k] <= Total(w)
         /\ Total(w) \in Nat
<1>1. w \in Seq(Int) /\ 0 \in 0..Len(w) /\ Len(w) \in 0..Len(w)
  OBVIOUS
<1>2. Totals(w) \in [0..Len(w) -> Int] /\ Totals(w)[0] = 0
  BY <1>1, TotalsAre
<1>3. ASSUME NEW k \in 0..Len(w)
      PROVE  Totals(w)[k] \in Int /\ 0 <= Totals(w)[k] /\ Totals(w)[k] <= Total(w)
  <2>1. Totals(w)[0] <= Totals(w)[k] /\ Totals(w)[k] <= Totals(w)[Len(w)]
    <3>1. k <= Len(w) /\ 0 <= k
      OBVIOUS
    <3>2. QED
      BY <1>1, <3>1, TotalsRise
  <2>2. QED
    BY <1>2, <2>1 DEF Total
<1>4. QED
  BY <1>1, <1>3 DEF Total
================================================================================
