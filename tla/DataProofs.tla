----------------------------- MODULE DataProofs -----------------------------
(***************************************************************************)
(* Proofs about the calculations of the platform: for all plans, usage,    *)
(* partners, rights, records, counters, texts, figures and series.         *)
(***************************************************************************)
EXTENDS MCData, FiniteSetTheorems, SequenceTheorems, WellFoundedInduction, TLAPS

-----------------------------------------------------------------------------
(* Recursion and induction over an interval *)

LEMMA LeastExists ==
  ASSUME NEW S \in SUBSET Nat, S # {}
  PROVE  \E k \in S : \A m \in S : k <= m
<1>1. PICK k \in S : \A m \in Nat : <<m, k>> \in OpToRel(<, Nat) => m \notin S
  BY NatLessThanWellFounded, WFMin
<1>2. \A m \in S : ~(m < k)
  BY <1>1 DEF OpToRel
<1> QED BY <1>2

LEMMA UpTo ==
  ASSUME NEW n \in Nat, NEW P, 0 \in P, \A i \in 1..n : i - 1 \in P => i \in P
  PROVE  0..n \subseteq P
<1> SUFFICES ASSUME (0..n) \ P # {} PROVE FALSE
  OBVIOUS
<1>1. PICK k \in (0..n) \ P : \A m \in (0..n) \ P : k <= m
  <2>1. (0..n) \ P \in SUBSET Nat
    OBVIOUS
  <2> QED BY <2>1, LeastExists
<1>2. k \in 1..n /\ k - 1 \in 0..n
  BY <1>1
<1>3. k - 1 \in P
  BY <1>1, <1>2
<1> QED BY <1>1, <1>2, <1>3

\* A value for each number, from the value for the number before.
Grows(n, S, base, step, out) ==
  out \in [0..n -> S] /\ out[0] = base /\ \A i \in 1..n : out[i] = step[i][out[i - 1]]

LEMMA StepByStep ==
  ASSUME NEW n \in Nat, NEW S, NEW base \in S, NEW step \in [1..n -> [S -> S]]
  PROVE  \E out : Grows(n, S, base, step, out)
<1> DEFINE P == {m \in 0..n : \E out : Grows(m, S, base, step, out)}
<1>1. 0 \in P
  <2>1. Grows(0, S, base, step, [i \in 0..0 |-> base])
    BY DEF Grows
  <2>2. 0 \in 0..n
    OBVIOUS
  <2> QED BY <2>1, <2>2
<1>2. ASSUME NEW m \in 1..n, m - 1 \in P PROVE m \in P
  <2>1. PICK old : Grows(m - 1, S, base, step, old)
    BY <1>2
  <2>2. old \in [0..(m - 1) -> S] /\ m - 1 \in 0..(m - 1)
    BY <2>1 DEF Grows
  <2>3. PICK last \in S : last = step[m][old[m - 1]]
    BY <2>2
  <2>4. PICK out : out = [i \in 0..m |-> IF i = m THEN last ELSE old[i]]
    OBVIOUS
  <2>5. out \in [0..m -> S] /\ out[m] = last /\ \A i \in 0..(m - 1) : out[i] = old[i]
    BY <2>2, <2>4
  <2>6. out[0] = base
    BY <2>1, <2>5 DEF Grows
  <2>7. ASSUME NEW i \in 1..m PROVE out[i] = step[i][out[i - 1]]
    <3>1. i - 1 \in 0..(m - 1) /\ out[i - 1] = old[i - 1]
      BY <2>5
    <3>2. CASE i = m
      BY <2>3, <2>5, <3>1, <3>2
    <3>3. CASE i # m
      BY <2>1, <2>5, <3>1, <3>3 DEF Grows
    <3> QED BY <3>2, <3>3
  <2>8. Grows(m, S, base, step, out)
    BY <2>5, <2>6, <2>7 DEF Grows
  <2>9. m \in 0..n
    OBVIOUS
  <2> QED BY <2>8, <2>9
<1>3. n \in P
  <2> HIDE DEF P
  <2>1. 0..n \subseteq P
    BY <1>1, <1>2, UpTo
  <2> QED BY <2>1
<1> QED BY <1>3

-----------------------------------------------------------------------------
(* Sums *)

\* PureCalls!Sums, as an equation.
Adds(v, sum) == sum = [k \in 0..Len(v) |-> IF k = 0 THEN 0 ELSE sum[k - 1] + v[k]]

LEMMA SumsAre ==
  ASSUME NEW v \in Seq(Int)
  PROVE  /\ Sums(v) \in [0..Len(v) -> Int] /\ Sums(v)[0] = 0
         /\ \A k \in 1..Len(v) : Sums(v)[k] = Sums(v)[k - 1] + v[k]
<1>1. PICK n \in Nat : n = Len(v)
  OBVIOUS
<1>2. \A k \in 1..n : v[k] \in Int
  BY <1>1
<1> DEFINE step == [k \in 1..n |-> [x \in Int |-> x + v[k]]]
<1>3. \A k \in 1..n, x \in Int : step[k][x] = x + v[k]
  OBVIOUS
<1>4. step \in [1..n -> [Int -> Int]]
  BY <1>2
<1> HIDE DEF step
<1>5. PICK out : Grows(n, Int, 0, step, out)
  <2> DEFINE T == Int
  <2>1. 0 \in T /\ step \in [1..n -> [T -> T]]
    BY <1>4
  <2> HIDE DEF T
  <2>2. \E out : Grows(n, T, 0, step, out)
    BY <2>1, StepByStep
  <2> QED BY <2>2 DEF T
<1>6. /\ out \in [0..n -> Int] /\ out[0] = 0
      /\ \A k \in 1..n : k - 1 \in 0..n /\ out[k - 1] \in Int /\ out[k] = step[k][out[k - 1]]
  BY <1>5 DEF Grows
<1>7. \A k \in 1..n : out[k] = out[k - 1] + v[k]
  BY <1>3, <1>6
<1>8. Adds(v, out)
  BY <1>1, <1>6, <1>7 DEF Adds
<1>9. Sums(v) = CHOOSE sum : Adds(v, sum)
  BY DEF Sums, Adds
<1>10. Adds(v, Sums(v))
  BY <1>8, <1>9
<1>11. \A k \in 0..n : Sums(v)[k] = IF k = 0 THEN 0 ELSE Sums(v)[k - 1] + v[k]
  BY <1>1, <1>10 DEF Adds
<1>12. \A k \in 0..n : Sums(v)[k] = out[k]
  <2> DEFINE P == {k \in 0..n : Sums(v)[k] = out[k]}
  <2>1. 0 \in P
    BY <1>6, <1>11
  <2>2. ASSUME NEW k \in 1..n, k - 1 \in P PROVE k \in P
    BY <1>7, <1>11, <2>2
  <2> HIDE DEF P
  <2>3. 0..n \subseteq P
    BY <2>1, <2>2, UpTo
  <2> QED BY <2>3 DEF P
<1>13. Sums(v) \in [0..n -> Int]
  BY <1>1, <1>6, <1>10, <1>12 DEF Adds
<1> QED BY <1>1, <1>6, <1>7, <1>11, <1>12, <1>13

LEMMA SumType ==
  ASSUME NEW v \in Seq(Int)
  PROVE  Sum(v) \in Int
BY SumsAre DEF Sum

LEMMA SeqItem ==
  ASSUME NEW T, NEW v \in Seq(T), NEW i \in 1..Len(v)
  PROVE  v[i] \in T
OBVIOUS

\* What starts at zero and grows by the items of a sequence is its sum.
LEMMA SumsUnique ==
  ASSUME NEW v \in Seq(Int), NEW f, f[0] = 0, \A k \in 1..Len(v) : f[k] = f[k - 1] + v[k]
  PROVE  \A k \in 0..Len(v) : Sums(v)[k] = f[k]
<1> DEFINE P == {k \in 0..Len(v) : Sums(v)[k] = f[k]}
<1>1. 0 \in P
  BY SumsAre
<1>2. ASSUME NEW k \in 1..Len(v), k - 1 \in P PROVE k \in P
  BY <1>2, SumsAre
<1>3. Len(v) \in Nat
  OBVIOUS
<1> HIDE DEF P
<1>4. 0..Len(v) \subseteq P
  BY <1>1, <1>2, <1>3, UpTo
<1> QED BY <1>4 DEF P

\* Sums of as many items, each a times the one and b times the other.
Combines(u, v, w, a, b) ==
  /\ u \in Seq(Int) /\ v \in Seq(Int) /\ w \in Seq(Int) /\ Len(u) = Len(w) /\ Len(v) = Len(w) /\ a \in Int /\ b \in Int
  /\ \A k \in 1..Len(w) : w[k] = a * u[k] + b * v[k]

\* Sums of as many items are added and multiplied item by item.
LEMMA SumsLinear ==
  ASSUME NEW u, NEW v, NEW w, NEW a, NEW b, Combines(u, v, w, a, b)
  PROVE  /\ \A k \in 0..Len(w) : Sums(w)[k] = a * Sums(u)[k] + b * Sums(v)[k]
         /\ Sum(w) = a * Sum(u) + b * Sum(v)
<1>a. u \in Seq(Int) /\ v \in Seq(Int) /\ w \in Seq(Int) /\ Len(u) = Len(w) /\ Len(v) = Len(w) /\ a \in Int /\ b \in Int
  BY Zenon DEF Combines
<1>b. \A k \in 1..Len(w) : w[k] = a * u[k] + b * v[k]
  BY Zenon DEF Combines
<1> DEFINE f == [k \in 0..Len(w) |-> a * Sums(u)[k] + b * Sums(v)[k]]
<1>1. /\ Sums(u)[0] = 0 /\ \A k \in 1..Len(w) : Sums(u)[k] = Sums(u)[k - 1] + u[k]
      /\ Sums(v)[0] = 0 /\ \A k \in 1..Len(w) : Sums(v)[k] = Sums(v)[k - 1] + v[k]
  BY <1>a, SumsAre
<1>2. \A k \in 0..Len(w) : Sums(u)[k] \in Int /\ Sums(v)[k] \in Int
  BY <1>a, SumsAre
<1>3. f[0] = 0
  BY <1>a, <1>1
<1>4. ASSUME NEW k \in 1..Len(w) PROVE f[k] = f[k - 1] + w[k]
  <2>1. k \in 0..Len(w) /\ k - 1 \in 0..Len(w) /\ u[k] \in Int /\ v[k] \in Int
    BY <1>a
  <2>2. PICK x \in Int : x = Sums(u)[k - 1]
    BY <1>2, <2>1
  <2>3. PICK y \in Int : y = Sums(v)[k - 1]
    BY <1>2, <2>1
  <2>4. f[k] = a * (x + u[k]) + b * (y + v[k]) /\ f[k - 1] = a * x + b * y
    BY <1>a, <1>1, <2>1, <2>2, <2>3
  <2> HIDE DEF f
  <2>5. PICK p \in Int, q \in Int : p = u[k] /\ q = v[k]
    BY <2>1
  <2>6. a * (x + p) + b * (y + q) = (a * x + b * y) + (a * p + b * q)
    BY <1>a
  <2>7. w[k] = a * p + b * q /\ f[k] = a * (x + p) + b * (y + q)
    BY <1>b, <2>4, <2>5
  <2> QED BY <2>4, <2>6, <2>7
<1> HIDE DEF f
<1>5. \A k \in 0..Len(w) : Sums(w)[k] = f[k]
  BY <1>a, <1>3, <1>4, SumsUnique
<1>6. Len(w) \in 0..Len(w)
  BY <1>a
<1>7. \A k \in 0..Len(w) : Sums(w)[k] = a * Sums(u)[k] + b * Sums(v)[k]
  BY <1>5 DEF f
<1> QED BY <1>a, <1>6, <1>7, Zenon DEF Sum

\* Sums over the same first items are the same.
LEMMA SumsAgree ==
  ASSUME NEW u \in Seq(Int), NEW v \in Seq(Int), Len(u) <= Len(v), \A k \in 1..Len(u) : u[k] = v[k]
  PROVE  \A k \in 0..Len(u) : Sums(u)[k] = Sums(v)[k]
<1>1. /\ Sums(v)[0] = 0 /\ \A k \in 1..Len(u) : Sums(v)[k] = Sums(v)[k - 1] + u[k]
  BY SumsAre
<1> QED BY <1>1, SumsUnique

\* The sums of what comes after the first m items.
LEMMA SumsAfter ==
  ASSUME NEW v \in Seq(Int), NEW m \in 0..Len(v), NEW w \in Seq(Int), Len(w) <= Len(v) - m,
         \A k \in 1..Len(w) : w[k] = v[m + k]
  PROVE  \A k \in 0..Len(w) : Sums(w)[k] = Sums(v)[m + k] - Sums(v)[m]
<1> DEFINE f == [k \in 0..Len(w) |-> Sums(v)[m + k] - Sums(v)[m]]
<1>1. \A k \in 0..Len(v) : Sums(v)[k] \in Int
  BY SumsAre
<1>2. f[0] = 0
  BY <1>1
<1>3. ASSUME NEW k \in 1..Len(w) PROVE f[k] = f[k - 1] + w[k]
  <2>1. m + k \in 1..Len(v) /\ k \in 0..Len(w) /\ k - 1 \in 0..Len(w) /\ (m + k) - 1 = m + (k - 1) /\ m + k - 1 \in 0..Len(v)
    OBVIOUS
  <2>2. Sums(v)[m + k] = Sums(v)[m + (k - 1)] + v[m + k]
    BY <2>1, SumsAre
  <2>3. PICK x \in Int : x = v[m + k]
    BY <2>1
  <2>4. PICK y \in Int, z \in Int : y = Sums(v)[m + (k - 1)] /\ z = Sums(v)[m]
    <3>1. m \in 0..Len(v) /\ m + (k - 1) \in 0..Len(v)
      BY <2>1
    <3> QED BY <1>1, <3>1
  <2>5. f[k] = (y + x) - z /\ f[k - 1] = y - z /\ w[k] = x
    BY <2>1, <2>2, <2>3, <2>4
  <2>6. (y + x) - z = (y - z) + x
    OBVIOUS
  <2> HIDE DEF f
  <2> QED BY <2>5, <2>6, Zenon
<1> HIDE DEF f
<1>4. \A k \in 0..Len(w) : Sums(w)[k] = f[k]
  BY <1>2, <1>3, SumsUnique
<1> QED BY <1>4 DEF f

\* Larger items have larger sums, and none of their differences adds up to less than another.
LEMMA SumsMonotone ==
  ASSUME NEW u \in Seq(Int), NEW v \in Seq(Int), Len(u) = Len(v), \A k \in 1..Len(v) : u[k] <= v[k]
  PROVE  \A k \in 0..Len(v) : Sums(u)[k] <= Sums(v)[k]
<1> DEFINE P == {k \in 0..Len(v) : Sums(u)[k] <= Sums(v)[k]}
<1>1. 0 \in P
  BY SumsAre
<1>2. ASSUME NEW k \in 1..Len(v), k - 1 \in P PROVE k \in P
  <2>1. u[k] \in Int /\ v[k] \in Int /\ u[k] <= v[k] /\ k - 1 \in 0..Len(v)
    OBVIOUS
  <2>2. /\ Sums(u)[k] = Sums(u)[k - 1] + u[k] /\ Sums(v)[k] = Sums(v)[k - 1] + v[k]
        /\ Sums(u)[k - 1] \in Int /\ Sums(v)[k - 1] \in Int
    BY <2>1, SumsAre
  <2>3. Sums(u)[k - 1] <= Sums(v)[k - 1] /\ k \in 0..Len(v)
    BY <1>2
  <2>4. PICK x \in Int, y \in Int : x = Sums(u)[k - 1] /\ y = Sums(v)[k - 1]
    BY <2>2
  <2>5. PICK p \in Int, q \in Int : p = u[k] /\ q = v[k]
    BY <2>1
  <2>6. x + p <= y + q
    <3>1. x <= y /\ p <= q
      BY <2>1, <2>3, <2>4, <2>5, Zenon
    <3> QED BY <3>1
  <2>7. Sums(u)[k] <= Sums(v)[k]
    BY <2>2, <2>4, <2>5, <2>6, Zenon
  <2> QED BY <2>3, <2>7, Zenon
<1>3. Len(v) \in Nat
  OBVIOUS
<1> HIDE DEF P
<1>4. 0..Len(v) \subseteq P
  BY <1>1, <1>2, <1>3, UpTo
<1> QED BY <1>4 DEF P

LEMMA SumsConstant ==
  ASSUME NEW v \in Seq(Int), NEW c \in Int, \A k \in 1..Len(v) : v[k] = c
  PROVE  \A k \in 0..Len(v) : Sums(v)[k] = k * c
<1> DEFINE f == [k \in 0..Len(v) |-> k * c]
<1>1. f[0] = 0
  OBVIOUS
<1>2. ASSUME NEW k \in 1..Len(v) PROVE f[k] = f[k - 1] + v[k]
  <2>1. f[k] = k * c /\ f[k - 1] = (k - 1) * c
    OBVIOUS
  <2> HIDE DEF f
  <2> QED BY <2>1
<1> HIDE DEF f
<1>3. \A k \in 0..Len(v) : Sums(v)[k] = f[k]
  BY <1>1, <1>2, SumsUnique
<1> QED BY <1>3 DEF f

\* Sums of what is not negative grow.
LEMMA SumsGrow ==
  ASSUME NEW v \in Seq(Nat)
  PROVE  \A j, k \in 0..Len(v) : j <= k => Sums(v)[j] <= Sums(v)[k]
<1> SUFFICES ASSUME NEW j \in 0..Len(v) PROVE \A k \in 0..Len(v) : j <= k => Sums(v)[j] <= Sums(v)[k]
  OBVIOUS
<1>0. v \in Seq(Int)
  OBVIOUS
<1> DEFINE P == {k \in 0..Len(v) : j <= k => Sums(v)[j] <= Sums(v)[k]}
<1>1. 0 \in P
  BY <1>0, SumsAre
<1>2. ASSUME NEW k \in 1..Len(v), k - 1 \in P PROVE k \in P
  <2>1. v[k] \in Nat /\ k - 1 \in 0..Len(v) /\ k \in 0..Len(v)
    OBVIOUS
  <2>2. Sums(v)[k] = Sums(v)[k - 1] + v[k] /\ Sums(v)[k - 1] \in Int /\ Sums(v)[j] \in Int
    BY <1>0, <2>1, SumsAre
  <2>3. j <= k - 1 => Sums(v)[j] <= Sums(v)[k - 1]
    BY <1>2
  <2>4. PICK x \in Int, y \in Int, p \in Nat : x = Sums(v)[j] /\ y = Sums(v)[k - 1] /\ p = v[k]
    BY <2>1, <2>2
  <2>5. Sums(v)[k] = y + p
    BY <2>2, <2>4, Zenon
  <2>6. j <= k - 1 \/ j = k \/ k < j
    BY <2>1
  <2>7. ASSUME j <= k - 1 PROVE Sums(v)[j] <= Sums(v)[k]
    <3>1. x <= y
      BY <2>3, <2>4, <2>7
    <3>2. x <= y + p
      BY <3>1
    <3> QED BY <2>4, <2>5, <3>2, Zenon
  <2>8. ASSUME j = k PROVE Sums(v)[j] <= Sums(v)[k]
    BY <2>4, <2>8
  <2> QED BY <2>1, <2>6, <2>7, <2>8
<1>3. Len(v) \in Nat
  OBVIOUS
<1> HIDE DEF P
<1>4. 0..Len(v) \subseteq P
  BY <1>1, <1>2, <1>3, UpTo
<1> QED BY <1>4 DEF P

\* An item is at most the sum of what is not negative.
LEMMA ItemAtMostSum ==
  ASSUME NEW v \in Seq(Nat), NEW k \in 1..Len(v)
  PROVE  v[k] <= Sum(v) /\ Sum(v) \in Nat
<1>0. v \in Seq(Int)
  OBVIOUS
<1>1. /\ Sums(v)[k] = Sums(v)[k - 1] + v[k] /\ Sums(v)[0] = 0
      /\ \A j \in 0..Len(v) : Sums(v)[j] \in Int
  BY <1>0, SumsAre
<1>2. k \in 0..Len(v) /\ k - 1 \in 0..Len(v) /\ 0 \in 0..Len(v) /\ Len(v) \in 0..Len(v) /\ v[k] \in Nat
  OBVIOUS
<1>3. Sums(v)[0] <= Sums(v)[k - 1] /\ Sums(v)[k] <= Sums(v)[Len(v)]
  BY <1>2, SumsGrow
<1>4. PICK a \in Int, b \in Int, c \in Int : a = Sums(v)[k - 1] /\ b = Sums(v)[k] /\ c = Sum(v)
  BY <1>1, <1>2 DEF Sum
<1>5. b = a + v[k] /\ 0 <= a /\ b <= c
  BY <1>1, <1>3, <1>4 DEF Sum
<1>6. PICK d \in Nat : d = v[k]
  BY <1>2, Zenon
<1>7. b = a + d
  BY <1>5, <1>6, Zenon
<1>8. d <= c /\ c \in Nat
  BY <1>5, <1>7
<1> QED BY <1>4, <1>6, <1>8, Zenon

\* Adding up from the last item.
LEMMA SumsBackwards ==
  ASSUME NEW v \in Seq(Int), NEW w \in Seq(Int), Len(w) = Len(v), \A k \in 1..Len(v) : w[k] = v[Len(v) + 1 - k]
  PROVE  Sum(w) = Sum(v)
<1>0. PICK n \in Nat : n = Len(v)
  OBVIOUS
<1> DEFINE f == [k \in 0..n |-> Sums(v)[n] - Sums(v)[n - k]]
<1>1. \A k \in 0..n : Sums(v)[k] \in Int
  BY <1>0, SumsAre
<1>2. f[0] = 0
  BY <1>1
<1>3. ASSUME NEW k \in 1..n PROVE f[k] = f[k - 1] + w[k]
  <2>1. /\ n + 1 - k \in 1..n /\ n - k \in 0..n /\ n - (k - 1) = n + 1 - k /\ (n + 1 - k) - 1 = n - k
        /\ k - 1 \in 0..n /\ k \in 0..n /\ n \in 0..n /\ n + 1 - k \in 0..n
    OBVIOUS
  <2>2. Sums(v)[n + 1 - k] = Sums(v)[n - k] + v[n + 1 - k]
    BY <1>0, <2>1, SumsAre
  <2>3. w[k] = v[n + 1 - k] /\ v[n + 1 - k] \in Int
    BY <1>0, <2>1
  <2>4. PICK x \in Int, y \in Int, z \in Int : x = v[n + 1 - k] /\ y = Sums(v)[n - k] /\ z = Sums(v)[n]
    BY <1>1, <2>1, <2>3
  <2>5. f[k] = z - y /\ f[k - 1] = z - (y + x) /\ w[k] = x
    BY <2>1, <2>2, <2>3, <2>4
  <2>6. z - y = (z - (y + x)) + x
    OBVIOUS
  <2> HIDE DEF f
  <2> QED BY <2>5, <2>6, Zenon
<1> HIDE DEF f
<1>4. \A k \in 0..n : Sums(w)[k] = f[k]
  <2>1. \A k \in 1..Len(w) : f[k] = f[k - 1] + w[k]
    BY <1>0, <1>3
  <2>2. \A k \in 0..Len(w) : Sums(w)[k] = f[k]
    BY <1>2, <2>1, SumsUnique
  <2> QED BY <1>0, <2>2
<1>5. Sums(w)[n] = Sums(v)[n] - Sums(v)[n - n]
  BY <1>4 DEF f
<1>6. Sums(v)[0] = 0 /\ n - n = 0
  BY SumsAre
<1> QED BY <1>0, <1>1, <1>5, <1>6 DEF Sum

LEMMA SumNat ==
  ASSUME NEW v \in Seq(Nat)
  PROVE  Sum(v) \in Nat
<1>1. v \in Seq(Int) /\ 0 \in 0..Len(v) /\ Len(v) \in 0..Len(v)
  OBVIOUS
<1>2. Sums(v)[0] = 0 /\ Sums(v)[Len(v)] \in Int
  BY <1>1, SumsAre
<1>3. Sums(v)[0] <= Sums(v)[Len(v)]
  BY <1>1, SumsGrow
<1> QED BY <1>2, <1>3 DEF Sum


-----------------------------------------------------------------------------
(* The calls there are, by what they return *)

Quoted(c) ==
  \E plan \in Plans, usage \in Usages, coupon \in Coupons \cup {NoCoupon}, p \in Prorations, rate \in TaxRates :
    \E q \in Quotes(plan, usage, coupon, p, rate) :
      c = [fn |-> "quote", plan |-> plan, usage |-> usage, coupon |-> coupon, p |-> p, rate |-> rate, quote |-> q]

Qualified(c) ==
  \E tiers \in TierLists, revenue \in Revenues :
    c = [fn |-> "qualifyingTier", tiers |-> tiers, revenue |-> revenue, tier |-> QualifyingTier(tiers, revenue)]

Attributed(c) ==
  \E hash \in Hashes, candidates \in Candidates :
    c = [fn |-> "attribute", hash |-> hash, candidates |-> candidates, partner |-> Attribute(hash, candidates)]

Stated(c) ==
  \E tiers \in {t \in TierLists : \A p \in DOMAIN PartnerTiers : PartnerTiers[p] \in DOMAIN t}, referrals \in Referrals :
    \E statement \in [DOMAIN PartnerTiers -> UNION {Statements(tiers, p, referrals) : p \in DOMAIN PartnerTiers}] :
      /\ \A p \in DOMAIN PartnerTiers : statement[p] \in Statements(tiers, p, referrals)
      /\ c = [fn |-> "statement", tiers |-> tiers, referrals |-> referrals, statement |-> statement]

Resolved(c) ==
  \E one, other \in Bundles, code \in Asked :
    c = [fn |-> "resolve", bundles |-> {one, other}, code |-> code,
         granted |-> Resolve({one, other}, code), available |-> Available({one, other}, code)]

Judged(c) ==
  \E control, one, other \in Counters :
    c = [fn |-> "getResults", variants |-> <<control, one, other>>, result |-> Result(<<control, one, other>>)]

Checked(c) ==
  \E matches \in TextMatches, music, repeats \in BOOLEAN, thresholds \in Thresholds :
    LET text == [matches |-> matches, music |-> music, repeats |-> repeats]
    IN  c = [fn |-> "check", text |-> text, thresholds |-> thresholds,
             asText |-> CheckText(text, thresholds), asLyrics |-> CheckLyrics(text, thresholds)]

Forecast(c) ==
  \E v \in Series : Len(v) >= 2 /\ c = [fn |-> "forecast", v |-> v, predictions |-> Predictions(v)]

Directed(c) == \E v \in Series : c = [fn |-> "detectTrend", v |-> v, direction |-> Direction(v)]

Seasoned(c) == \E v \in Series : c = [fn |-> "detectSeasonality", v |-> v, periods |-> Periods(v)]

Sifted(c) ==
  \E v \in Series, s \in Sensitivities : c = [fn |-> "detectAnomalies", v |-> v, s |-> s, anomalies |-> Anomalies(v, s)]

Compared(c) == \E a, b \in Strings : c = [fn |-> "editDistance", a |-> a, b |-> b, distance |-> Distance(a, b)]

Matched(c) ==
  \E catalog \in Entries, q \in Wanted :
    c = [fn |-> "fuzzyMatch", title |-> q.title, artist |-> q.artist, catalog |-> catalog,
         match |-> FuzzyMatch(q.title, q.artist, catalog)]

Ingested(c) ==
  \E n \in 0..MaxBatch : \E records \in [1..n -> Records] :
    c = [fn |-> "ingest", records |-> records, result |-> Ingest(records), tracks |-> Deduplicate(Ingest(records).processed)]

\* The result of one of the calls, or none yet.
Answered(c) ==
  \/ c = NoCall
  \/ Quoted(c) \/ Qualified(c) \/ Attributed(c) \/ Stated(c) \/ Resolved(c) \/ Judged(c) \/ Checked(c)
  \/ Forecast(c) \/ Directed(c) \/ Seasoned(c) \/ Sifted(c) \/ Compared(c) \/ Matched(c) \/ Ingested(c)

LEMMA AnswersByName ==
  ASSUME NEW c, Answered(c)
  PROVE  /\ c.fn = "quote" => Quoted(c)
         /\ c.fn = "qualifyingTier" => Qualified(c)
         /\ c.fn = "attribute" => Attributed(c)
         /\ c.fn = "statement" => Stated(c)
         /\ c.fn = "resolve" => Resolved(c)
         /\ c.fn = "getResults" => Judged(c)
         /\ c.fn = "check" => Checked(c)
         /\ c.fn = "forecast" => Forecast(c)
         /\ c.fn = "detectTrend" => Directed(c)
         /\ c.fn = "detectSeasonality" => Seasoned(c)
         /\ c.fn = "detectAnomalies" => Sifted(c)
         /\ c.fn = "editDistance" => Compared(c)
         /\ c.fn = "fuzzyMatch" => Matched(c)
         /\ c.fn = "ingest" => Ingested(c)
<1>1. c = NoCall => c.fn = "none"
  BY DEF NoCall
<1>2. Quoted(c) => c.fn = "quote"
  BY DEF Quoted
<1>3. Qualified(c) => c.fn = "qualifyingTier"
  BY DEF Qualified
<1>4. Attributed(c) => c.fn = "attribute"
  BY DEF Attributed
<1>5. Stated(c) => c.fn = "statement"
  BY DEF Stated
<1>6. Resolved(c) => c.fn = "resolve"
  BY DEF Resolved
<1>7. Judged(c) => c.fn = "getResults"
  BY DEF Judged
<1>8. Checked(c) => c.fn = "check"
  BY DEF Checked
<1>9. Forecast(c) => c.fn = "forecast"
  BY DEF Forecast
<1>10. Directed(c) => c.fn = "detectTrend"
  BY DEF Directed
<1>11. Seasoned(c) => c.fn = "detectSeasonality"
  BY DEF Seasoned
<1>12. Sifted(c) => c.fn = "detectAnomalies"
  BY DEF Sifted
<1>13. Compared(c) => c.fn = "editDistance"
  BY DEF Compared
<1>14. Matched(c) => c.fn = "fuzzyMatch"
  BY DEF Matched
<1>15. Ingested(c) => c.fn = "ingest"
  BY DEF Ingested
<1> QED BY <1>1, <1>2, <1>3, <1>4, <1>5, <1>6, <1>7, <1>8, <1>9, <1>10, <1>11, <1>12, <1>13, <1>14, <1>15 DEF Answered

LEMMA CallsAreAnswered ==
  ASSUME Answered(call), [DataNext]_allVars
  PROVE  Answered(call)'
<1>1. CASE Quote
  BY <1>1 DEF Quote, Quoted, Answered
<1>2. CASE PartnerCall
  <2>1. CASE \E tiers \in TierLists, revenue \in Revenues :
               call' = [fn |-> "qualifyingTier", tiers |-> tiers, revenue |-> revenue, tier |-> QualifyingTier(tiers, revenue)]
    BY <2>1 DEF Qualified, Answered
  <2>2. CASE \E hash \in Hashes, candidates \in Candidates :
               call' = [fn |-> "attribute", hash |-> hash, candidates |-> candidates, partner |-> Attribute(hash, candidates)]
    BY <2>2 DEF Attributed, Answered
  <2>3. CASE Stated(call)'
    BY <2>3 DEF Answered
  <2> QED BY <1>2, <2>1, <2>2, <2>3 DEF PartnerCall, Stated
<1>3. CASE RightsCall
  BY <1>3 DEF RightsCall, Resolved, Answered
<1>4. CASE GetResults
  BY <1>4 DEF GetResults, Judged, Answered
<1>5. CASE CheckCall
  BY <1>5 DEF CheckCall, Checked, Answered
<1>6. CASE ForecastCall
  <2>1. Forecast(call)' \/ Directed(call)' \/ Seasoned(call)' \/ Sifted(call)'
    BY <1>6 DEF ForecastCall, Forecast, Directed, Seasoned, Sifted
  <2> QED BY <2>1 DEF Answered
<1>7. CASE CatalogCall
  <2>1. Compared(call)' \/ Matched(call)' \/ Ingested(call)'
    BY <1>7 DEF CatalogCall, Compared, Matched, Ingested
  <2> QED BY <2>1 DEF Answered
<1>8. CASE UNCHANGED call
  BY <1>8, Zenon
<1> QED BY <1>1, <1>2, <1>3, <1>4, <1>5, <1>6, <1>7, <1>8 DEF DataNext, Of, allVars

LEMMA Answers == DataSpec => []Answered(call)
<1>1. DataInit => Answered(call)
  BY DEF DataInit, CallInit, Answered
<1>2. Answered(call) /\ [DataNext]_allVars => Answered(call)'
  BY CallsAreAnswered
<1> QED BY <1>1, <1>2, PTL DEF DataSpec

-----------------------------------------------------------------------------
(* Arithmetic *)

LEMMA MulLess ==
  ASSUME NEW a \in Int, NEW b \in Int, NEW c \in Nat, c # 0, a < b
  PROVE  c * a < c * b
<1>1. b - a \in Nat /\ b - a # 0
  OBVIOUS
<1>2. PICK d \in Nat : d = b - a /\ d # 0
  BY <1>1
<1>3. c * d >= 1
  BY <1>2
<1>4. c * b = c * a + c * d
  <2>1. b = a + d
    BY <1>2
  <2> QED BY <2>1
<1>5. PICK x \in Int, y \in Int : x = c * a /\ y = c * d
  BY <1>2
<1> QED BY <1>3, <1>4, <1>5

LEMMA MulLeq ==
  ASSUME NEW a \in Int, NEW b \in Int, NEW c \in Nat, a <= b
  PROVE  c * a <= c * b
<1>1. CASE c = 0
  BY <1>1
<1>2. CASE a = b
  BY <1>2
<1>3. CASE c # 0 /\ a < b
  BY <1>3, MulLess
<1> QED BY <1>1, <1>2, <1>3

LEMMA DivIs ==
  ASSUME NEW n \in Int, NEW d \in Nat, d # 0
  PROVE  n \div d \in Int /\ d * (n \div d) <= n /\ n < d * (n \div d) + d
OBVIOUS

LEMMA ProductType ==
  ASSUME NEW m \in Nat, NEW n \in Nat
  PROVE  m * n \in Nat
OBVIOUS
-----------------------------------------------------------------------------
(* Verdicts on experiments *)

Counter == [seen : Nat, converted : Nat]

LEMMA ScaledRates ==
  ASSUME NEW a \in Counter, NEW b \in Counter
  PROVE  /\ Larger(a) \in Counter /\ Larger(b) \in Counter
         /\ Beats(Larger(a), Larger(b)) <=> Beats(a, b)
         /\ Uplifts(Larger(a), Larger(b)) <=> Uplifts(a, b)
<1>1. PICK s \in Nat : s = Scale /\ s # 0
  BY CountersAssumption
<1>2. PICK m \in Nat, n \in Nat, x \in Nat, y \in Nat :
        m = a.seen /\ n = b.seen /\ x = a.converted /\ y = b.converted
  BY DEF Counter
<1>3. /\ Larger(a) = [seen |-> s * m, converted |-> s * x]
      /\ Larger(b) = [seen |-> s * n, converted |-> s * y]
  BY <1>1, <1>2 DEF Larger
<1>4. \A k \in Nat : s * k \in Nat /\ (s * k = 0 <=> k = 0) /\ (s * k > 0 <=> k > 0)
  BY <1>1
<1>9. /\ a.seen = m /\ b.seen = n /\ a.converted = x /\ b.converted = y
      /\ Larger(a).seen = s * m /\ Larger(b).seen = s * n
      /\ Larger(a).converted = s * x /\ Larger(b).converted = s * y
  BY <1>2, <1>3
<1>10. /\ s * m \in Nat /\ s * n \in Nat /\ s * y \in Nat /\ s * x \in Nat
       /\ (s * m = 0 <=> m = 0) /\ (s * n = 0 <=> n = 0)
       /\ (s * m > 0 <=> m > 0) /\ (s * n > 0 <=> n > 0) /\ (s * x > 0 <=> x > 0) /\ (s * y > 0 <=> y > 0)
  BY <1>4
<1>5. Larger(a) \in Counter /\ Larger(b) \in Counter
  BY <1>3, <1>4 DEF Counter
<1>6. (s * x) * (s * n) > (s * y) * (s * m) <=> x * n > y * m
  <2>1. PICK p \in Nat, q \in Nat, t \in Nat : p = x * n /\ q = y * m /\ t = s * s /\ t # 0
    BY <1>1
  <2>2. (s * x) * (s * n) = t * p /\ (s * y) * (s * m) = t * q
    BY <2>1
  <2>3. CASE q < p
    BY <2>1, <2>2, <2>3, MulLess
  <2>4. CASE p <= q
    <3>1. t * p <= t * q
      BY <2>1, <2>4, MulLeq
    <3>2. PICK u \in Int, v \in Int : u = t * p /\ v = t * q
      BY <2>1
    <3> QED BY <2>1, <2>2, <2>4, <3>1, <3>2
  <2> QED BY <2>1, <2>3, <2>4
<1>7. Beats(Larger(a), Larger(b)) <=> Beats(a, b)
  <2>1. CASE m = 0
    BY <1>9, <1>10, <2>1 DEF Beats
  <2>2. CASE m # 0 /\ n = 0
    BY <1>9, <1>10, <2>2, Zenon DEF Beats
  <2>3. CASE m # 0 /\ n # 0
    <3>1. Beats(a, b) <=> x * n > y * m
      BY <1>2, <2>3 DEF Beats
    <3>2. Beats(Larger(a), Larger(b)) <=> (s * x) * (s * n) > (s * y) * (s * m)
      BY <1>3, <1>4, <2>3 DEF Beats
    <3> QED BY <1>6, <3>1, <3>2
  <2> QED BY <2>1, <2>2, <2>3
<1>8. Uplifts(Larger(a), Larger(b)) <=> Uplifts(a, b)
  BY <1>9, <1>10, <1>7, Zenon DEF Uplifts
<1> QED BY <1>5, <1>7, <1>8

\* PValue, by what its quantities are.
LEMMA PValueSmall ==
  ASSUME NEW a, NEW b, NEW D, NEW N, NEW C, NEW R,
         D = a.converted * b.seen - b.converted * a.seen, N = a.seen + b.seen,
         C = a.converted + b.converted, R = N - C,
         a.seen # 0, b.seen # 0, C # 0, C # N, ~(C > N), D * D * N > (2401 * a.seen * b.seen * C * R) \div 625
  PROVE  PValue(a, b) = "small"
<1> DEFINE d == a.converted * b.seen - b.converted * a.seen
           n == a.seen + b.seen
           c == a.converted + b.converted
<1>1. D = d /\ N = n /\ C = c /\ R = n - c
  OBVIOUS
<1>2. PValue(a, b) = IF a.seen = 0 \/ b.seen = 0 \/ c \in {0, n} THEN "large"
                     ELSE IF c > n THEN "NaN"
                     ELSE IF d * d * n > (2401 * a.seen * b.seen * c * (n - c)) \div 625 THEN "small" ELSE "large"
  BY DEF PValue
<1> HIDE DEF d, n, c
<1>3. PValue(a, b) = IF a.seen = 0 \/ b.seen = 0 \/ C \in {0, N} THEN "large"
                     ELSE IF C > N THEN "NaN"
                     ELSE IF D * D * N > (2401 * a.seen * b.seen * C * R) \div 625 THEN "small" ELSE "large"
  BY <1>1, <1>2
<1> QED BY <1>3

\* z^2 is so many times as large as there is more traffic.
LEMMA ScaledValue ==
  ASSUME NEW a \in Counter, NEW b \in Counter, Plausible(a), Plausible(b)
  PROVE  /\ PValue(a, b) # "NaN"
         /\ PValue(a, b) = "small" => PValue(Larger(a), Larger(b)) = "small"
<1>1. PICK s \in Nat : s = Scale /\ s # 0
  BY CountersAssumption
<1>2. PICK m \in Nat, n \in Nat, x \in Nat, y \in Nat :
        m = a.seen /\ n = b.seen /\ x = a.converted /\ y = b.converted
  BY DEF Counter
<1>3. x <= m /\ y <= n
  BY <1>2 DEF Plausible
<1>4. PValue(a, b) # "NaN"
  BY <1>2, <1>3 DEF PValue
<1>5. ASSUME PValue(a, b) = "small" PROVE PValue(Larger(a), Larger(b)) = "small"
  <2>1. PICK D \in Int, N \in Nat, C \in Nat, R \in Nat : D = x * n - y * m /\ N = m + n /\ C = x + y /\ R = N - C
    BY <1>3
  <2>2. PICK X \in Nat : X = 2401 * m * n * C * R
    <3>1. 2401 * m * n * C * R \in Nat
      BY <2>1
    <3> QED BY <3>1
  <2>3. /\ m # 0 /\ n # 0 /\ C # 0 /\ C # N
        /\ D * D * N > X \div 625
    BY <1>2, <1>5, <2>1, <2>2 DEF PValue
  <2>4. PICK Y \in Nat : Y = D * D * N
    <3>1. D * D \in Nat
      BY <2>1
    <3> QED BY <2>1, <3>1
  <2>5. 625 * Y > X
    BY <2>2, <2>3, <2>4
  <2>6. PICK t \in Nat, f \in Nat : t = s * s /\ f = t * t /\ t # 0 /\ f # 0
    BY <1>1
  <2>7. (f * X) \div 625 < (f * s) * Y
    <3>1. f * X < f * (625 * Y)
      BY <2>5, <2>6, <2>4, <2>2, MulLess
    <3>2. PICK g \in Nat, h \in Nat : g = f * Y /\ h = f * X
      BY <2>4, <2>6, <2>2
    <3>3. f * (625 * Y) = 625 * g
      BY <3>2
    <3>4. h < 625 * g
      BY <3>1, <3>2, <3>3
    <3>5. h \div 625 < g
      BY <3>2, <3>4
    <3>6. g <= s * g
      BY <1>1, <3>2
    <3>7. (f * s) * Y = s * g
      BY <3>2
    <3>8. PICK k \in Int : k = s * g
      BY <1>1, <3>2
    <3> QED BY <3>2, <3>5, <3>6, <3>7, <3>8
  <2>8. PICK sm \in Nat, sn \in Nat, sx \in Nat, sy \in Nat : sm = s * m /\ sn = s * n /\ sx = s * x /\ sy = s * y
    BY <1>1
  <2>9. /\ Larger(a) = [seen |-> sm, converted |-> sx]
        /\ Larger(b) = [seen |-> sn, converted |-> sy]
    BY <1>1, <1>2, <2>8 DEF Larger
  <2>10. sx * sn - sy * sm = t * D
    BY <2>1, <2>6, <2>8
  <2>11. sm + sn = s * N /\ sx + sy = s * C /\ s * N - s * C = s * R
    BY <2>1, <2>8
  <2>12. PICK E \in Int, M \in Nat, B \in Nat, Q \in Nat : E = t * D /\ M = s * N /\ B = s * C /\ Q = s * R
    BY <1>1, <2>1, <2>6
  <2>13. B # 0 /\ B # M /\ B <= M /\ sm # 0 /\ sn # 0
    <3>1. C < N
      BY <2>1, <2>3
    <3>2. s * C < s * N
      BY <1>1, <2>1, <3>1, MulLess
    <3> QED BY <1>1, <2>1, <2>3, <2>8, <2>12, <3>2
  <2>14. E * E * M = (f * s) * Y
    <3>1. E * E = f * (D * D)
      BY <2>1, <2>6, <2>12
    <3>2. E * E * M = (f * (D * D)) * (s * N)
      BY <2>12, <3>1
    <3>3. PICK d \in Nat : d = D * D
      BY <2>1
    <3>4. Y = d * N
      BY <2>4, <3>3
    <3>5. (f * d) * (s * N) = (f * s) * (d * N)
      BY <1>1, <2>1, <2>6, <3>3
    <3> QED BY <3>2, <3>3, <3>4, <3>5
  <2>15. 2401 * sm * sn * B * Q = f * X
    <3>1. sm * sn = t * (m * n)
      BY <2>6, <2>8
    <3>2. B * Q = t * (C * R)
      BY <2>6, <2>12, <2>1
    <3>3. PICK j \in Nat, k \in Nat : j = m * n /\ k = C * R
      BY <2>1
    <3>4. 2401 * sm * sn * B * Q = 2401 * (sm * sn) * (B * Q)
      BY <2>8, <2>12
    <3>5. X = 2401 * j * k
      BY <2>1, <2>2, <3>3
    <3>6. 2401 * (t * j) * (t * k) = f * (2401 * j * k)
      BY <2>6, <3>3
    <3> QED BY <3>1, <3>2, <3>3, <3>4, <3>5, <3>6
  <2>16. /\ Larger(a).seen = sm /\ Larger(b).seen = sn
         /\ Larger(a).converted = sx /\ Larger(b).converted = sy
    BY <2>9
  <2>17. sx * sn - sy * sm = E /\ sm + sn = M /\ sx + sy = B /\ M - B = Q /\ ~(B > M)
    BY <2>10, <2>11, <2>12, <2>13
  <2>18. E * E * M > (2401 * sm * sn * B * Q) \div 625
    <3>1. PICK u \in Int, v \in Int : u = (f * X) \div 625 /\ v = (f * s) * Y
      <4>1. f * X \in Nat /\ (f * s) * Y \in Nat
        BY <1>1, <2>2, <2>4, <2>6
      <4> QED BY <4>1
    <3> QED BY <2>7, <2>14, <2>15, <3>1
  <2> DEFINE A == Larger(a)
             F == Larger(b)
  <2>19. /\ E = A.converted * F.seen - F.converted * A.seen /\ M = A.seen + F.seen
         /\ B = A.converted + F.converted /\ Q = M - B
         /\ A.seen # 0 /\ F.seen # 0 /\ B # 0 /\ B # M /\ ~(B > M)
    BY <2>13, <2>16, <2>17
  <2>20. E * E * M > (2401 * A.seen * F.seen * B * Q) \div 625
    BY <2>16, <2>18
  <2> HIDE DEF A, F
  <2>21. PValue(A, F) = "small"
    BY <2>19, <2>20, PValueSmall
  <2> QED BY <2>21 DEF A, F
<1> QED BY <1>4, <1>5

LEMMA BeatsOneWay ==
  ASSUME NEW a \in Counter, NEW b \in Counter
  PROVE  ~Beats(a, a) /\ (Beats(a, b) => ~Beats(b, a))
<1>1. PICK m \in Nat, n \in Nat, x \in Nat, y \in Nat :
        m = a.seen /\ n = b.seen /\ x = a.converted /\ y = b.converted
  BY DEF Counter
<1>2. PICK p \in Nat, q \in Nat, r \in Nat : p = x * n /\ q = y * m /\ r = x * m
  BY <1>1
<1>3. ~(r > r) /\ (p > q => ~(q > p))
  BY <1>2
<1> QED BY <1>1, <1>2, <1>3 DEF Beats

\* With two variants beside the control there is one winner as soon as there is a contender.
LEMMA WinnerExists ==
  ASSUME NEW v, v[2] \in Counter, v[3] \in Counter, Len(v) = 3
  PROVE  /\ Contenders(v) \subseteq {2, 3} /\ Winner(v) \subseteq Contenders(v)
         /\ Contenders(v) # {} => Winner(v) # {}
         /\ \A i \in Winner(v), j \in Contenders(v) : ~Beats(v[j], v[i])
<1>1. Contenders(v) \subseteq {2, 3}
  BY DEF Contenders, Others
<1>2. Winner(v) \subseteq Contenders(v)
  BY DEF Winner
<1>3. \A i \in Winner(v), j \in Contenders(v) : ~Beats(v[j], v[i])
  <2> SUFFICES ASSUME NEW i \in Winner(v), NEW j \in Contenders(v) PROVE ~Beats(v[j], v[i])
    OBVIOUS
  <2>1. CASE j = i
    BY <1>1, <1>2, <2>1, BeatsOneWay
  <2>2. CASE j # i
    BY <2>2 DEF Winner
  <2> QED BY <2>1, <2>2
<1>4. ASSUME Contenders(v) # {} PROVE Winner(v) # {}
  <2>1. PICK i \in Contenders(v) : TRUE
    BY <1>4
  <2>2. CASE Contenders(v) = {i}
    BY <2>1, <2>2 DEF Winner
  <2>3. CASE Contenders(v) = {2, 3} /\ ~Beats(v[3], v[2])
    <3>1. 2 \in Winner(v)
      BY <2>3 DEF Winner
    <3> QED BY <3>1
  <2>4. CASE Contenders(v) = {2, 3} /\ Beats(v[3], v[2])
    <3>1. ~Beats(v[2], v[3])
      BY <2>4, BeatsOneWay
    <3>2. 3 \in Winner(v)
      BY <2>4, <3>1 DEF Winner
    <3> QED BY <3>2
  <2> QED BY <1>1, <2>1, <2>2, <2>3, <2>4
<1> QED BY <1>1, <1>2, <1>3, <1>4

LEMMA JudgedFields ==
  ASSUME NEW c, Judged(c)
  PROVE  /\ c.variants \in [1..3 -> Counter] /\ Len(c.variants) = 3
         /\ c.variants = <<c.variants[1], c.variants[2], c.variants[3]>>
         /\ c.result.winner = Winner(c.variants)
         /\ c.result.significanceReached = Significant(c.variants)
<1>1. PICK control \in Counters, one \in Counters, other \in Counters :
        c = [fn |-> "getResults", variants |-> <<control, one, other>>, result |-> Result(<<control, one, other>>)]
  BY DEF Judged
<1>2. control \in Counter /\ one \in Counter /\ other \in Counter
  BY CountersAssumption DEF Counter
<1> DEFINE v == <<control, one, other>>
<1>3. v \in [1..3 -> Counter] /\ Len(v) = 3 /\ v = <<v[1], v[2], v[3]>>
  BY <1>2
<1> HIDE DEF v
<1>4. c.variants = v /\ c.result = Result(v)
  BY <1>1 DEF v
<1> QED BY <1>3, <1>4 DEF Result

LEMMA TrafficConfirms ==
  ASSUME Answered(call)
  PROVE  MoreTrafficConfirms
<1> SUFFICES ASSUME call.fn = "getResults", \A i \in 1..3 : Plausible(call.variants[i])
             PROVE  LET larger == Result([i \in 1..3 |-> Larger(call.variants[i])])
                    IN  /\ call.result.significanceReached => larger.significanceReached
                        /\ call.result.winner # {} =>
                             \E i \in call.result.winner, j \in larger.winner :
                               ~Beats(call.variants[i], call.variants[j])
  BY DEF MoreTrafficConfirms
<1> DEFINE v == call.variants
           w == [i \in 1..3 |-> Larger(v[i])]
<1>1. /\ v \in [1..3 -> Counter] /\ Len(v) = 3
      /\ call.result.winner = Winner(v) /\ call.result.significanceReached = Significant(v)
  BY AnswersByName, JudgedFields
<1>2. \A i \in 1..3 : v[i] \in Counter /\ Plausible(v[i]) /\ Larger(v[i]) \in Counter
  BY <1>1, ScaledRates
<1>3. Len(w) = 3 /\ \A i \in 1..3 : w[i] = Larger(v[i])
  OBVIOUS
<1> HIDE DEF v, w
<1>4. \A i, j \in 1..3 : /\ PValue(v[i], v[j]) = "small" => PValue(w[i], w[j]) = "small"
                         /\ PValue(w[i], w[j]) # "NaN"
                         /\ Beats(w[i], w[j]) <=> Beats(v[i], v[j])
                         /\ Uplifts(w[i], w[j]) <=> Uplifts(v[i], v[j])
  <2>1. ASSUME NEW i \in 1..3 PROVE Plausible(w[i])
    <3>1. PICK s \in Nat : s = Scale
      BY CountersAssumption
    <3>2. PICK m \in Nat, x \in Nat : v[i].seen = m /\ v[i].converted = x /\ x <= m
      BY <1>2 DEF Counter, Plausible
    <3>3. s * x <= s * m
      BY <3>2, MulLeq
    <3>4. w[i] = [seen |-> s * m, converted |-> s * x]
      BY <1>3, <3>1, <3>2 DEF Larger
    <3> QED BY <3>3, <3>4 DEF Plausible
  <2>2. ASSUME NEW i \in 1..3, NEW j \in 1..3
        PROVE  PValue(w[i], w[j]) # "NaN"
    BY <1>2, <1>3, <2>1, ScaledValue
  <2> QED BY <1>2, <1>3, <2>2, ScaledValue, ScaledRates
<1>5. Contenders(v) \subseteq Contenders(w)
  BY <1>1, <1>3, <1>4 DEF Contenders, Others
<1>6. Significant(v) => Significant(w)
  <2>1. Others(v) = {2, 3} /\ Others(w) = {2, 3}
    BY <1>1, <1>3 DEF Others
  <2> QED BY <1>4, <2>1 DEF Significant
<1>7. ASSUME Winner(v) # {} PROVE \E i \in Winner(v), j \in Winner(w) : ~Beats(v[i], v[j])
  <2>1. PICK i \in Winner(v) : TRUE
    BY <1>7
  <2>2. i \in Contenders(w)
    BY <1>1, <1>2, <1>5, <2>1, WinnerExists
  <2>3. PICK j \in Winner(w) : TRUE
    BY <1>2, <1>3, <2>2, WinnerExists
  <2>4. j \in {2, 3} /\ i \in {2, 3} /\ ~Beats(w[i], w[j])
    BY <1>2, <1>3, <2>2, <2>3, WinnerExists
  <2> QED BY <1>4, <2>1, <2>3, <2>4
<1>8. Result(w).significanceReached = Significant(w) /\ Result(w).winner = Winner(w)
  BY DEF Result
<1> QED BY <1>1, <1>6, <1>7, <1>8 DEF v, w

LEMMA SmallNeedsTraffic ==
  ASSUME NEW a \in Counter, NEW b \in Counter, Plausible(a), Plausible(b), PValue(a, b) = "small"
  PROVE  a.seen > 0 /\ b.seen > 0 /\ a.seen + b.seen >= 4
<1>1. PICK m \in Nat, n \in Nat, x \in Nat, y \in Nat :
        m = a.seen /\ n = b.seen /\ x = a.converted /\ y = b.converted
  BY DEF Counter
<1>2. x <= m /\ y <= n /\ m # 0 /\ n # 0 /\ x + y # 0 /\ x + y # m + n
  BY <1>1 DEF Plausible, PValue
<1> SUFFICES ASSUME m + n < 4 PROVE FALSE
  BY <1>1, <1>2
<1>3. PICK D \in Int : D = x * n - y * m
  OBVIOUS
<1>4. D * D * (m + n) > (2401 * m * n * (x + y) * ((m + n) - (x + y))) \div 625
  BY <1>1, <1>3 DEF PValue
<1>5. CASE m = 1 /\ n = 1
  <2>1. x \in {0, 1} /\ y \in {0, 1} /\ D = x - y
    BY <1>2, <1>3, <1>5
  <2>2. D * D = 1 /\ x + y = 1
    BY <1>2, <1>5, <2>1
  <2> QED BY <1>4, <1>5, <2>2
<1>6. CASE m = 1 /\ n = 2
  <2>1. x \in {0, 1} /\ y \in {0, 1, 2} /\ D = 2 * x - y
    BY <1>2, <1>3, <1>6
  <2>2. (x = 0 /\ y = 1 /\ D * D = 1) \/ (x = 0 /\ y = 2 /\ D * D = 4) \/ (x = 1 /\ y = 0 /\ D * D = 4) \/ (x = 1 /\ y = 1 /\ D * D = 1)
    BY <1>2, <1>6, <2>1
  <2> QED BY <1>4, <1>6, <2>2
<1>7. CASE m = 2 /\ n = 1
  <2>1. x \in {0, 1, 2} /\ y \in {0, 1} /\ D = x - 2 * y
    BY <1>2, <1>3, <1>7
  <2>2. (y = 0 /\ x = 1 /\ D * D = 1) \/ (y = 0 /\ x = 2 /\ D * D = 4) \/ (y = 1 /\ x = 0 /\ D * D = 4) \/ (y = 1 /\ x = 1 /\ D * D = 1)
    BY <1>2, <1>7, <2>1
  <2> QED BY <1>4, <1>7, <2>2
<1> QED BY <1>2, <1>5, <1>6, <1>7

LEMMA WinnersSeen ==
  ASSUME Answered(call)
  PROVE  WinnersHaveTraffic
<1> SUFFICES ASSUME call.fn = "getResults", NEW i \in call.result.winner, Plausible(call.variants[1]), Plausible(call.variants[i])
             PROVE  /\ call.variants[i].seen > 0 /\ call.variants[1].seen > 0
                    /\ call.variants[i].seen + call.variants[1].seen >= 4
  BY DEF WinnersHaveTraffic
<1> DEFINE v == call.variants
<1>1. v \in [1..3 -> Counter] /\ Len(v) = 3 /\ call.result.winner = Winner(v)
  BY AnswersByName, JudgedFields
<1>2. \A k \in 1..3 : v[k] \in Counter
  BY <1>1
<1> HIDE DEF v
<1>3. i \in Contenders(v) /\ i \in {2, 3}
  BY <1>1, <1>2, WinnerExists
<1>4. PValue(v[i], v[1]) = "small"
  BY <1>3 DEF Contenders
<1> QED BY <1>2, <1>3, <1>4, SmallNeedsTraffic DEF v

LEMMA OrderIgnored ==
  ASSUME Answered(call)
  PROVE  WinnerIgnoresOrder
<1> SUFFICES ASSUME call.fn = "getResults"
             PROVE  LET v == call.variants
                        swapped == Winner(<<v[1], v[3], v[2]>>)
                    IN  /\ call.result.winner = {} <=> swapped = {}
                        /\ \A i \in call.result.winner, j \in swapped :
                             LET rival == <<v[1], v[3], v[2]>>[j]
                             IN  ~Beats(v[i], rival) /\ ~Beats(rival, v[i])
  BY DEF WinnerIgnoresOrder
<1> DEFINE v == call.variants
           u == <<v[1], v[3], v[2]>>
<1>1. v \in [1..3 -> Counter] /\ Len(v) = 3 /\ call.result.winner = Winner(v)
  BY AnswersByName, JudgedFields
<1>2. \A k \in 1..3 : v[k] \in Counter
  BY <1>1
<1>3. Len(u) = 3 /\ u[1] = v[1] /\ u[2] = v[3] /\ u[3] = v[2]
  OBVIOUS
<1> HIDE DEF v, u
<1>4. Others(v) = {2, 3} /\ Others(u) = {2, 3}
  BY <1>1, <1>3 DEF Others
<1>5. (2 \in Contenders(u) <=> 3 \in Contenders(v)) /\ (3 \in Contenders(u) <=> 2 \in Contenders(v))
  BY <1>3, <1>4 DEF Contenders
<1>6. /\ Contenders(v) \subseteq {2, 3} /\ Winner(v) \subseteq Contenders(v)
      /\ Contenders(v) # {} => Winner(v) # {}
      /\ \A i \in Winner(v), j \in Contenders(v) : ~Beats(v[j], v[i])
  BY <1>1, <1>2, WinnerExists
<1>7. /\ Contenders(u) \subseteq {2, 3} /\ Winner(u) \subseteq Contenders(u)
      /\ Contenders(u) # {} => Winner(u) # {}
      /\ \A i \in Winner(u), j \in Contenders(u) : ~Beats(u[j], u[i])
  <2>1. u[2] \in Counter /\ u[3] \in Counter
    BY <1>2, <1>3
  <2> QED BY <1>3, <2>1, WinnerExists
<1>8. Winner(v) = {} <=> Winner(u) = {}
  BY <1>5, <1>6, <1>7
<1>9. ASSUME NEW i \in Winner(v), NEW j \in Winner(u) PROVE ~Beats(v[i], u[j]) /\ ~Beats(u[j], v[i])
  <2> DEFINE other(k) == IF k = 2 THEN 3 ELSE 2
  <2>1. i \in {2, 3} /\ j \in {2, 3} /\ i \in Contenders(v) /\ j \in Contenders(u)
    BY <1>6, <1>7
  <2>2. other(i) \in Contenders(u) /\ u[other(i)] = v[i] /\ other(j) \in Contenders(v) /\ v[other(j)] = u[j]
    BY <1>3, <1>5, <2>1
  <2> QED BY <1>6, <1>7, <2>2
<1> QED BY <1>1, <1>8, <1>9 DEF v, u

-----------------------------------------------------------------------------
(* Verdicts on texts *)

Matches == [Categories -> Nat]

LEMMA Tables ==
  /\ Categories = {"explicit", "hate_speech", "violence", "self_harm", "sexual", "harassment", "dangerous", "copyright"}
  /\ Keywords \in [Categories -> Nat] /\ \A c \in Categories : Keywords[c] > 0 /\ Keywords[c] \in Nat
  /\ \A t \in Thresholds : t \in [Categories -> Nat]
  /\ TextMatches \subseteq Matches
<1>1. Categories = {"explicit", "hate_speech", "violence", "self_harm", "sexual", "harassment", "dangerous", "copyright"}
  BY DEF Categories, Keywords
<1>2. Keywords \in [Categories -> Nat] /\ \A c \in Categories : Keywords[c] > 0 /\ Keywords[c] \in Nat
  BY DEF Categories, Keywords
<1>3. DefaultThresholds \in [Categories -> Nat]
  BY <1>1 DEF DefaultThresholds
<1>4. ASSUME NEW t \in Thresholds PROVE t \in [Categories -> Nat]
  BY <1>1, <1>3 DEF Thresholds
<1>5. TextMatches \subseteq Matches
  <2>1. Harmless \in Matches
    BY DEF Harmless, Matches
  <2> QED BY <1>1, <2>1 DEF TextMatches, Matches
<1> QED BY <1>1, <1>2, <1>4, <1>5

LEMMA Detects ==
  ASSUME NEW m \in Matches, NEW c \in Categories
  PROVE  /\ Detect(m, c).detected <=> m[c] > 0
         /\ Detect(m, c).confidence[1] = m[c] /\ Detect(m, c).confidence[2] = Keywords[c]
         /\ m[c] > 0 => Detect(m, c).severity = Severity(<<m[c], Keywords[c]>>)
<1>1. /\ Detect(m, c).detected = (m[c] > 0)
      /\ Detect(m, c).confidence = <<m[c], Keywords[c]>>
      /\ Detect(m, c).severity = IF m[c] > 0 THEN Severity(<<m[c], Keywords[c]>>) ELSE "low"
  BY DEF Detect
<1>2. (Detect(m, c).detected = (m[c] > 0)) => (Detect(m, c).detected <=> m[c] > 0)
  OBVIOUS
<1>3. m[c] > 0 => Detect(m, c).severity = Severity(<<m[c], Keywords[c]>>)
  BY <1>1, Zenon
<1>4. Detect(m, c).confidence[1] = m[c] /\ Detect(m, c).confidence[2] = Keywords[c]
  BY <1>1
<1> QED BY <1>1, <1>2, <1>3, <1>4, Zenon

LEMMA FoundInText ==
  ASSUME NEW text, text.matches \in Matches, NEW t
  PROVE  LET check == CheckText(text, t)
         IN  /\ check.found = [c \in Categories |-> Detect(text.matches, c)]
             /\ Detected(check.found) = {c \in Categories : text.matches[c] > 0}
             /\ \A c \in Categories : check.found[c] = Detect(text.matches, c)
             /\ check.safe <=> Safe(check.found, t)
             /\ check.recommendations = Recommendations(check.found)
<1> DEFINE found == [c \in Categories |-> Detect(text.matches, c)]
<1>1. Detected(found) = {c \in Categories : text.matches[c] > 0}
  BY Detects DEF Detected
<1>2. \A c \in Categories : found[c] = Detect(text.matches, c)
  OBVIOUS
<1>3. /\ CheckText(text, t).found = found /\ CheckText(text, t).safe = Safe(found, t)
      /\ CheckText(text, t).recommendations = Recommendations(found)
  BY DEF CheckText
<1> QED BY <1>1, <1>2, <1>3

\* A text is safe if its share of no category's keywords reaches the threshold.
LEMMA SafeTexts ==
  ASSUME NEW text, text.matches \in Matches, NEW t
  PROVE  CheckText(text, t).safe <=>
           \A c \in Categories : text.matches[c] > 0 => ~(10 * text.matches[c] >= t[c] * Keywords[c])
<1> DEFINE found == CheckText(text, t).found
<1>1. /\ Detected(found) = {c \in Categories : text.matches[c] > 0}
      /\ \A c \in Categories : found[c] = Detect(text.matches, c)
      /\ CheckText(text, t).safe <=> Safe(found, t)
  BY FoundInText
<1> HIDE DEF found
<1>2. \A c \in Categories : AtLeast(found[c].confidence, t[c]) <=> 10 * text.matches[c] >= t[c] * Keywords[c]
  <2> SUFFICES ASSUME NEW c \in Categories
               PROVE  AtLeast(found[c].confidence, t[c]) <=> 10 * text.matches[c] >= t[c] * Keywords[c]
    OBVIOUS
  <2>1. found[c].confidence[1] = text.matches[c] /\ found[c].confidence[2] = Keywords[c]
    <3>1. found[c] = Detect(text.matches, c)
      BY <1>1
    <3>2. /\ Detect(text.matches, c).confidence[1] = text.matches[c]
          /\ Detect(text.matches, c).confidence[2] = Keywords[c]
      BY Detects, Zenon
    <3> QED BY <3>1, <3>2, Zenon
  <2> QED BY <2>1 DEF AtLeast
<1> QED BY <1>1, <1>2 DEF Safe

LEMMA CheckedFields ==
  ASSUME NEW c, Checked(c)
  PROVE  /\ c.text.matches \in Matches /\ c.thresholds \in [Categories -> Nat]
         /\ c.text = [matches |-> c.text.matches, music |-> c.text.music, repeats |-> c.text.repeats]
         /\ c.asText = CheckText(c.text, c.thresholds) /\ c.asLyrics = CheckLyrics(c.text, c.thresholds)
<1>1. PICK matches \in TextMatches, music \in BOOLEAN, repeats \in BOOLEAN, thresholds \in Thresholds :
        c = [fn |-> "check", text |-> [matches |-> matches, music |-> music, repeats |-> repeats], thresholds |-> thresholds,
             asText |-> CheckText([matches |-> matches, music |-> music, repeats |-> repeats], thresholds),
             asLyrics |-> CheckLyrics([matches |-> matches, music |-> music, repeats |-> repeats], thresholds)]
  BY DEF Checked
<1>2. matches \in Matches /\ thresholds \in [Categories -> Nat]
  BY Tables
<1> QED BY <1>1, <1>2

\* Whether lyrics are safe, by their keywords.
LEMMA SafeLyrics ==
  ASSUME NEW text, text.matches \in Matches, NEW t
  PROVE  CheckLyrics(text, t).safe <=>
           /\ CheckText(text, t).safe
           /\ OnlyMusic(text) => ~(10 * 7 >= t["copyright"] * 10)
<1> DEFINE found == CheckText(text, t).found
           lyrics == IF text.music THEN WithMusic(found) ELSE found
<1>1. /\ found = [c \in Categories |-> Detect(text.matches, c)]
      /\ Detected(found) = {c \in Categories : text.matches[c] > 0}
      /\ CheckText(text, t).safe <=> Safe(found, t)
  BY FoundInText
<1>2. CheckLyrics(text, t).safe = Safe(lyrics, t)
  BY DEF CheckLyrics
<1> HIDE DEF found
<1>3. "copyright" \in Categories /\ text.matches["copyright"] \in Nat
  BY Tables DEF Matches
<1>4. found.copyright.detected <=> text.matches["copyright"] > 0
  BY <1>1, <1>3, Detects
<1>5. CASE OnlyMusic(text)
  <2>1. ~found.copyright.detected /\ text.music
    BY <1>3, <1>4, <1>5 DEF OnlyMusic
  <2>2. PICK music : music = [detected |-> TRUE, confidence |-> <<7, 10>>, severity |-> "medium"]
    OBVIOUS
  <2>3. lyrics = [found EXCEPT !.copyright = music]
    BY <2>1, <2>2 DEF WithMusic
  <2>4. /\ lyrics["copyright"] = music
        /\ \A c \in Categories \ {"copyright"} : lyrics[c] = found[c]
    BY <1>1, <1>3, <2>3
  <2> HIDE DEF lyrics
  <2>5. Detected(lyrics) = Detected(found) \cup {"copyright"} /\ "copyright" \notin Detected(found)
    BY <1>3, <2>1, <2>2, <2>4 DEF Detected
  <2>6. \A c \in Detected(found) : lyrics[c] = found[c]
    BY <2>4, <2>5 DEF Detected
  <2>7. AtLeast(lyrics["copyright"].confidence, t["copyright"]) <=> 10 * 7 >= t["copyright"] * 10
    BY <2>2, <2>4 DEF AtLeast
  <2>8. Safe(lyrics, t) <=> Safe(found, t) /\ ~AtLeast(lyrics["copyright"].confidence, t["copyright"])
    BY <2>5, <2>6 DEF Safe
  <2> QED BY <1>1, <1>2, <1>5, <2>7, <2>8
<1>6. CASE ~OnlyMusic(text)
  <2>1. lyrics = found
    BY <1>3, <1>4, <1>6 DEF OnlyMusic, WithMusic
  <2> QED BY <1>1, <1>2, <1>6, <2>1
<1> QED BY <1>5, <1>6

\* One more keyword leaves what is unsafe for its keywords as it is.
LEMMA OneMoreKeyword ==
  ASSUME NEW text, text.matches \in Matches, NEW t \in [Categories -> Nat], NEW c \in Categories,
         text = [matches |-> text.matches, music |-> text.music, repeats |-> text.repeats]
  PROVE  /\ With(text, c).matches \in Matches /\ With(text, c).music = text.music
         /\ With(text, c).matches[c] = text.matches[c] + 1
         /\ \A d \in Categories \ {c} : With(text, c).matches[d] = text.matches[d]
         /\ ~CheckText(text, t).safe => ~CheckText(With(text, c), t).safe
<1> DEFINE more == [text.matches EXCEPT ![c] = @ + 1]
           longer == [matches |-> more, music |-> text.music, repeats |-> text.repeats]
<1>1. With(text, c) = longer
  BY DEF With
<1>2. /\ more \in Matches /\ more[c] = text.matches[c] + 1 /\ \A d \in Categories \ {c} : more[d] = text.matches[d]
      /\ \A d \in Categories : text.matches[d] \in Nat /\ more[d] \in Nat /\ text.matches[d] <= more[d]
  BY DEF Matches
<1>3. longer.matches = more /\ longer.music = text.music
  OBVIOUS
<1> HIDE DEF more, longer
<1>4. ASSUME ~CheckText(text, t).safe PROVE ~CheckText(longer, t).safe
  <2>1. PICK d \in Categories : text.matches[d] > 0 /\ 10 * text.matches[d] >= t[d] * Keywords[d]
    BY <1>4, SafeTexts
  <2>2. t[d] * Keywords[d] \in Nat
    BY Tables
  <2>3. more[d] > 0 /\ 10 * more[d] >= t[d] * Keywords[d]
    BY <1>2, <2>1, <2>2
  <2> QED BY <1>2, <1>3, <2>3, SafeTexts
<1> QED BY <1>1, <1>2, <1>3, <1>4

LEMMA KeywordsCount ==
  ASSUME Answered(call)
  PROVE  MoreKeywordsNeverSafer
<1> SUFFICES ASSUME call.fn = "check"
             PROVE  /\ ~call.asLyrics.safe => ~CheckLyrics([call.text EXCEPT !.music = TRUE], call.thresholds).safe
                    /\ \A c \in {d \in Categories : call.text.matches[d] < Keywords[d]} :
                         /\ ~call.asText.safe => ~CheckText(With(call.text, c), call.thresholds).safe
                         /\ ~call.asLyrics.safe /\ ~(OnlyMusic(call.text) /\ c = "copyright") =>
                              ~CheckLyrics(With(call.text, c), call.thresholds).safe
  BY DEF MoreKeywordsNeverSafer
<1>1. PICK text, t : /\ text = call.text /\ t = call.thresholds
                     /\ text.matches \in Matches /\ t \in [Categories -> Nat]
                     /\ text = [matches |-> text.matches, music |-> text.music, repeats |-> text.repeats]
                     /\ call.asText = CheckText(text, t) /\ call.asLyrics = CheckLyrics(text, t)
  BY AnswersByName, CheckedFields
<1>2. ~CheckLyrics(text, t).safe => ~CheckLyrics([text EXCEPT !.music = TRUE], t).safe
  <2>1. PICK louder : louder = [text EXCEPT !.music = TRUE]
    OBVIOUS
  <2>2. louder.matches = text.matches /\ louder.music
    BY <1>1, <2>1
  <2>3. (OnlyMusic(text) => OnlyMusic(louder)) /\ louder.matches \in Matches
    BY <1>1, <2>2 DEF OnlyMusic
  <2>4. CheckText(louder, t).safe <=> CheckText(text, t).safe
    BY <1>1, <2>2, <2>3, SafeTexts
  <2> QED BY <1>1, <2>1, <2>3, <2>4, SafeLyrics
<1>3. ASSUME NEW c \in Categories, ~CheckLyrics(text, t).safe, ~(OnlyMusic(text) /\ c = "copyright")
      PROVE  ~CheckLyrics(With(text, c), t).safe
  <2>1. PICK longer : longer = With(text, c)
    OBVIOUS
  <2>2. /\ longer.matches \in Matches /\ longer.music = text.music
        /\ c # "copyright" => longer.matches["copyright"] = text.matches["copyright"]
        /\ ~CheckText(text, t).safe => ~CheckText(longer, t).safe
    BY <1>1, <2>1, OneMoreKeyword, Tables
  <2>3. OnlyMusic(text) => OnlyMusic(longer)
    BY <1>3, <2>2 DEF OnlyMusic
  <2> QED BY <1>1, <1>3, <2>1, <2>2, <2>3, SafeLyrics
<1>4. ASSUME NEW c \in Categories, ~CheckText(text, t).safe
      PROVE  ~CheckText(With(text, c), t).safe
  BY <1>1, <1>4, OneMoreKeyword
<1> QED BY <1>1, <1>2, <1>3, <1>4

LEMMA LyricsAsTexts ==
  ASSUME Answered(call)
  PROVE  LyricsNeverSafer
<1> SUFFICES ASSUME call.fn = "check", call.asLyrics.safe
             PROVE  call.asText.safe
  BY DEF LyricsNeverSafer
<1>1. PICK text, t : /\ text.matches \in Matches /\ call.asText = CheckText(text, t)
                     /\ call.asLyrics = CheckLyrics(text, t)
  BY AnswersByName, CheckedFields
<1> QED BY <1>1, SafeLyrics

LEMMA VerdictsAreOne ==
  ASSUME Answered(call)
  PROVE  VerdictsAgree
<1> SUFFICES ASSUME call.fn = "check"
             PROVE  /\ "critical" \in call.asText.recommendations
                         <=> \E c \in Categories : 5 * call.text.matches[c] >= 4 * Keywords[c]
                    /\ "critical" \in call.asText.recommendations /\ (\A c \in Categories : call.thresholds[c] <= 8) => ~call.asText.safe
                    /\ ~call.asText.safe => "appears safe" \notin call.asText.recommendations
                    /\ ~call.asLyrics.safe /\ "appears safe" \in call.asLyrics.recommendations =>
                         call.text.music /\ call.text.matches = Harmless
  BY DEF VerdictsAgree
<1> DEFINE text == call.text
           t == call.thresholds
           found == CheckText(text, t).found
<1>1. /\ text.matches \in Matches /\ t \in [Categories -> Nat] /\ call.asText = CheckText(text, t)
      /\ call.asLyrics = CheckLyrics(text, t)
  BY AnswersByName, CheckedFields
<1> HIDE DEF text, t
<1>2. /\ Detected(found) = {c \in Categories : text.matches[c] > 0}
      /\ \A c \in Categories : found[c] = Detect(text.matches, c)
      /\ CheckText(text, t).recommendations = Recommendations(found)
  BY <1>1, FoundInText
<1> HIDE DEF found
<1>3. \A c \in Categories : text.matches[c] \in Nat /\ Keywords[c] \in Nat /\ Keywords[c] > 0 /\ t[c] \in Nat
  BY <1>1, Tables DEF Matches
<1>4. ASSUME NEW c \in Detected(found)
      PROVE  found[c].severity = "critical" <=> 5 * text.matches[c] >= 4 * Keywords[c]
  <2>1. found[c].severity = Severity(<<text.matches[c], Keywords[c]>>)
    BY <1>1, <1>2, Detects
  <2>2. PICK m \in Nat, k \in Nat : m = text.matches[c] /\ k = Keywords[c]
    BY <1>2, <1>3
  <2>3. Severity(<<m, k>>) = "critical" <=> 10 * m >= 8 * k
    BY DEF Severity, AtLeast
  <2> QED BY <2>1, <2>2, <2>3
<1>5. "critical" \in Recommendations(found) <=> \E c \in Detected(found) : found[c].severity = "critical"
  BY DEF Recommendations
<1>6. "critical" \in Recommendations(found) <=> \E c \in Categories : 5 * text.matches[c] >= 4 * Keywords[c]
  <2>1. \A c \in Categories : 5 * text.matches[c] >= 4 * Keywords[c] => text.matches[c] > 0
    BY <1>3
  <2> QED BY <1>2, <1>4, <1>5, <2>1
<1>7. ASSUME "critical" \in Recommendations(found), \A c \in Categories : t[c] <= 8
      PROVE  ~CheckText(text, t).safe
  <2>1. PICK c \in Categories : 5 * text.matches[c] >= 4 * Keywords[c]
    BY <1>6, <1>7
  <2>2. PICK m \in Nat, k \in Nat, h \in Nat : m = text.matches[c] /\ k = Keywords[c] /\ h = t[c] /\ k > 0 /\ h <= 8
    BY <1>3, <1>7
  <2>3. k * h <= k * 8
    BY <2>2, MulLeq
  <2>4. h * k = k * h
    BY <2>2
  <2>5. m > 0 /\ 10 * m >= h * k
    <3>1. PICK p \in Int : p = k * h
      BY <2>2
    <3> QED BY <2>1, <2>2, <2>3, <2>4, <3>1
  <2> QED BY <1>1, <2>2, <2>5, SafeTexts
<1>8. ~CheckText(text, t).safe => "appears safe" \notin Recommendations(found)
  <2>1. ~CheckText(text, t).safe => Detected(found) # {}
    BY <1>1, <1>2, SafeTexts
  <2> QED BY <2>1 DEF Recommendations
<1>9. ASSUME ~CheckLyrics(text, t).safe, "appears safe" \in CheckLyrics(text, t).recommendations
      PROVE  text.music /\ text.matches = Harmless
  <2>1. CheckLyrics(text, t).recommendations = CheckText(text, t).recommendations
    BY DEF CheckLyrics
  <2>2. Detected(found) = {}
    <3>1. Detected(found) # {} => "appears safe" \notin Recommendations(found)
      BY DEF Recommendations
    <3> QED BY <1>2, <1>9, <2>1, <3>1
  <2>3. \A c \in Categories : text.matches[c] = 0
    BY <1>2, <1>3, <2>2
  <2>4. text.matches = Harmless
    BY <1>1, <2>3 DEF Matches, Harmless
  <2>5. CheckText(text, t).safe
    BY <1>1, <2>3, SafeTexts
  <2> QED BY <1>1, <1>9, <2>4, <2>5, SafeLyrics DEF OnlyMusic
<1> QED BY <1>1, <1>2, <1>6, <1>7, <1>8, <1>9 DEF text, t

\* The verdict on an experiment is confirmed by more of its traffic.  A text does not turn safe with
\* more keywords, lyrics only with a first copyright keyword beside a music keyword, and what is
\* recommended for a text agrees with the verdict on it (VerdictsStable).
THEOREM Verdicts == DataSpec => []VerdictsStable
<1>1. Answered(call) => VerdictsStable
  BY TrafficConfirms, WinnersSeen, OrderIgnored, KeywordsCount, LyricsAsTexts, VerdictsAreOne DEF VerdictsStable
<1> QED BY <1>1, Answers, PTL

-----------------------------------------------------------------------------
(* Rights in territories *)

\* The rows of the table that are part of another one.
LEMMA TableNests ==
  ASSUME NEW pair \in Parts
  PROVE  /\ pair[1] \in DOMAIN Members
         /\ \/ pair[2] = "WORLDWIDE"
            \/ pair[2] \in DOMAIN Members /\ Members[pair[1]] \subseteq Members[pair[2]]
<1>1. {"NORDICS", "EEA"} \subseteq DOMAIN Members /\ Members["NORDICS"] \subseteq Members["EEA"]
  BY DEF Members, Nordics, Eu
<1>2. {"EU", "EEA"} \subseteq DOMAIN Members /\ Members["EU"] \subseteq Members["EEA"]
  BY DEF Members
<1>3. {"EEA", "EUROPE"} \subseteq DOMAIN Members /\ Members["EEA"] \subseteq Members["EUROPE"]
  BY DEF Members, Eu
<1>4. {"G7", "G20"} \subseteq DOMAIN Members /\ Members["G7"] \subseteq Members["G20"]
  BY DEF Members
<1>5. {"G7", "OECD"} \subseteq DOMAIN Members /\ Members["G7"] \subseteq Members["OECD"]
  BY DEF Members, Eu
<1>6. {"EAST_ASIA", "APAC"} \subseteq DOMAIN Members /\ Members["EAST_ASIA"] \subseteq Members["APAC"]
  BY DEF Members, Asean
<1>7. {"ASEAN", "APAC"} \subseteq DOMAIN Members /\ Members["ASEAN"] \subseteq Members["APAC"]
  BY DEF Members, Asean
<1>8. {"OCEANIA", "APAC"} \subseteq DOMAIN Members /\ Members["OCEANIA"] \subseteq Members["APAC"]
  BY DEF Members, EastAsia, Asean
<1>9. {"SOUTH_AMERICA", "LATAM"} \subseteq DOMAIN Members /\ Members["SOUTH_AMERICA"] \subseteq Members["LATAM"]
  BY DEF Members, SouthAm
<1>10. {"LATAM", "AMERICAS"} \subseteq DOMAIN Members /\ Members["LATAM"] \subseteq Members["AMERICAS"]
  BY DEF Members, SouthAm
<1>11. {"NORTH_AMERICA", "AMERICAS"} \subseteq DOMAIN Members /\ Members["NORTH_AMERICA"] \subseteq Members["AMERICAS"]
  BY DEF Members, SouthAm
<1>12. {"WEST_AFRICA", "AFRICA"} \subseteq DOMAIN Members /\ Members["WEST_AFRICA"] \subseteq Members["AFRICA"]
  BY DEF Members, NorthAfrica
<1>13. {"GULF", "MENA"} \subseteq DOMAIN Members /\ Members["GULF"] \subseteq Members["MENA"]
  BY DEF Members, Gulf
<1>14. "EUROPE" \in DOMAIN Members
  BY DEF Members
<1> HIDE DEF Members
<1> QED BY <1>1, <1>2, <1>3, <1>4, <1>5, <1>6, <1>7, <1>8, <1>9, <1>10, <1>11, <1>12, <1>13, <1>14 DEF Parts

LEMMA ResolvedFields ==
  ASSUME NEW c, Resolved(c)
  PROVE  /\ c.code \in Asked /\ c.bundles \subseteq Bundles /\ c.granted = Resolve(c.bundles, c.code)
         /\ c.available = Available(c.bundles, c.code)
BY DEF Resolved

LEMMA WiderCover ==
  ASSUME Answered(call)
  PROVE  WiderGroupsCover
<1> SUFFICES ASSUME call.fn = "resolve", NEW b \in call.granted, NEW pair \in Parts, pair[1] \in b.places
             PROVE  Grants([places |-> (b.places \ {pair[1]}) \cup {pair[2]}, excluded |-> b.excluded], call.code)
  BY DEF WiderGroupsCover
<1> DEFINE code == call.code
           wider == (b.places \ {pair[1]}) \cup {pair[2]}
<1>1. code \in Asked /\ Grants(b, code)
  BY AnswersByName, ResolvedFields DEF Resolve
<1> HIDE DEF code
<1>2. /\ pair[1] \in DOMAIN Members /\ pair[1] # "WORLDWIDE" /\ code # pair[1]
      /\ \/ pair[2] = "WORLDWIDE"
         \/ pair[2] \in DOMAIN Members /\ Members[pair[1]] \subseteq Members[pair[2]]
  <2>1. "WORLDWIDE" \notin DOMAIN Members
    BY DEF Members
  <2> QED BY <1>1, <2>1, TableNests, AskedAssumption
<1>3. "WORLDWIDE" \in wider \/ code \in wider \/ wider \cap GroupsOf(code) # {}
  <2>1. CASE "WORLDWIDE" \in b.places \/ code \in b.places
    BY <1>2, <2>1
  <2>2. ASSUME NEW g \in b.places \cap GroupsOf(code)
        PROVE  "WORLDWIDE" \in wider \/ wider \cap GroupsOf(code) # {}
    <3>1. CASE g # pair[1]
      BY <3>1
    <3>2. CASE g = pair[1] /\ pair[2] # "WORLDWIDE"
      <4>1. code \in Members[pair[1]]
        BY <1>2, <3>2 DEF GroupsOf
      <4>2. pair[2] \in GroupsOf(code)
        BY <1>2, <3>2, <4>1 DEF GroupsOf
      <4> QED BY <4>2
    <3> QED BY <3>1, <3>2
  <2> QED BY <1>1, <2>1, <2>2 DEF Grants
<1> HIDE DEF wider
<1>4. code \notin b.excluded
  BY <1>1 DEF Grants
<1>5. Grants([places |-> wider, excluded |-> b.excluded], code)
  BY <1>3, <1>4 DEF Grants
<1> QED BY <1>5 DEF code, wider

LEMMA MoreBundles ==
  ASSUME Answered(call)
  PROVE  MoreRightsNeverLess
<1> SUFFICES ASSUME call.fn = "resolve", NEW b \in call.bundles, Available({b}, call.code)
             PROVE  call.available
  BY DEF MoreRightsNeverLess
<1>1. Grants(b, call.code)
  BY DEF Available, Resolve
<1>2. b \in Resolve(call.bundles, call.code)
  BY <1>1 DEF Resolve
<1>3. Available(call.bundles, call.code)
  BY <1>2 DEF Available
<1> QED BY <1>3, AnswersByName, ResolvedFields

-----------------------------------------------------------------------------
(* Records of a batch *)

EnterRecord(before, record) ==
  IF Failed(record)
  THEN [processed |-> before.processed, failed |-> Append(before.failed, record)]
  ELSE [processed |-> Append(before.processed, Normalize(record)), failed |-> before.failed]

\* Catalog!Ingest, as an equation.
Ingests(records, after) ==
  after = [k \in 0..Len(records) |-> IF k = 0 THEN [processed |-> <<>>, failed |-> <<>>]
                                     ELSE EnterRecord(after[k - 1], records[k])]

Sorted == [processed : Seq({Normalize(r) : r \in Records}), failed : Seq(Records)]

LEMMA IngestRuns ==
  ASSUME NEW n \in Nat, NEW records \in [1..n -> Records]
  PROVE  \E after : /\ after \in [0..n -> Sorted] /\ after[0] = [processed |-> <<>>, failed |-> <<>>]
                    /\ \A k \in 1..n : after[k] = EnterRecord(after[k - 1], records[k])
                    /\ Ingest(records) = after[n]
<1> DEFINE step == [k \in 1..n |-> [s \in Sorted |-> EnterRecord(s, records[k])]]
           base == [processed |-> <<>>, failed |-> <<>>]
<1>1. Len(records) = n
  OBVIOUS
<1>2. base \in Sorted
  BY DEF Sorted
<1>3. ASSUME NEW k \in 1..n, NEW s \in Sorted PROVE EnterRecord(s, records[k]) \in Sorted
  <2>1. records[k] \in Records
    OBVIOUS
  <2>2. PICK T : T = {Normalize(r) : r \in Records}
    OBVIOUS
  <2>3. s.processed \in Seq(T) /\ s.failed \in Seq(Records) /\ Normalize(records[k]) \in T
    BY <2>1, <2>2 DEF Sorted
  <2>4. Append(s.processed, Normalize(records[k])) \in Seq(T) /\ Append(s.failed, records[k]) \in Seq(Records)
    BY <2>1, <2>3
  <2> QED BY <2>2, <2>3, <2>4 DEF Sorted, EnterRecord
<1>4. step \in [1..n -> [Sorted -> Sorted]]
  BY <1>3
<1>5. \A k \in 1..n, s \in Sorted : step[k][s] = EnterRecord(s, records[k])
  OBVIOUS
<1> HIDE DEF step
<1>6. PICK out : Grows(n, Sorted, base, step, out)
  <2> HIDE DEF base
  <2> QED BY <1>2, <1>4, StepByStep
<1>7. /\ out \in [0..n -> Sorted] /\ out[0] = base
      /\ \A k \in 1..n : k - 1 \in 0..n /\ out[k - 1] \in Sorted /\ out[k] = step[k][out[k - 1]]
  BY <1>6 DEF Grows
<1>8. \A k \in 1..n : out[k] = EnterRecord(out[k - 1], records[k])
  BY <1>5, <1>7
<1>9. Ingests(records, out)
  BY <1>1, <1>7, <1>8 DEF Ingests
<1>10. Ingest(records) = (CHOOSE after : Ingests(records, after))[n]
  BY <1>1 DEF Ingest, Ingests, EnterRecord
<1>11. PICK after : after = CHOOSE f : Ingests(records, f)
  OBVIOUS
<1>12. Ingests(records, after)
  BY <1>9, <1>11
<1>13. \A k \in 0..n : after[k] = IF k = 0 THEN base ELSE EnterRecord(after[k - 1], records[k])
  BY <1>1, <1>12 DEF Ingests
<1>14. \A k \in 0..n : after[k] = out[k]
  <2> DEFINE P == {k \in 0..n : after[k] = out[k]}
  <2>1. 0 \in P
    BY <1>7, <1>13
  <2>2. ASSUME NEW k \in 1..n, k - 1 \in P PROVE k \in P
    BY <1>8, <1>13, <2>2
  <2> HIDE DEF P
  <2>3. 0..n \subseteq P
    BY <2>1, <2>2, UpTo
  <2> QED BY <2>3 DEF P
<1>15. Ingest(records) = out[n]
  BY <1>10, <1>11, <1>14
<1> QED BY <1>7, <1>8, <1>15

LEMMA Appended ==
  ASSUME NEW T, NEW s \in Seq(T), NEW x \in T, NEW r, r = Append(s, x)
  PROVE  /\ r \in Seq(T) /\ Len(r) = Len(s) + 1 /\ r[Len(s) + 1] = x /\ \A i \in 1..Len(s) : r[i] = s[i]
         /\ DOMAIN r = 1..(Len(s) + 1) /\ DOMAIN s = 1..Len(s) /\ Len(s) \in Nat
         /\ Range(s) \subseteq Range(r) /\ x \in Range(r)
<1>1. /\ r \in Seq(T) /\ Len(r) = Len(s) + 1 /\ r[Len(s) + 1] = x /\ \A i \in 1..Len(s) : r[i] = s[i]
      /\ DOMAIN r = 1..(Len(s) + 1) /\ DOMAIN s = 1..Len(s) /\ Len(s) \in Nat
  OBVIOUS
<1>2. DOMAIN s \subseteq DOMAIN r /\ Len(s) + 1 \in DOMAIN r
  BY <1>1
<1>3. Range(s) \subseteq Range(r) /\ x \in Range(r)
  BY <1>1, <1>2 DEF Range
<1> QED BY <1>1, <1>3

Accounted(s, records, k) ==
  /\ Len(s.processed) + Len(s.failed) = k
  /\ \A l \in 1..k : Failed(records[l]) \/ Normalize(records[l]) \in Range(s.processed)

LEMMA OneMore ==
  ASSUME NEW a \in Nat, NEW b \in Nat, NEW k \in Int, a + b = k - 1
  PROVE  (a + 1) + b = k /\ a + (b + 1) = k
OBVIOUS

LEMMA EnterAccounted ==
  ASSUME NEW n \in Nat, NEW records \in [1..n -> Records], NEW k \in 1..n, NEW s \in Sorted, Accounted(s, records, k - 1)
  PROVE  Accounted(EnterRecord(s, records[k]), records, k)
<1>0. PICK T : T = {Normalize(r) : r \in Records}
  OBVIOUS
<1>1. records[k] \in Records /\ Normalize(records[k]) \in T
  BY <1>0
<1>2. s.processed \in Seq(T) /\ s.failed \in Seq(Records)
  BY <1>0 DEF Sorted
<1>3. Len(s.processed) \in Nat /\ Len(s.failed) \in Nat
  BY <1>2
<1>4. \A l \in 1..k : l \in 1..(k - 1) \/ l = k
  OBVIOUS
<1>5. PICK a \in Nat, b \in Nat : a = Len(s.processed) /\ b = Len(s.failed) /\ a + b = k - 1
  BY <1>3 DEF Accounted
<1>6. (a + 1) + b = k /\ a + (b + 1) = k
  <2>1. k \in Int
    OBVIOUS
  <2>2. a + b = k - 1
    BY <1>5, Zenon
  <2> QED BY <2>1, <2>2, OneMore
<1>7. PICK q \in Seq(T), g \in Seq(Records) : q = s.processed /\ g = s.failed
  BY <1>2
<1>8. PICK x \in T : x = Normalize(records[k])
  BY <1>1
<1>9. \A l \in 1..(k - 1) : Failed(records[l]) \/ Normalize(records[l]) \in Range(q)
  BY <1>7 DEF Accounted
<1>10. CASE Failed(records[k])
  <2>1. PICK f : f = Append(g, records[k])
    OBVIOUS
  <2>2. Len(f) = b + 1
    BY <1>1, <1>5, <1>7, <2>1, Appended
  <2>3. EnterRecord(s, records[k]) = [processed |-> q, failed |-> f]
    BY <1>7, <1>10, <2>1 DEF EnterRecord
  <2>4. Len(q) + Len(f) = k
    BY <1>5, <1>6, <1>7, <2>2
  <2>5. \A l \in 1..k : Failed(records[l]) \/ Normalize(records[l]) \in Range(q)
    BY <1>4, <1>9, <1>10
  <2> QED BY <2>3, <2>4, <2>5 DEF Accounted
<1>11. CASE ~Failed(records[k])
  <2>1. PICK p : p = Append(q, x)
    OBVIOUS
  <2>2. Len(p) = Len(q) + 1 /\ Range(q) \subseteq Range(p) /\ x \in Range(p)
    <3>1. Len(p) = Len(q) + 1
      BY <2>1, Appended
    <3>2. Range(q) \subseteq Range(p)
      BY <2>1, Appended
    <3>3. x \in Range(p)
      BY <2>1, Appended
    <3> QED BY <3>1, <3>2, <3>3
  <2>3. EnterRecord(s, records[k]) = [processed |-> p, failed |-> g]
    BY <1>7, <1>8, <1>11, <2>1 DEF EnterRecord
  <2>4. Len(p) + Len(g) = k
    BY <1>5, <1>6, <1>7, <2>2
  <2>5. \A l \in 1..k : Failed(records[l]) \/ Normalize(records[l]) \in Range(p)
    BY <1>4, <1>8, <1>9, <2>2
  <2> QED BY <2>3, <2>4, <2>5 DEF Accounted
<1> QED BY <1>10, <1>11

LEMMA IngestKeeps ==
  ASSUME NEW n \in Nat, NEW records \in [1..n -> Records]
  PROVE  Ingest(records) \in Sorted /\ Accounted(Ingest(records), records, n)
<1>1. PICK after : /\ after \in [0..n -> Sorted] /\ after[0] = [processed |-> <<>>, failed |-> <<>>]
                   /\ \A k \in 1..n : after[k] = EnterRecord(after[k - 1], records[k])
                   /\ Ingest(records) = after[n]
  BY IngestRuns
<1> DEFINE P == {k \in 0..n : Accounted(after[k], records, k)}
<1>2. 0 \in P
  <2>1. after[0].processed = <<>> /\ after[0].failed = <<>> /\ Len(<<>>) = 0
    BY <1>1
  <2>2. Accounted(after[0], records, 0)
    BY <2>1 DEF Accounted
  <2> QED BY <2>2
<1>3. ASSUME NEW k \in 1..n, k - 1 \in P PROVE k \in P
  <2>1. after[k - 1] \in Sorted /\ Accounted(after[k - 1], records, k - 1)
    BY <1>1, <1>3
  <2>2. after[k] = EnterRecord(after[k - 1], records[k])
    BY <1>1
  <2>3. Accounted(after[k], records, k)
    BY <2>1, <2>2, EnterAccounted
  <2> QED BY <2>3
<1> HIDE DEF P
<1>4. n \in P
  BY <1>2, <1>3, UpTo
<1> QED BY <1>1, <1>4 DEF P

\* Catalog!Deduplicate, as an equation.
Deduplicates(tracks, seen) ==
  seen = [k \in 0..Len(tracks) |-> IF k = 0 THEN <<>> ELSE Enter(seen[k - 1], tracks[k])]

LEMMA EnterType ==
  ASSUME NEW T, NEW s \in Seq(T), NEW x \in T
  PROVE  Enter(s, x) \in Seq(T)
BY Appended DEF Enter

LEMMA DeduplicateRuns ==
  ASSUME NEW T, NEW tracks \in Seq(T)
  PROVE  \E seen : /\ seen \in [0..Len(tracks) -> Seq(T)] /\ seen[0] = <<>>
                   /\ \A k \in 1..Len(tracks) : seen[k] = Enter(seen[k - 1], tracks[k])
                   /\ Deduplicate(tracks) = seen[Len(tracks)]
<1>1. PICK n \in Nat : n = Len(tracks)
  OBVIOUS
<1> DEFINE S == Seq(T)
           step == [k \in 1..n |-> [s \in S |-> Enter(s, tracks[k])]]
<1>2. ASSUME NEW k \in 1..n, NEW s \in S PROVE Enter(s, tracks[k]) \in S
  <2>1. tracks[k] \in T
    BY <1>1
  <2> QED BY <2>1, EnterType
<1>3. <<>> \in S
  OBVIOUS
<1> HIDE DEF S
<1>4. step \in [1..n -> [S -> S]]
  BY <1>2
<1>5. \A k \in 1..n, s \in S : step[k][s] = Enter(s, tracks[k])
  OBVIOUS
<1> HIDE DEF step
<1>6. PICK out : Grows(n, S, <<>>, step, out)
  <2>1. PICK base \in S : base = <<>>
    BY <1>3
  <2>2. \E out : Grows(n, S, base, step, out)
    BY <1>4, StepByStep
  <2> QED BY <2>1, <2>2
<1>7. /\ out \in [0..n -> S] /\ out[0] = <<>>
      /\ \A k \in 1..n : k - 1 \in 0..n /\ out[k - 1] \in S /\ out[k] = step[k][out[k - 1]]
  BY <1>6 DEF Grows
<1>8. \A k \in 1..n : out[k] = Enter(out[k - 1], tracks[k])
  BY <1>5, <1>7
<1>9. Deduplicates(tracks, out)
  BY <1>1, <1>7, <1>8 DEF Deduplicates
<1>10. Deduplicate(tracks) = (CHOOSE seen : Deduplicates(tracks, seen))[n]
  BY <1>1 DEF Deduplicate, Deduplicates
<1>11. PICK seen : seen = CHOOSE f : Deduplicates(tracks, f)
  OBVIOUS
<1>12. Deduplicates(tracks, seen)
  BY <1>9, <1>11
<1>13. \A k \in 0..n : seen[k] = IF k = 0 THEN <<>> ELSE Enter(seen[k - 1], tracks[k])
  BY <1>1, <1>12 DEF Deduplicates
<1>14. \A k \in 0..n : seen[k] = out[k]
  <2> DEFINE P == {k \in 0..n : seen[k] = out[k]}
  <2>1. 0 \in P
    BY <1>7, <1>13
  <2>2. ASSUME NEW k \in 1..n, k - 1 \in P PROVE k \in P
    BY <1>8, <1>13, <2>2
  <2> HIDE DEF P
  <2>3. 0..n \subseteq P
    BY <2>1, <2>2, UpTo
  <2> QED BY <2>3 DEF P
<1>15. Deduplicate(tracks) = out[n]
  BY <1>10, <1>11, <1>14
<1> QED BY <1>1, <1>7, <1>8, <1>15 DEF S

LEMMA DeduplicateUnique ==
  ASSUME NEW T, NEW tracks \in Seq(T), NEW f, f[0] = <<>>, \A k \in 1..Len(tracks) : f[k] = Enter(f[k - 1], tracks[k])
  PROVE  Deduplicate(tracks) = f[Len(tracks)]
<1>1. PICK seen : /\ seen[0] = <<>> /\ \A k \in 1..Len(tracks) : seen[k] = Enter(seen[k - 1], tracks[k])
                  /\ Deduplicate(tracks) = seen[Len(tracks)]
  BY DeduplicateRuns
<1>2. PICK n \in Nat : n = Len(tracks)
  OBVIOUS
<1> DEFINE P == {k \in 0..n : seen[k] = f[k]}
<1>3. 0 \in P
  BY <1>1
<1>4. ASSUME NEW k \in 1..n, k - 1 \in P PROVE k \in P
  BY <1>1, <1>2, <1>4
<1> HIDE DEF P
<1>5. 0..n \subseteq P
  BY <1>3, <1>4, UpTo
<1> QED BY <1>1, <1>2, <1>5 DEF P

DistinctKeys(s) == \A i, j \in DOMAIN s : Key(s[i]) = Key(s[j]) => i = j
HasKey(s, track) == \E i \in DOMAIN s : Key(s[i]) = Key(track)

\* What is kept of the tracks: one of each key, the first.
LEMMA DeduplicateKeeps ==
  ASSUME NEW T, NEW tracks \in Seq(T)
  PROVE  /\ Deduplicate(tracks) \in Seq(T) /\ DistinctKeys(Deduplicate(tracks))
         /\ \A l \in 1..Len(tracks) : HasKey(Deduplicate(tracks), tracks[l])
         /\ \A l \in 1..Len(tracks) : (\A m \in 1..(l - 1) : Key(tracks[m]) # Key(tracks[l])) =>
                                        tracks[l] \in Range(Deduplicate(tracks))
<1>1. PICK seen : /\ seen \in [0..Len(tracks) -> Seq(T)] /\ seen[0] = <<>>
                  /\ \A k \in 1..Len(tracks) : seen[k] = Enter(seen[k - 1], tracks[k])
                  /\ Deduplicate(tracks) = seen[Len(tracks)]
  BY DeduplicateRuns
<1>2. PICK n \in Nat : n = Len(tracks)
  OBVIOUS
<1> DEFINE first(l) == \A m \in 1..(l - 1) : Key(tracks[m]) # Key(tracks[l])
           Kept(k) == /\ DistinctKeys(seen[k])
                      /\ \A l \in 1..k : HasKey(seen[k], tracks[l])
                      /\ \A i \in DOMAIN seen[k] : \E l \in 1..k : Key(tracks[l]) = Key(seen[k][i])
                      /\ \A l \in 1..k : first(l) => tracks[l] \in Range(seen[k])
           P == {k \in 0..n : Kept(k)}
<1>3. 0 \in P
  <2>1. DOMAIN seen[0] = {}
    BY <1>1
  <2> QED BY <2>1 DEF DistinctKeys
<1>4. ASSUME NEW k \in 1..n, k - 1 \in P PROVE k \in P
  <2>0. k - 1 \in 0..Len(tracks)
    BY <1>2
  <2>1. PICK s \in Seq(T) : s = seen[k - 1]
    BY <1>1, <2>0
  <2>2. PICK x \in T : x = tracks[k]
    BY <1>2
  <2>3. seen[k] = Enter(s, x)
    BY <1>1, <1>2, <2>1, <2>2
  <2>4. /\ DistinctKeys(s)
        /\ \A l \in 1..(k - 1) : HasKey(s, tracks[l])
        /\ \A i \in DOMAIN s : \E l \in 1..(k - 1) : Key(tracks[l]) = Key(s[i])
        /\ \A l \in 1..(k - 1) : first(l) => tracks[l] \in Range(s)
    BY <1>4, <2>1
  <2>5. first(k) => ~HasKey(s, x)
    BY <2>2, <2>4 DEF HasKey
  <2>6. \A l \in 1..k : l \in 1..(k - 1) \/ l = k
    OBVIOUS
  <2>7. \A l \in 1..(k - 1) : l \in 1..k
    OBVIOUS
  <2> HIDE DEF first
  <2>8. CASE HasKey(s, x)
    <3>1. seen[k] = s
      BY <2>3, <2>8 DEF Enter, HasKey
    <3>2. \A l \in 1..k : HasKey(s, tracks[l])
      BY <2>2, <2>4, <2>6, <2>8
    <3>3. \A l \in 1..k : first(l) => tracks[l] \in Range(s)
      BY <2>4, <2>5, <2>6, <2>8
    <3> QED BY <2>4, <2>7, <3>1, <3>2, <3>3
  <2>9. CASE ~HasKey(s, x)
    <3>1. PICK r : r = Append(s, x)
      OBVIOUS
    <3>2. seen[k] = r
      BY <2>3, <2>9, <3>1 DEF Enter, HasKey
    <3>3. DOMAIN r = DOMAIN s \cup {Len(s) + 1} /\ r[Len(s) + 1] = x /\ \A i \in DOMAIN s : r[i] = s[i]
      <4>1. /\ DOMAIN r = 1..(Len(s) + 1) /\ DOMAIN s = 1..Len(s) /\ Len(s) \in Nat
            /\ r[Len(s) + 1] = x /\ \A i \in 1..Len(s) : r[i] = s[i]
        BY <3>1, Appended
      <4> HIDE DEF P
      <4> QED BY <4>1
    <3>4. DistinctKeys(r)
      BY <2>4, <2>9, <3>3 DEF DistinctKeys, HasKey
    <3>5. \A l \in 1..k : HasKey(r, tracks[l])
      BY <2>2, <2>4, <2>6, <3>3 DEF HasKey
    <3>6. \A i \in DOMAIN r : \E l \in 1..k : Key(tracks[l]) = Key(r[i])
      <4>1. k \in 1..k
        OBVIOUS
      <4> QED BY <2>2, <2>4, <2>7, <3>3, <4>1
    <3>7. \A l \in 1..k : first(l) => tracks[l] \in Range(r)
      BY <2>2, <2>4, <2>6, <3>3 DEF Range
    <3> QED BY <3>2, <3>4, <3>5, <3>6, <3>7
  <2> QED BY <2>8, <2>9
<1> HIDE DEF P
<1>5. 0..n \subseteq P
  BY <1>3, <1>4, UpTo
<1>6. n \in P
  BY <1>5
<1>7. Kept(n)
  BY <1>6 DEF P
<1> QED BY <1>1, <1>2, <1>7

\* What is there already is not entered again.
LEMMA DeduplicateAgain ==
  ASSUME NEW T, NEW u \in Seq(T), NEW p \in Seq(T), DistinctKeys(u), \A l \in 1..Len(p) : HasKey(u, p[l])
  PROVE  Deduplicate(u \o p) = u
<1> DEFINE m == Len(u)
           t == u \o p
           f == [k \in 0..(m + Len(p)) |-> IF k <= m THEN [i \in 1..k |-> u[i]] ELSE u]
<1>1. t \in Seq(T) /\ Len(t) = m + Len(p) /\ m \in Nat /\ Len(p) \in Nat
  OBVIOUS
<1>2. f[0] = <<>>
  OBVIOUS
<1>6. [i \in 1..m |-> u[i]] = u
  OBVIOUS
<1>7. f[m] = u
  BY <1>1, <1>6
<1>3. ASSUME NEW k \in 1..Len(t) PROVE f[k] = Enter(f[k - 1], t[k])
  <2>1. CASE k <= m
    <3>1. t[k] = u[k] /\ u[k] \in T /\ k \in 1..m
      BY <1>1, <2>1
    <3>2. PICK s \in Seq(T) : s = [i \in 1..(k - 1) |-> u[i]]
      <4>1. \A i \in 1..(k - 1) : u[i] \in T
        BY <1>1, <2>1
      <4>2. [i \in 1..(k - 1) |-> u[i]] \in Seq(T)
        BY <4>1
      <4> QED BY <4>2
    <3>3. f[k - 1] = s /\ f[k] = [i \in 1..k |-> u[i]]
      BY <1>1, <2>1, <3>2
    <3>4. Len(s) = k - 1 /\ DOMAIN s = 1..(k - 1) /\ \A i \in 1..(k - 1) : s[i] = u[i]
      BY <3>2
    <3>5. ~\E i \in DOMAIN s : Key(s[i]) = Key(u[k])
      <4>1. DOMAIN u = 1..m
        OBVIOUS
      <4>2. \A i \in 1..(k - 1) : i \in 1..m /\ i # k
        BY <1>1, <2>1
      <4>3. \A i \in 1..(k - 1) : Key(u[i]) # Key(u[k])
        BY <3>1, <4>1, <4>2 DEF DistinctKeys
      <4> QED BY <3>4, <4>3
    <3>6. Append(s, u[k]) = [i \in 1..k |-> u[i]]
      BY <3>1, <3>4
    <3> HIDE DEF f, t
    <3> QED BY <3>1, <3>3, <3>5, <3>6 DEF Enter
  <2>2. CASE k > m
    <3>1. k - m \in 1..Len(p) /\ t[k] = p[k - m]
      BY <1>1, <2>2
    <3>2. f[k - 1] = u
      <4>1. CASE k - 1 = m
        <5> HIDE DEF f, t
        <5> QED BY <1>7, <4>1
      <4>2. CASE k - 1 > m
        BY <1>1, <4>2
      <4> QED BY <1>1, <2>2, <4>1, <4>2
    <3>3. f[k] = u
      BY <1>1, <2>2
    <3> HIDE DEF f, t
    <3> QED BY <3>1, <3>2, <3>3 DEF Enter, HasKey
  <2> QED BY <1>1, <2>1, <2>2
<1>4. f[Len(t)] = u
  <2>1. CASE Len(p) = 0
    <3>1. Len(t) = m
      BY <1>1, <2>1
    <3> QED BY <1>7, <3>1
  <2>2. CASE Len(p) # 0
    BY <1>1, <2>2
  <2> QED BY <2>1, <2>2
<1> HIDE DEF f
<1>5. Deduplicate(t) = f[Len(t)]
  BY <1>1, <1>2, <1>3, DeduplicateUnique
<1> QED BY <1>4, <1>5

LEMMA IngestedFields ==
  ASSUME NEW c, Ingested(c)
  PROVE  /\ \E n \in Nat : c.records \in [1..n -> Records]
         /\ c.result = Ingest(c.records) /\ c.tracks = Deduplicate(c.result.processed)
<1>1. PICK n \in 0..MaxBatch : \E records \in [1..n -> Records] :
        c = [fn |-> "ingest", records |-> records, result |-> Ingest(records), tracks |-> Deduplicate(Ingest(records).processed)]
  BY DEF Ingested
<1>2. n \in Nat
  BY CatalogAssumption
<1> QED BY <1>1, <1>2

\* The tracks have the key of every record that has not failed.
LEMMA IngestedKept ==
  ASSUME Answered(call), call.fn = "ingest", NEW k \in DOMAIN call.records, ~Failed(call.records[k])
  PROVE  /\ call.tracks \in Seq({Normalize(r) : r \in Records})
         /\ HasKey(call.tracks, Normalize(call.records[k]))
<1>0. PICK n \in Nat : call.records \in [1..n -> Records]
  BY AnswersByName, IngestedFields
<1>1. PICK records \in [1..n -> Records] : call.records = records
  BY <1>0
<1>2. PICK p : p = Ingest(records).processed /\ call.tracks = Deduplicate(p)
  BY <1>1, AnswersByName, IngestedFields
<1>3. p \in Seq({Normalize(r) : r \in Records}) /\ Normalize(records[k]) \in Range(p)
  <2>1. Ingest(records) \in Sorted /\ Accounted(Ingest(records), records, n)
    BY IngestKeeps
  <2>2. k \in 1..n
    BY <1>1
  <2> QED BY <1>1, <1>2, <2>1, <2>2 DEF Sorted, Accounted
<1>4. PICK T : T = {Normalize(r) : r \in Records}
  OBVIOUS
<1>5. Deduplicate(p) \in Seq(T) /\ \A l \in 1..Len(p) : HasKey(Deduplicate(p), p[l])
  BY <1>3, <1>4, DeduplicateKeeps
<1>6. PICK l \in 1..Len(p) : p[l] = Normalize(records[k])
  BY <1>3, <1>4 DEF Range
<1> QED BY <1>1, <1>2, <1>4, <1>5, <1>6

LEMMA RecordsKept ==
  ASSUME Answered(call)
  PROVE  NoRecordLost /\ IngestingTwiceAddsNothing
<1> SUFFICES ASSUME call.fn = "ingest"
             PROVE  /\ Len(call.result.processed) + Len(call.result.failed) = Len(call.records)
                    /\ \A k \in DOMAIN call.records :
                         Failed(call.records[k]) \/ Normalize(call.records[k]) \in Range(call.result.processed)
                    /\ Deduplicate(call.tracks \o call.result.processed) = call.tracks
                    /\ Deduplicate(call.tracks) = call.tracks
                    /\ \A k \in DOMAIN call.result.processed :
                         (\A l \in 1..(k - 1) : Key(call.result.processed[l]) # Key(call.result.processed[k]))
                           => call.result.processed[k] \in Range(call.tracks)
  BY DEF NoRecordLost, IngestingTwiceAddsNothing
<1>1. PICK n \in Nat : call.records \in [1..n -> Records]
  BY AnswersByName, IngestedFields
<1>2. call.result = Ingest(call.records) /\ call.tracks = Deduplicate(call.result.processed)
  BY AnswersByName, IngestedFields
<1> DEFINE records == call.records
           T == {Normalize(r) : r \in Records}
           p == call.result.processed
           u == call.tracks
<1>3. /\ Ingest(records) \in Sorted
      /\ Len(Ingest(records).processed) + Len(Ingest(records).failed) = n
      /\ \A k \in 1..n : Failed(records[k]) \/ Normalize(records[k]) \in Range(Ingest(records).processed)
  BY <1>1, IngestKeeps DEF Accounted
<1>4. Len(records) = n /\ DOMAIN records = 1..n
  BY <1>1
<1>5. p \in Seq(T)
  BY <1>2, <1>3 DEF Sorted
<1> HIDE DEF T, records
<1>6. u = Deduplicate(p)
  BY <1>2
<1> HIDE DEF p, u
<1>7. /\ u \in Seq(T) /\ DistinctKeys(u)
      /\ \A l \in 1..Len(p) : HasKey(u, p[l])
      /\ \A l \in 1..Len(p) : (\A m \in 1..(l - 1) : Key(p[m]) # Key(p[l])) => p[l] \in Range(u)
  BY <1>5, <1>6, DeduplicateKeeps
<1>8. Deduplicate(u \o p) = u
  BY <1>5, <1>7, DeduplicateAgain
<1>9. Deduplicate(u \o <<>>) = u
  <2>1. PICK none \in Seq(T) : none = <<>> /\ Len(none) = 0
    <3>1. <<>> \in Seq(T) /\ Len(<<>>) = 0
      OBVIOUS
    <3> QED BY <3>1
  <2>2. \A l \in 1..Len(none) : HasKey(u, none[l])
    BY <2>1
  <2>3. Deduplicate(u \o none) = u
    BY <1>7, <2>2, DeduplicateAgain
  <2> QED BY <2>1, <2>3
<1>10. u \o <<>> = u /\ DOMAIN p = 1..Len(p)
  BY <1>5, <1>7
<1> QED BY <1>2, <1>3, <1>4, <1>7, <1>8, <1>9, <1>10 DEF p, u, records

-----------------------------------------------------------------------------
(* Edit distance: the matrix *)

LEMMA LeastIs ==
  ASSUME NEW S \in SUBSET Nat, S # {}
  PROVE  Least(S) \in S /\ \A k \in S : Least(S) <= k
BY LeastExists DEF Least

\* A row of the matrix, under the row r.
IsRow(a, b, i, r, q) ==
  /\ q \in [0..Len(a) -> Nat] /\ q[0] = i
  /\ \A j \in 1..Len(a) :
       q[j] = IF b[i] = a[j] THEN r[j - 1] ELSE 1 + Least({r[j - 1], q[j - 1], r[j]})

\* The matrix by its rows.
Table(a, b, R) ==
  /\ R \in [0..Len(b) -> [0..Len(a) -> Nat]]
  /\ \A j \in 0..Len(a) : R[0][j] = j
  /\ \A i \in 1..Len(b) : IsRow(a, b, i, R[i - 1], R[i])

\* Catalog!NextRow and Catalog!Distance, as equations.
Cells(a, b, i, r, row) ==
  row = [j \in 0..Len(a) |-> IF j = 0 THEN i ELSE IF b[i] = a[j] THEN r[j - 1]
                             ELSE 1 + Least({r[j - 1], row[j - 1], r[j]})]

TableRows(a, b, matrix) ==
  matrix = [i \in 0..Len(b) |-> IF i = 0 THEN [j \in 0..Len(a) |-> j] ELSE NextRow(a, b, i, matrix[i - 1])]

LEMMA RowIs ==
  ASSUME NEW T, NEW a \in Seq(T), NEW b, NEW i \in Nat, NEW r \in [0..Len(a) -> Nat]
  PROVE  IsRow(a, b, i, r, NextRow(a, b, i, r))
<1>1. PICK n \in Nat : n = Len(a)
  OBVIOUS
<1> DEFINE next(j, x) == IF b[i] = a[j] THEN r[j - 1] ELSE 1 + Least({r[j - 1], x, r[j]})
           step == [j \in 1..n |-> [x \in Nat |-> next(j, x)]]
<1>2. ASSUME NEW j \in 1..n, NEW x \in Nat PROVE next(j, x) \in Nat
  <2>1. PICK y \in Nat, z \in Nat : y = r[j - 1] /\ z = r[j]
    BY <1>1
  <2>2. Least({y, x, z}) \in Nat
    BY LeastIs
  <2> QED BY <2>1, <2>2
<1>3. \A j \in 1..n, x \in Nat : step[j][x] = next(j, x)
  OBVIOUS
<1>4. step \in [1..n -> [Nat -> Nat]]
  <2> HIDE DEF next
  <2> QED BY <1>2
<1> HIDE DEF step
<1>5. PICK q : Grows(n, Nat, i, step, q)
  BY <1>4, StepByStep
<1>6. /\ q \in [0..n -> Nat] /\ q[0] = i
      /\ \A j \in 1..n : q[j - 1] \in Nat /\ q[j] = step[j][q[j - 1]]
  BY <1>5 DEF Grows
<1>7. \A j \in 1..n : q[j] = next(j, q[j - 1])
  BY <1>3, <1>6
<1>8. Cells(a, b, i, r, q)
  <2> HIDE DEF next
  <2>1. ASSUME NEW j \in 0..n PROVE q[j] = IF j = 0 THEN i ELSE next(j, q[j - 1])
    <3>1. CASE j = 0
      BY <1>6, <3>1
    <3>2. CASE j # 0
      <4>1. j \in 1..n
        BY <3>2
      <4> QED BY <1>7, <3>2, <4>1
    <3> QED BY <3>1, <3>2
  <2>2. q = [j \in 0..n |-> IF j = 0 THEN i ELSE next(j, q[j - 1])]
    BY <1>6, <2>1
  <2> QED BY <1>1, <2>2 DEF Cells, next
<1>9. PICK row : row = CHOOSE f : Cells(a, b, i, r, f)
  OBVIOUS
<1>10. NextRow(a, b, i, r) = row
  BY <1>9 DEF NextRow, Cells
<1>11. Cells(a, b, i, r, row)
  BY <1>8, <1>9
<1>12. \A j \in 0..n : row[j] = IF j = 0 THEN i ELSE next(j, row[j - 1])
  BY <1>1, <1>11 DEF Cells
<1> HIDE DEF next
<1>13. \A j \in 0..n : row[j] = q[j]
  <2> DEFINE P == {j \in 0..n : row[j] = q[j]}
  <2>1. 0 \in P
    <3>1. 0 \in 0..n /\ row[0] = i
      BY <1>12
    <3> QED BY <1>6, <3>1
  <2>2. ASSUME NEW j \in 1..n, j - 1 \in P PROVE j \in P
    BY <1>7, <1>12, <2>2
  <2> HIDE DEF P
  <2>3. 0..n \subseteq P
    BY <2>1, <2>2, UpTo
  <2> QED BY <2>3 DEF P
<1>14. row \in [0..n -> Nat]
  <2>1. DOMAIN row = 0..n /\ row = [j \in 0..n |-> row[j]]
    BY <1>1, <1>11 DEF Cells
  <2> QED BY <1>6, <1>13, <2>1
<1>15. row = q
  BY <1>6, <1>13, <1>14
<1> QED BY <1>1, <1>6, <1>7, <1>10, <1>15 DEF IsRow, next

LEMMA DistanceTable ==
  ASSUME NEW T, NEW a \in Seq(T), NEW b \in Seq(T)
  PROVE  \E R : Table(a, b, R) /\ Distance(a, b) = R[Len(b)][Len(a)]
<1>1. PICK m \in Nat : m = Len(b)
  OBVIOUS
<1> DEFINE OneRow == [0..Len(a) -> Nat]
           first == [j \in 0..Len(a) |-> j]
           step == [i \in 1..m |-> [r \in OneRow |-> NextRow(a, b, i, r)]]
<1>2. ASSUME NEW i \in 1..m, NEW r \in OneRow PROVE IsRow(a, b, i, r, NextRow(a, b, i, r)) /\ NextRow(a, b, i, r) \in OneRow
  <2>1. IsRow(a, b, i, r, NextRow(a, b, i, r))
    BY RowIs
  <2> QED BY <2>1 DEF IsRow
<1>3. first \in OneRow
  OBVIOUS
<1> HIDE DEF OneRow
<1>4. step \in [1..m -> [OneRow -> OneRow]]
  BY <1>2
<1>5. \A i \in 1..m, r \in OneRow : step[i][r] = NextRow(a, b, i, r)
  OBVIOUS
<1> HIDE DEF step
<1>6. PICK R : Grows(m, OneRow, first, step, R)
  <2> HIDE DEF first
  <2> QED BY <1>3, <1>4, StepByStep
<1>7. /\ R \in [0..m -> OneRow] /\ R[0] = first
      /\ \A i \in 1..m : R[i - 1] \in OneRow /\ R[i] = step[i][R[i - 1]]
  BY <1>6 DEF Grows
<1>8. ASSUME NEW i \in 1..m PROVE R[i] = NextRow(a, b, i, R[i - 1]) /\ IsRow(a, b, i, R[i - 1], R[i])
  <2>1. R[i - 1] \in OneRow /\ R[i] = step[i][R[i - 1]]
    BY <1>7
  <2>2. R[i] = NextRow(a, b, i, R[i - 1])
    BY <1>5, <2>1
  <2>3. IsRow(a, b, i, R[i - 1], NextRow(a, b, i, R[i - 1]))
    BY <1>2, <2>1
  <2> QED BY <2>2, <2>3, Zenon
<1>9. \A j \in 0..Len(a) : R[0][j] = j
  BY <1>7
<1>10. Table(a, b, R)
  BY <1>1, <1>7, <1>8, <1>9 DEF Table, OneRow
<1>11. TableRows(a, b, R)
  <2>1. \A i \in 0..m : R[i] = IF i = 0 THEN first ELSE NextRow(a, b, i, R[i - 1])
    BY <1>7, <1>8
  <2> HIDE DEF first
  <2>2. R = [i \in 0..m |-> IF i = 0 THEN first ELSE NextRow(a, b, i, R[i - 1])]
    BY <1>7, <2>1
  <2> QED BY <1>1, <2>2 DEF TableRows, first
<1>12. PICK M : M = CHOOSE f : TableRows(a, b, f)
  OBVIOUS
<1>13. TableRows(a, b, M)
  BY <1>11, <1>12
<1>14. Distance(a, b) = M[Len(b)][Len(a)]
  BY <1>12 DEF Distance, TableRows
<1>15. \A i \in 0..m : M[i] = IF i = 0 THEN first ELSE NextRow(a, b, i, M[i - 1])
  BY <1>1, <1>13 DEF TableRows
<1> HIDE DEF first
<1> DEFINE P == {i \in 0..m : M[i] = R[i]}
<1>16. 0 \in P
  BY <1>7, <1>15
<1>17. ASSUME NEW i \in 1..m, i - 1 \in P PROVE i \in P
  BY <1>8, <1>15, <1>17
<1> HIDE DEF P
<1>18. 0..m \subseteq P
  BY <1>16, <1>17, UpTo
<1>19. M[m] = R[m]
  BY <1>18 DEF P
<1> QED BY <1>1, <1>10, <1>14, <1>19

-----------------------------------------------------------------------------
(* Edit distance: a metric *)

\* A cell of the matrix, from the three before it.
Edited(same, d, x, y, z) ==
  IF same THEN d = x ELSE d \in {x + 1, y + 1, z + 1} /\ d <= x + 1 /\ d <= y + 1 /\ d <= z + 1

Near(x, y) == x <= y + 1 /\ y <= x + 1

Grid(a, b, m, n, R) ==
  /\ \A i \in 0..m, j \in 0..n : R[i][j] \in Nat
  /\ \A j \in 0..n : R[0][j] = j
  /\ \A i \in 0..m : R[i][0] = i
  /\ \A i \in 1..m, j \in 1..n : Edited(b[i] = a[j], R[i][j], R[i - 1][j - 1], R[i][j - 1], R[i - 1][j])

LEMMA TableIsGrid ==
  ASSUME NEW T, NEW a \in Seq(T), NEW b \in Seq(T), NEW R, Table(a, b, R)
  PROVE  Grid(a, b, Len(b), Len(a), R)
<1>1. PICK m \in Nat, n \in Nat : m = Len(b) /\ n = Len(a)
  OBVIOUS
<1>2. /\ R \in [0..m -> [0..n -> Nat]]
      /\ \A j \in 0..n : R[0][j] = j
      /\ \A i \in 1..m : R[i][0] = i
      /\ \A i \in 1..m, j \in 1..n :
           R[i][j] = IF b[i] = a[j] THEN R[i - 1][j - 1] ELSE 1 + Least({R[i - 1][j - 1], R[i][j - 1], R[i - 1][j]})
  BY <1>1 DEF Table, IsRow
<1>3. \A i \in 0..m, j \in 0..n : R[i][j] \in Nat
  BY <1>2
<1>4. \A i \in 0..m : R[i][0] = i
  <2>1. R[0][0] = 0
    BY <1>2
  <2>2. \A i \in 0..m : i = 0 \/ i \in 1..m
    OBVIOUS
  <2> QED BY <1>2, <2>1, <2>2
<1>5. ASSUME NEW i \in 1..m, NEW j \in 1..n
      PROVE  Edited(b[i] = a[j], R[i][j], R[i - 1][j - 1], R[i][j - 1], R[i - 1][j])
  <2>1. i \in 0..m /\ i - 1 \in 0..m /\ j \in 0..n /\ j - 1 \in 0..n
    OBVIOUS
  <2>2. PICK d \in Nat, x \in Nat, y \in Nat, z \in Nat :
          d = R[i][j] /\ x = R[i - 1][j - 1] /\ y = R[i][j - 1] /\ z = R[i - 1][j]
    BY <1>3, <2>1
  <2>3. CASE b[i] = a[j]
    BY <1>2, <2>2, <2>3 DEF Edited
  <2>4. CASE b[i] # a[j]
    <3>1. d = 1 + Least({x, y, z})
      BY <1>2, <2>2, <2>4
    <3>2. Least({x, y, z}) \in {x, y, z} /\ \A k \in {x, y, z} : Least({x, y, z}) <= k
      BY LeastIs
    <3>3. PICK l \in Nat : l = Least({x, y, z})
      BY <3>2
    <3>4. d \in {x + 1, y + 1, z + 1} /\ d <= x + 1 /\ d <= y + 1 /\ d <= z + 1
      BY <3>1, <3>2, <3>3
    <3> QED BY <2>2, <2>4, <3>4 DEF Edited
  <2> QED BY <2>3, <2>4
<1> QED BY <1>1, <1>2, <1>3, <1>4, <1>5 DEF Grid

LEMMA EditedNear ==
  ASSUME NEW same, NEW d \in Nat, NEW x \in Nat, NEW y \in Nat, NEW z \in Nat,
         Edited(same, d, x, y, z), Near(y, x), Near(z, x)
  PROVE  Near(d, y) /\ Near(d, z) /\ x <= d /\ d <= x + 1
BY DEF Edited, Near

Across(m, n, R) == \A i \in 0..m, j \in 1..n : Near(R[i][j], R[i][j - 1])
Down(m, n, R)   == \A i \in 1..m, j \in 0..n : Near(R[i][j], R[i - 1][j])
Aslant(m, n, R) == \A i \in 1..m, j \in 1..n : R[i - 1][j - 1] <= R[i][j] /\ R[i][j] <= R[i - 1][j - 1] + 1

LEMMA GridNear ==
  ASSUME NEW a, NEW b, NEW m \in Nat, NEW n \in Nat, NEW R, Grid(a, b, m, n, R)
  PROVE  Across(m, n, R) /\ Down(m, n, R) /\ Aslant(m, n, R)
<1> DEFINE across(i) == \A j \in 1..n : Near(R[i][j], R[i][j - 1])
           down(i, j) == Near(R[i][j], R[i - 1][j])
           aslant(i, j) == R[i - 1][j - 1] <= R[i][j] /\ R[i][j] <= R[i - 1][j - 1] + 1
           P == {i \in 0..m : across(i) /\ (i # 0 => (\A j \in 0..n : down(i, j)) /\ \A j \in 1..n : aslant(i, j))}
<1>1. \A i \in 0..m, j \in 0..n : R[i][j] \in Nat
  BY DEF Grid
<1>2. 0 \in P
  <2>1. \A j \in 1..n : j \in 0..n /\ j - 1 \in 0..n
    OBVIOUS
  <2>2. \A j \in 1..n : R[0][j] = j /\ R[0][j - 1] = j - 1
    BY <2>1 DEF Grid
  <2>3. across(0)
    BY <2>2 DEF Near
  <2> QED BY <2>3
<1>3. ASSUME NEW i \in 1..m, i - 1 \in P PROVE i \in P
  <2>1. across(i - 1) /\ i \in 0..m /\ i - 1 \in 0..m
    BY <1>3
  <2> DEFINE Q == {j \in 0..n : down(i, j) /\ (j # 0 => Near(R[i][j], R[i][j - 1]) /\ aslant(i, j))}
  <2>2. 0 \in Q
    <3>1. R[i][0] = i /\ R[i - 1][0] = i - 1
      BY <2>1 DEF Grid
    <3>2. down(i, 0)
      BY <3>1 DEF Near
    <3> QED BY <3>2
  <2>3. ASSUME NEW j \in 1..n, j - 1 \in Q PROVE j \in Q
    <3>1. down(i, j - 1) /\ j \in 0..n /\ j - 1 \in 0..n
      BY <2>3
    <3>2. PICK d \in Nat, x \in Nat, y \in Nat, z \in Nat :
            d = R[i][j] /\ x = R[i - 1][j - 1] /\ y = R[i][j - 1] /\ z = R[i - 1][j]
      BY <1>1, <2>1, <3>1
    <3>3. Edited(b[i] = a[j], d, x, y, z)
      BY <3>2 DEF Grid
    <3>4. Near(y, x) /\ Near(z, x)
      BY <2>1, <3>1, <3>2
    <3>5. Near(d, y) /\ Near(d, z) /\ x <= d /\ d <= x + 1
      BY <3>3, <3>4, EditedNear
    <3>6. down(i, j) /\ Near(R[i][j], R[i][j - 1]) /\ aslant(i, j)
      BY <3>2, <3>5
    <3> HIDE DEF down, aslant
    <3> QED BY <3>1, <3>6
  <2> HIDE DEF Q
  <2>4. 0..n \subseteq Q
    BY <2>2, <2>3, UpTo
  <2>5. (\A j \in 0..n : down(i, j)) /\ \A j \in 1..n : Near(R[i][j], R[i][j - 1]) /\ aslant(i, j)
    <3> HIDE DEF down, aslant
    <3>1. \A j \in 1..n : j \in 0..n /\ j # 0
      OBVIOUS
    <3> QED BY <2>4, <3>1 DEF Q
  <2> HIDE DEF down, aslant
  <2> QED BY <2>1, <2>5
<1> HIDE DEF P
<1>4. 0..m \subseteq P
  BY <1>2, <1>3, UpTo
<1>5. Across(m, n, R)
  BY <1>4 DEF P, Across
<1>6. \A i \in 1..m : i \in 0..m /\ i # 0
  OBVIOUS
<1>7. \A i \in 1..m : (\A j \in 0..n : down(i, j)) /\ \A j \in 1..n : aslant(i, j)
  <2> HIDE DEF down, aslant, across
  <2> QED BY <1>4, <1>6 DEF P
<1>8. Down(m, n, R) /\ Aslant(m, n, R)
  BY <1>7 DEF Down, Aslant
<1> QED BY <1>5, <1>8

\* Between the difference and the larger of the lengths.
LEMMA GridBounds ==
  ASSUME NEW a, NEW b, NEW m \in Nat, NEW n \in Nat, NEW R, Grid(a, b, m, n, R)
  PROVE  \A i \in 0..m, j \in 0..n :
           R[i][j] \in Nat /\ (R[i][j] <= i \/ R[i][j] <= j) /\ i <= R[i][j] + j /\ j <= R[i][j] + i
<1> DEFINE fits(i, j) == (R[i][j] <= i \/ R[i][j] <= j) /\ i <= R[i][j] + j /\ j <= R[i][j] + i
           P == {i \in 0..m : \A j \in 0..n : fits(i, j)}
<1>1. \A i \in 0..m, j \in 0..n : R[i][j] \in Nat
  BY DEF Grid
<1>2. 0 \in P
  BY DEF Grid
<1>3. ASSUME NEW i \in 1..m, i - 1 \in P PROVE i \in P
  <2>1. i \in 0..m /\ i - 1 \in 0..m /\ \A j \in 0..n : fits(i - 1, j)
    BY <1>3
  <2>2. ASSUME NEW j \in 0..n PROVE fits(i, j)
    <3>1. CASE j = 0
      BY <2>1, <3>1 DEF Grid
    <3>2. CASE j # 0
      <4>1. j \in 1..n /\ j - 1 \in 0..n
        BY <3>2
      <4>2. PICK d \in Nat, x \in Nat : d = R[i][j] /\ x = R[i - 1][j - 1]
        BY <1>1, <2>1, <4>1
      <4>3. x <= d /\ d <= x + 1
        BY <4>1, <4>2, GridNear DEF Aslant
      <4>4. (x <= i - 1 \/ x <= j - 1) /\ i - 1 <= x + (j - 1) /\ j - 1 <= x + (i - 1)
        BY <2>1, <4>1, <4>2
      <4>5. (d <= i \/ d <= j) /\ i <= d + j /\ j <= d + i
        BY <4>3, <4>4
      <4> QED BY <4>2, <4>5
    <3> QED BY <3>1, <3>2
  <2> HIDE DEF fits
  <2> QED BY <2>1, <2>2
<1> HIDE DEF P
<1>4. 0..m \subseteq P
  BY <1>2, <1>3, UpTo
<1> QED BY <1>1, <1>4 DEF P

\* Nothing is edited just when nothing differs.
LEMMA GridZero ==
  ASSUME NEW a, NEW b, NEW m \in Nat, NEW n \in Nat, NEW R, Grid(a, b, m, n, R)
  PROVE  R[m][n] = 0 <=> m = n /\ \A k \in 1..n : b[k] = a[k]
<1> DEFINE alike(i) == \A k \in 1..i : b[k] = a[k]
           P == {i \in 0..m : \A j \in 0..n : R[i][j] = 0 => j = i /\ alike(i)}
           Q == {i \in 0..m : i <= n /\ alike(i) => R[i][i] = 0}
<1>1. \A i \in 0..m, j \in 0..n : R[i][j] \in Nat
  BY DEF Grid
<1>2. 0 \in P /\ 0 \in Q
  BY DEF Grid
<1>3. ASSUME NEW i \in 1..m, i - 1 \in P PROVE i \in P
  <2>1. i \in 0..m /\ i - 1 \in 0..m /\ i # 0
    OBVIOUS
  <2>2. ASSUME NEW j \in 0..n, R[i][j] = 0 PROVE j = i /\ alike(i)
    <3>1. j # 0
      BY <2>1, <2>2 DEF Grid
    <3>2. j \in 1..n /\ j - 1 \in 0..n
      BY <3>1
    <3>3. PICK d \in Nat, x \in Nat, y \in Nat, z \in Nat :
            d = R[i][j] /\ x = R[i - 1][j - 1] /\ y = R[i][j - 1] /\ z = R[i - 1][j]
      BY <1>1, <2>1, <3>2
    <3>4. Edited(b[i] = a[j], d, x, y, z)
      BY <3>2, <3>3 DEF Grid
    <3>5. b[i] = a[j] /\ x = 0
      BY <2>2, <3>3, <3>4 DEF Edited
    <3>6. j - 1 = i - 1 /\ alike(i - 1)
      BY <1>3, <3>2, <3>3, <3>5
    <3>7. j = i
      BY <3>6
    <3>8. \A k \in 1..i : k = i \/ k \in 1..(i - 1)
      OBVIOUS
    <3> QED BY <3>5, <3>6, <3>7, <3>8
  <2> HIDE DEF alike
  <2> QED BY <2>1, <2>2
<1>4. ASSUME NEW i \in 1..m, i - 1 \in Q PROVE i \in Q
  <2>1. i \in 0..m /\ i - 1 \in 0..m
    OBVIOUS
  <2>2. ASSUME i <= n, alike(i) PROVE R[i][i] = 0
    <3>1. i \in 1..n /\ i - 1 \in 0..n /\ i - 1 <= n
      BY <2>2
    <3>2. alike(i - 1) /\ b[i] = a[i]
      BY <2>2
    <3>3. R[i - 1][i - 1] = 0
      BY <1>4, <3>1, <3>2
    <3>4. Edited(b[i] = a[i], R[i][i], R[i - 1][i - 1], R[i][i - 1], R[i - 1][i])
      BY <3>1 DEF Grid
    <3> QED BY <3>2, <3>3, <3>4 DEF Edited
  <2> QED BY <2>1, <2>2
<1> HIDE DEF P, Q
<1>5. 0..m \subseteq P
  BY <1>2, <1>3, UpTo
<1>6. 0..m \subseteq Q
  BY <1>2, <1>4, UpTo
<1>7. R[m][n] = 0 => m = n /\ alike(m)
  BY <1>5 DEF P
<1>8. m = n /\ alike(m) => R[m][n] = 0
  BY <1>6 DEF Q
<1> QED BY <1>7, <1>8

\* The way back is as long.
LEMMA GridBack ==
  ASSUME NEW a, NEW b, NEW m \in Nat, NEW n \in Nat, NEW R, NEW U, Grid(a, b, m, n, R), Grid(b, a, n, m, U)
  PROVE  R[m][n] = U[n][m]
<1> DEFINE same(i, j) == R[i][j] = U[j][i]
           P == {i \in 0..m : \A j \in 0..n : same(i, j)}
<1>1. /\ \A i \in 0..m, j \in 0..n : R[i][j] \in Nat
      /\ \A i \in 0..m, j \in 0..n : U[j][i] \in Nat
  BY DEF Grid
<1>2. 0 \in P
  BY DEF Grid
<1>3. ASSUME NEW i \in 1..m, i - 1 \in P PROVE i \in P
  <2>1. i \in 0..m /\ i - 1 \in 0..m /\ \A j \in 0..n : same(i - 1, j)
    BY <1>3
  <2> DEFINE Q == {j \in 0..n : same(i, j)}
  <2>2. 0 \in Q
    BY <2>1 DEF Grid
  <2>3. ASSUME NEW j \in 1..n, j - 1 \in Q PROVE j \in Q
    <3>1. j \in 0..n /\ j - 1 \in 0..n /\ same(i, j - 1)
      BY <2>3
    <3>2. PICK d \in Nat, x \in Nat, y \in Nat, z \in Nat :
            d = R[i][j] /\ x = R[i - 1][j - 1] /\ y = R[i][j - 1] /\ z = R[i - 1][j]
      BY <1>1, <2>1, <3>1
    <3>3. Edited(b[i] = a[j], d, x, y, z)
      BY <3>2 DEF Grid
    <3>4. PICK e \in Nat : e = U[j][i]
      BY <1>1, <2>1, <3>1
    <3>5. U[j - 1][i - 1] = x /\ U[j][i - 1] = z /\ U[j - 1][i] = y
      BY <2>1, <3>1, <3>2
    <3>6. Edited(a[j] = b[i], e, x, z, y)
      BY <3>4, <3>5 DEF Grid
    <3>7. d = e
      BY <3>3, <3>6 DEF Edited
    <3> QED BY <3>1, <3>2, <3>4, <3>7
  <2> HIDE DEF Q
  <2>4. 0..n \subseteq Q
    BY <2>2, <2>3, UpTo
  <2> QED BY <2>1, <2>4 DEF Q
<1> HIDE DEF P
<1>4. 0..m \subseteq P
  BY <1>2, <1>3, UpTo
<1> QED BY <1>4 DEF P

\* What the induction knows of one entry of each of the three tables, r, u and v, and of the
\* entries next to it, when the last letters of the three strings are o, p and q.
Crossing(o, p, q, r, r1, r2, r3, u, u1, u2, u3, v, v1, v2, v3) ==
  /\ {r, r1, r2, r3, u, u1, u2, u3, v, v1, v2, v3} \subseteq Nat
  /\ Edited(o = p, r, r1, r2, r3) /\ Edited(q = p, u, u1, u2, u3) /\ Edited(o = q, v, v1, v2, v3)
  /\ r <= r1 + 1 /\ r <= r2 + 1 /\ r <= r3 + 1 /\ u3 <= u + 1 /\ v2 <= v + 1
  /\ r1 <= u1 + v1 /\ r2 <= u2 + v /\ r3 <= u + v3 /\ r <= u3 + v2

LEMMA NoDetour ==
  ASSUME NEW r, NEW r1, NEW r2, NEW r3, NEW u, NEW u1, NEW u2, NEW u3, NEW v, NEW v1, NEW v2, NEW v3,
         NEW p, NEW q, NEW o, Crossing(o, p, q, r, r1, r2, r3, u, u1, u2, u3, v, v1, v2, v3)
  PROVE  r <= u + v
<1>0. /\ r \in Nat /\ r1 \in Nat /\ r2 \in Nat /\ r3 \in Nat /\ u \in Nat /\ u1 \in Nat /\ u2 \in Nat
      /\ u3 \in Nat /\ v \in Nat /\ v1 \in Nat /\ v2 \in Nat /\ v3 \in Nat
  BY Zenon DEF Crossing
<1>a. Edited(o = p, r, r1, r2, r3) /\ Edited(q = p, u, u1, u2, u3) /\ Edited(o = q, v, v1, v2, v3)
  BY Zenon DEF Crossing
<1>b. /\ r <= r1 + 1 /\ r <= r2 + 1 /\ r <= r3 + 1 /\ u3 <= u + 1 /\ v2 <= v + 1
      /\ r1 <= u1 + v1 /\ r2 <= u2 + v /\ r3 <= u + v3 /\ r <= u3 + v2
  BY Zenon DEF Crossing
<1>1. CASE u = u2 + 1 \/ v = v3 + 1
  BY <1>0, <1>b, <1>1
<1>2. CASE u = u3 + 1 \/ v = v2 + 1
  BY <1>0, <1>b, <1>2
<1>3. CASE ((q = p /\ u = u1) \/ u = u1 + 1) /\ ((o = q /\ v = v1) \/ v = v1 + 1)
  <2>1. CASE q = p /\ u = u1 /\ o = q /\ v = v1
    <3>1. r = r1
      BY <1>0, <1>a, <2>1 DEF Edited
    <3> QED BY <1>0, <1>b, <2>1, <3>1
  <2>2. CASE u = u1 + 1 /\ (v = v1 \/ v = v1 + 1)
    BY <1>0, <1>b, <2>2
  <2>3. CASE u = u1 /\ v = v1 + 1
    BY <1>0, <1>b, <2>3
  <2> QED BY <1>3, <2>1, <2>2, <2>3
<1>4. (q = p /\ u = u1) \/ u = u1 + 1 \/ u = u2 + 1 \/ u = u3 + 1
  BY <1>0, <1>a DEF Edited
<1>5. (o = q /\ v = v1) \/ v = v1 + 1 \/ v = v2 + 1 \/ v = v3 + 1
  BY <1>0, <1>a DEF Edited
<1> QED BY <1>1, <1>2, <1>3, <1>4, <1>5

\* No detour is shorter.
LEMMA GridTriangle ==
  ASSUME NEW a, NEW b, NEW c, NEW m \in Nat, NEW n \in Nat, NEW l \in Nat, NEW R, NEW U, NEW V,
         Grid(a, b, m, n, R), Grid(a, c, l, n, U), Grid(c, b, m, l, V)
  PROVE  R[m][n] <= U[l][n] + V[m][l]
<1> DEFINE short(i, j, k) == R[i][j] <= U[k][j] + V[i][k]
           P == {s \in 0..(m + n + l) : \A i \in 0..m, j \in 0..n, k \in 0..l : i + j + k <= s => short(i, j, k)}
<1>1. /\ \A i \in 0..m, j \in 0..n : R[i][j] \in Nat
      /\ \A k \in 0..l, j \in 0..n : U[k][j] \in Nat
      /\ \A i \in 0..m, k \in 0..l : V[i][k] \in Nat
  BY DEF Grid
<1>2. ASSUME NEW i \in 0..m, NEW j \in 0..n, NEW k \in 0..l, i = 0 \/ j = 0 \/ k = 0 PROVE short(i, j, k)
  <2>1. PICK r \in Nat, u \in Nat, v \in Nat : r = R[i][j] /\ u = U[k][j] /\ v = V[i][k]
    BY <1>1
  <2>2. /\ (r <= i \/ r <= j) /\ i <= r + j /\ j <= r + i
        /\ (u <= k \/ u <= j) /\ k <= u + j /\ j <= u + k
        /\ (v <= i \/ v <= k) /\ i <= v + k /\ k <= v + i
    BY <2>1, GridBounds
  <2>3. r <= u + v
    BY <1>2, <2>2
  <2> QED BY <2>1, <2>3
<1>3. 0 \in P
  <2>1. \A i \in 0..m, j \in 0..n, k \in 0..l : i + j + k <= 0 => i = 0
    OBVIOUS
  <2> HIDE DEF short
  <2> QED BY <1>2, <2>1
<1>4. ASSUME NEW s \in 1..(m + n + l), s - 1 \in P PROVE s \in P
  <2>1. ASSUME NEW i \in 0..m, NEW j \in 0..n, NEW k \in 0..l, i + j + k <= s PROVE short(i, j, k)
    <3>1. CASE i = 0 \/ j = 0 \/ k = 0
      BY <1>2, <3>1
    <3>2. CASE i # 0 /\ j # 0 /\ k # 0
      <4>1. /\ i \in 1..m /\ j \in 1..n /\ k \in 1..l /\ i - 1 \in 0..m /\ j - 1 \in 0..n /\ k - 1 \in 0..l
            /\ (i - 1) + (j - 1) + (k - 1) <= s - 1 /\ i + (j - 1) + k <= s - 1
            /\ (i - 1) + j + k <= s - 1 /\ i + j + (k - 1) <= s - 1
        BY <2>1, <3>2
      <4>2. PICK r \in Nat, r1 \in Nat, r2 \in Nat, r3 \in Nat :
              r = R[i][j] /\ r1 = R[i - 1][j - 1] /\ r2 = R[i][j - 1] /\ r3 = R[i - 1][j]
        BY <1>1, <4>1
      <4>3. PICK u \in Nat, u1 \in Nat, u2 \in Nat, u3 \in Nat :
              u = U[k][j] /\ u1 = U[k - 1][j - 1] /\ u2 = U[k][j - 1] /\ u3 = U[k - 1][j]
        BY <1>1, <4>1
      <4>4. PICK v \in Nat, v1 \in Nat, v2 \in Nat, v3 \in Nat :
              v = V[i][k] /\ v1 = V[i - 1][k - 1] /\ v2 = V[i][k - 1] /\ v3 = V[i - 1][k]
        BY <1>1, <4>1
      <4>5. Edited(b[i] = a[j], r, r1, r2, r3)
        BY <4>1, <4>2 DEF Grid
      <4>6. Edited(c[k] = a[j], u, u1, u2, u3)
        BY <4>1, <4>3 DEF Grid
      <4>7. Edited(b[i] = c[k], v, v1, v2, v3)
        BY <4>1, <4>4 DEF Grid
      <4>8. r <= r1 + 1 /\ r <= r2 + 1 /\ r <= r3 + 1
        BY <4>1, <4>2, GridNear DEF Across, Down, Aslant, Near
      <4>9. u3 <= u + 1
        BY <4>1, <4>3, GridNear DEF Down, Near
      <4>10. v2 <= v + 1
        BY <4>1, <4>4, GridNear DEF Across, Near
      <4>11. short(i - 1, j - 1, k - 1) /\ short(i, j - 1, k) /\ short(i - 1, j, k) /\ short(i, j, k - 1)
        <5> HIDE DEF short
        <5> QED BY <1>4, <4>1
      <4>12. r1 <= u1 + v1 /\ r2 <= u2 + v /\ r3 <= u + v3 /\ r <= u3 + v2
        BY <4>2, <4>3, <4>4, <4>11
      <4>13. {r, r1, r2, r3, u, u1, u2, u3, v, v1, v2, v3} \subseteq Nat
        OBVIOUS
      <4>14. Crossing(b[i], a[j], c[k], r, r1, r2, r3, u, u1, u2, u3, v, v1, v2, v3)
        BY <4>5, <4>6, <4>7, <4>8, <4>9, <4>10, <4>12, <4>13, Zenon DEF Crossing
      <4>15. r <= u + v
        BY <4>14, NoDetour
      <4> QED BY <4>2, <4>3, <4>4, <4>15
    <3> QED BY <3>1, <3>2
  <2>2. s \in 0..(m + n + l)
    OBVIOUS
  <2> HIDE DEF short
  <2> QED BY <2>1, <2>2
<1>5. m + n + l \in P
  <2>1. m + n + l \in Nat
    OBVIOUS
  <2> HIDE DEF P
  <2>2. 0..(m + n + l) \subseteq P
    BY <1>3, <1>4, <2>1, UpTo
  <2> QED BY <2>1, <2>2
<1>6. short(m, n, l)
  <2>1. m \in 0..m /\ n \in 0..n /\ l \in 0..l /\ m + n + l <= m + n + l
    OBVIOUS
  <2> HIDE DEF short
  <2> QED BY <1>5, <2>1
<1> QED BY <1>6

-----------------------------------------------------------------------------
(* Titles and catalogs *)

LEMMA DistanceIs ==
  ASSUME NEW T, NEW a \in Seq(T), NEW b \in Seq(T), NEW c \in Seq(T)
  PROVE  /\ Distance(a, b) \in Nat /\ (Distance(a, b) = 0 <=> a = b)
         /\ Distance(a, b) = Distance(b, a)
         /\ Distance(a, b) <= IF Len(a) > Len(b) THEN Len(a) ELSE Len(b)
         /\ Distance(a, b) <= Distance(a, c) + Distance(c, b)
<1>1. PICK n \in Nat, m \in Nat, l \in Nat : n = Len(a) /\ m = Len(b) /\ l = Len(c)
  OBVIOUS
<1>2. PICK R : Table(a, b, R) /\ Distance(a, b) = R[m][n]
  BY <1>1, DistanceTable
<1>3. PICK S : Table(b, a, S) /\ Distance(b, a) = S[n][m]
  BY <1>1, DistanceTable
<1>4. PICK U : Table(a, c, U) /\ Distance(a, c) = U[l][n]
  BY <1>1, DistanceTable
<1>5. PICK V : Table(c, b, V) /\ Distance(c, b) = V[m][l]
  BY <1>1, DistanceTable
<1>6. Grid(a, b, m, n, R) /\ Grid(b, a, n, m, S) /\ Grid(a, c, l, n, U) /\ Grid(c, b, m, l, V)
  BY <1>1, <1>2, <1>3, <1>4, <1>5, TableIsGrid
<1>7. Distance(a, b) \in Nat /\ (Distance(a, b) <= m \/ Distance(a, b) <= n)
  <2>1. m \in 0..m /\ n \in 0..n
    OBVIOUS
  <2>2. R[m][n] \in Nat
    BY <1>6, <2>1 DEF Grid
  <2>3. R[m][n] <= m \/ R[m][n] <= n
    BY <1>6, <2>1, GridBounds
  <2> QED BY <1>2, <2>2, <2>3
<1>8. Distance(a, b) <= IF n > m THEN n ELSE m
  BY <1>7
<1>9. Distance(a, b) = Distance(b, a)
  BY <1>2, <1>3, <1>6, GridBack
<1>10. Distance(a, b) <= Distance(a, c) + Distance(c, b)
  BY <1>2, <1>4, <1>5, <1>6, GridTriangle
<1>11. Distance(a, b) = 0 <=> m = n /\ \A k \in 1..n : b[k] = a[k]
  BY <1>2, <1>6, GridZero
<1>12. (m = n /\ \A k \in 1..n : b[k] = a[k]) <=> a = b
  BY <1>1
<1> QED BY <1>1, <1>7, <1>8, <1>9, <1>10, <1>11, <1>12

LEMMA Metric ==
  ASSUME Answered(call)
  PROVE  DistanceIsMetric
<1> SUFFICES ASSUME call.fn = "editDistance"
             PROVE  /\ call.distance = 0 <=> call.a = call.b
                    /\ call.distance = Distance(call.b, call.a)
                    /\ call.distance <= IF Len(call.a) > Len(call.b) THEN Len(call.a) ELSE Len(call.b)
                    /\ \A c \in Strings : call.distance <= Distance(call.a, c) + Distance(c, call.b)
  BY DEF DistanceIsMetric
<1>1. PICK a \in Strings, b \in Strings : call = [fn |-> "editDistance", a |-> a, b |-> b, distance |-> Distance(a, b)]
  BY AnswersByName DEF Compared
<1>2. call.a = a /\ call.b = b /\ call.distance = Distance(a, b)
  BY <1>1
<1>3. \A c \in Strings : /\ (Distance(a, b) = 0 <=> a = b) /\ Distance(a, b) = Distance(b, a)
                         /\ Distance(a, b) <= IF Len(a) > Len(b) THEN Len(a) ELSE Len(b)
                         /\ Distance(a, b) <= Distance(a, c) + Distance(c, b)
  <2> SUFFICES ASSUME NEW c \in Strings
               PROVE  /\ (Distance(a, b) = 0 <=> a = b) /\ Distance(a, b) = Distance(b, a)
                      /\ Distance(a, b) <= IF Len(a) > Len(b) THEN Len(a) ELSE Len(b)
                      /\ Distance(a, b) <= Distance(a, c) + Distance(c, b)
    OBVIOUS
  <2>1. a \in Seq(Characters) /\ b \in Seq(Characters) /\ c \in Seq(Characters)
    BY CatalogAssumption
  <2> QED BY <2>1, DistanceIs
<1> QED BY <1>2, <1>3

\* Only what is the same is as similar as can be.
LEMMA SimilarityIs ==
  ASSUME NEW T, NEW a \in Seq(T), NEW b \in Seq(T)
  PROVE  Similarity(a, b) \in 0..60 /\ (Similarity(a, b) = 60 <=> a = b)
<1>1. CASE a = b
  BY <1>1 DEF Similarity
<1>2. CASE a # b /\ (a = <<>> \/ b = <<>>)
  BY <1>2 DEF Similarity
<1>3. CASE a # b /\ ~(a = <<>> \/ b = <<>>)
  <2>1. PICK k \in Nat : k = IF Len(a) > Len(b) THEN Len(a) ELSE Len(b)
    OBVIOUS
  <2>2. k # 0
    BY <1>3, <2>1
  <2>3. PICK d \in Nat : d = Distance(a, b) /\ d # 0 /\ d <= k
    BY <1>3, <2>1, DistanceIs
  <2>4. Similarity(a, b) = (60 * (k - d)) \div k
    BY <1>3, <2>1, <2>3 DEF Similarity
  <2>5. PICK q \in Int : q = (60 * (k - d)) \div k /\ k * q <= 60 * (k - d) /\ 60 * (k - d) < k * q + k
    <3>1. PICK x \in Nat : x = 60 * (k - d)
      BY <2>3
    <3>2. PICK q \in Int : q = x \div k /\ k * q <= x /\ x < k * q + k
      BY <2>2, DivIs
    <3> QED BY <3>1, <3>2
  <2>6. q < 60
    <3>1. CASE 60 <= q
      <4>1. k * 60 <= k * q
        BY <3>1, MulLeq
      <4>2. PICK e \in Int : e = k * q
        BY <2>5
      <4>3. e <= 60 * (k - d)
        BY <2>5, <4>2, Zenon
      <4>4. k * 60 <= e
        BY <4>1, <4>2, Zenon
      <4> QED BY <2>3, <4>3, <4>4
    <3> QED BY <2>5, <3>1
  <2>7. 0 <= q
    <3>1. CASE q <= -1
      <4>1. k * q <= k * (-1)
        BY <3>1, MulLeq
      <4>2. PICK e \in Int : e = k * q
        BY <2>5
      <4>3. 60 * (k - d) < e + k
        BY <2>5, <4>2, Zenon
      <4>4. e <= k * (-1)
        BY <4>1, <4>2
      <4> QED BY <2>3, <4>3, <4>4
    <3> QED BY <2>5, <3>1
  <2> QED BY <1>3, <2>4, <2>5, <2>6, <2>7
<1> QED BY <1>1, <1>2, <1>3

LEMMA LowerIs ==
  ASSUME NEW s \in Seq(Characters)
  PROVE  LowerCase(s) \in Seq(Characters) /\ Len(LowerCase(s)) = Len(s)
BY CharacterAssumption DEF LowerCase

LEMMA CombinedIs ==
  ASSUME NEW q \in Wanted, NEW r \in Wanted
  PROVE  /\ Combined(q.title, q.artist, r) \in 0..600
         /\ Combined(q.title, q.artist, r) = 600 <=> SameWords(r, q)
<1>1. /\ q.title \in Seq(Characters) /\ q.artist \in Seq(Characters)
      /\ r.title \in Seq(Characters) /\ r.artist \in Seq(Characters)
  BY CatalogAssumption
<1>2. PICK a \in Seq(Characters), b \in Seq(Characters), c \in Seq(Characters), d \in Seq(Characters) :
        a = LowerCase(q.title) /\ b = LowerCase(q.artist) /\ c = LowerCase(r.title) /\ d = LowerCase(r.artist)
  BY <1>1, LowerIs
<1>3. PICK s \in 0..60, t \in 0..60 : s = Similarity(a, c) /\ t = Similarity(b, d)
  BY SimilarityIs
<1>4. (s = 60 <=> a = c) /\ (t = 60 <=> b = d)
  BY <1>3, SimilarityIs
<1>5. Combined(q.title, q.artist, r) = 6 * s + 4 * t
  BY <1>2, <1>3 DEF Combined
<1>6. 6 * s + 4 * t \in 0..600 /\ (6 * s + 4 * t = 600 <=> s = 60 /\ t = 60)
  OBVIOUS
<1>7. SameWords(r, q) <=> c = a /\ d = b
  BY <1>2 DEF SameWords
<1> QED BY <1>4, <1>5, <1>6, <1>7

LEMMA ExactFound ==
  ASSUME Answered(call)
  PROVE  ExactTrackFound
<1> SUFFICES ASSUME call.fn = "fuzzyMatch", NEW k \in DOMAIN call.catalog,
                    SameWords(call.catalog[k], [title |-> call.title, artist |-> call.artist])
             PROVE  call.match # 0 /\ SameWords(call.catalog[call.match], call.catalog[k])
  BY DEF ExactTrackFound
<1>1. PICK catalog \in Entries, q \in Wanted :
        call = [fn |-> "fuzzyMatch", title |-> q.title, artist |-> q.artist, catalog |-> catalog,
                match |-> FuzzyMatch(q.title, q.artist, catalog)]
  BY AnswersByName DEF Matched
<1>2. call.catalog = catalog /\ call.title = q.title /\ call.artist = q.artist /\ call.match = FuzzyMatch(q.title, q.artist, catalog)
  BY <1>1
<1>3. catalog \in Seq(Wanted) /\ q = [title |-> q.title, artist |-> q.artist]
  BY CatalogAssumption
<1>4. \A l \in DOMAIN catalog : catalog[l] \in Wanted /\ l \in Nat /\ l # 0
  BY <1>3
<1> DEFINE score(l) == Combined(q.title, q.artist, catalog[l])
           best == {l \in DOMAIN catalog : score(l) >= Threshold /\ \A o \in DOMAIN catalog : score(o) <= score(l)}
<1>5. SameWords(catalog[k], q) /\ k \in DOMAIN catalog
  BY <1>2, <1>3
<1>6. \A l \in DOMAIN catalog : score(l) \in 0..600 /\ (score(l) = 600 <=> SameWords(catalog[l], q))
  BY <1>4, CombinedIs
<1>7. k \in best
  <2>1. score(k) = 600
    BY <1>5, <1>6
  <2> HIDE DEF score
  <2> QED BY <1>5, <1>6, <2>1 DEF Threshold
<1>8. FuzzyMatch(q.title, q.artist, catalog) = Least(best)
  BY <1>7 DEF FuzzyMatch
<1>9. best \in SUBSET Nat
  BY <1>4
<1>10. Least(best) \in best
  <2> HIDE DEF best
  <2> QED BY <1>7, <1>9, LeastIs
<1>11. PICK l \in DOMAIN catalog : l = Least(best) /\ score(k) <= score(l)
  <2> HIDE DEF score
  <2> QED BY <1>5, <1>10
<1>12. score(l) = 600
  <2>1. score(k) = 600 /\ score(l) \in 0..600
    BY <1>5, <1>6
  <2> HIDE DEF score
  <2> QED BY <1>11, <2>1
<1>13. SameWords(catalog[l], q) /\ l # 0
  BY <1>4, <1>6, <1>12
<1>14. SameWords(catalog[l], catalog[k])
  BY <1>5, <1>13 DEF SameWords
<1> QED BY <1>2, <1>8, <1>11, <1>13, <1>14

-----------------------------------------------------------------------------
(* What becomes of a record *)

Coded == Seq(Characters \ {Bar})

\* Catalog!Code, as an equation.
Encodes(s, upTo) ==
  upTo = [k \in 0..Len(s) |-> IF k = 0 THEN <<>>
                              ELSE IF s[k] \in Codes THEN Append(upTo[k - 1], Upper[s[k]]) ELSE upTo[k - 1]]

\* Of an ISRC no bar is left.
LEMMA CodeIs ==
  ASSUME NEW s \in Seq(Characters)
  PROVE  Code(s) \in Coded
<1>1. PICK n \in Nat : n = Len(s)
  OBVIOUS
<1> DEFINE next(k, x) == IF s[k] \in Codes THEN Append(x, Upper[s[k]]) ELSE x
           step == [k \in 1..n |-> [x \in Coded |-> next(k, x)]]
<1>2. ASSUME NEW k \in 1..n, NEW x \in Coded PROVE next(k, x) \in Coded
  <2>1. s[k] \in Codes => Upper[s[k]] \in Characters \ {Bar}
    BY <1>1, CharacterAssumption
  <2> QED BY <2>1 DEF Coded
<1>3. step \in [1..n -> [Coded -> Coded]] /\ \A k \in 1..n, x \in Coded : step[k][x] = next(k, x)
  <2> HIDE DEF next
  <2> QED BY <1>2
<1>4. PICK base \in Coded : base = <<>>
  <2>1. <<>> \in Seq(Characters \ {Bar})
    OBVIOUS
  <2> HIDE DEF next, step
  <2> QED BY <2>1 DEF Coded
<1> HIDE DEF step
<1>5. PICK out : Grows(n, Coded, base, step, out)
  <2> HIDE DEF next
  <2> QED BY <1>3, StepByStep
<1>6. /\ out \in [0..n -> Coded] /\ out[0] = <<>>
      /\ \A k \in 1..n : out[k] = next(k, out[k - 1])
  <2>1. out \in [0..n -> Coded] /\ out[0] = <<>> /\ \A k \in 1..n : out[k] = step[k][out[k - 1]]
    BY <1>4, <1>5 DEF Grows
  <2>2. \A k \in 1..n : k - 1 \in 0..n /\ out[k - 1] \in Coded
    BY <2>1
  <2> HIDE DEF next
  <2> QED BY <1>3, <2>1, <2>2
<1>7. Encodes(s, out)
  <2>1. \A k \in 0..n : out[k] = IF k = 0 THEN <<>> ELSE IF s[k] \in Codes THEN Append(out[k - 1], Upper[s[k]]) ELSE out[k - 1]
    <3> SUFFICES ASSUME NEW k \in 0..n
                 PROVE  out[k] = IF k = 0 THEN <<>> ELSE IF s[k] \in Codes THEN Append(out[k - 1], Upper[s[k]]) ELSE out[k - 1]
      OBVIOUS
    <3>1. CASE k = 0
      BY <1>6, <3>1
    <3>2. CASE k # 0
      <4>1. k \in 1..n
        BY <3>2
      <4> QED BY <1>6, <3>2, <4>1
    <3> QED BY <3>1, <3>2
  <2>2. out = [k \in 0..n |-> out[k]]
    BY <1>6
  <2> QED BY <1>1, <2>1, <2>2, Zenon DEF Encodes
<1>8. Code(s) = (CHOOSE upTo : Encodes(s, upTo))[n]
  BY <1>1 DEF Code, Encodes
<1>9. PICK upTo : upTo = CHOOSE f : Encodes(s, f)
  OBVIOUS
<1>10. Encodes(s, upTo)
  BY <1>7, <1>9
<1>11. upTo[0] = <<>> /\ \A k \in 1..n : upTo[k] = next(k, upTo[k - 1])
  <2>1. upTo = [k \in 0..n |-> IF k = 0 THEN <<>>
                               ELSE IF s[k] \in Codes THEN Append(upTo[k - 1], Upper[s[k]]) ELSE upTo[k - 1]]
    BY <1>1, <1>10, Zenon DEF Encodes
  <2>2. PICK all : all = upTo
    OBVIOUS
  <2>3. \A k \in 0..n : all[k] = IF k = 0 THEN <<>> ELSE IF s[k] \in Codes THEN Append(upTo[k - 1], Upper[s[k]]) ELSE upTo[k - 1]
    BY <2>1, <2>2
  <2>4. 0 \in 0..n /\ \A k \in 1..n : k \in 0..n /\ k # 0
    OBVIOUS
  <2> QED BY <2>2, <2>3, <2>4
<1> DEFINE P == {k \in 0..n : upTo[k] = out[k]}
<1>12. 0 \in P
  BY <1>6, <1>11
<1>13. ASSUME NEW k \in 1..n, k - 1 \in P PROVE k \in P
  <2> HIDE DEF next
  <2> QED BY <1>6, <1>11, <1>13
<1> HIDE DEF P
<1>14. n \in P
  <2> HIDE DEF next
  <2>1. 0..n \subseteq P
    BY <1>12, <1>13, UpTo
  <2> QED BY <2>1
<1> QED BY <1>6, <1>8, <1>9, <1>14 DEF P

LEMMA GreatestIs ==
  ASSUME NEW n \in Nat, NEW S \in SUBSET (1..n), S # {}
  PROVE  Greatest(S) \in S
<1> DEFINE R == {n - k : k \in S}
<1>1. R \in SUBSET Nat /\ R # {}
  <2>1. \A k \in S : n - k \in Nat
    OBVIOUS
  <2>2. PICK k : k \in S
    OBVIOUS
  <2>3. n - k \in R
    BY <2>2
  <2> QED BY <2>1, <2>3
<1>2. PICK r \in R : \A q \in R : r <= q
  BY <1>1, LeastExists
<1>3. PICK m \in S : r = n - m
  OBVIOUS
<1>4. \A k \in S : k <= m
  <2> SUFFICES ASSUME NEW k \in S PROVE k <= m
    OBVIOUS
  <2>1. n - k \in R
    OBVIOUS
  <2> HIDE DEF R
  <2>2. n - m <= n - k
    BY <1>2, <1>3, <2>1
  <2> QED BY <2>2
<1> QED BY <1>3, <1>4 DEF Greatest

LEMMA TrimIs ==
  ASSUME NEW s \in Seq(Characters)
  PROVE  Trim(s) \in Seq(Characters)
<1> DEFINE seen == {i \in 1..Len(s) : s[i] \notin Blanks}
<1>1. seen \in SUBSET (1..Len(s)) /\ seen \in SUBSET Nat /\ Len(s) \in Nat
  OBVIOUS
<1>2. Trim(s) = IF seen = {} THEN <<>> ELSE SubSeq(s, Least(seen), Greatest(seen))
  BY DEF Trim
<1>3. ASSUME seen # {} PROVE SubSeq(s, Least(seen), Greatest(seen)) \in Seq(Characters)
  <2> HIDE DEF seen
  <2>1. Least(seen) \in 1..Len(s)
    BY <1>1, <1>3, LeastIs
  <2>2. Greatest(seen) \in 1..Len(s)
    BY <1>1, <1>3, GreatestIs
  <2> QED BY <2>1, <2>2
<1> HIDE DEF seen
<1> QED BY <1>2, <1>3

LEMMA NormalIs ==
  ASSUME NEW record \in Records
  PROVE  LET track == Normalize(record)
         IN  /\ track.title \in Seq(Characters) /\ track.artist \in Seq(Characters)
             /\ IF record.isrc \in {None, <<>>} THEN track.isrc = None
                ELSE track.isrc = Code(record.isrc) /\ track.isrc # None
             /\ track.isrc # None => track.isrc \in Coded
<1>1. /\ record.title = None \/ record.title \in Seq(Characters)
      /\ record.artist = None \/ record.artist \in Seq(Characters)
      /\ record.isrc = None \/ record.isrc \in Seq(Characters)
  <2>1. \A field \in {"title", "artist", "isrc"} : record[field] = None \/ record[field] \in Seq(Characters)
    BY CatalogAssumption
  <2> QED BY <2>1
<1>2. PICK title \in Seq(Characters), artist \in Seq(Characters) :
        /\ title = Trim(IF record.title = None THEN Untitled ELSE record.title)
        /\ artist = Trim(IF record.artist = None THEN UnknownArtist ELSE record.artist)
  <2>1. Untitled \in Seq(Characters) /\ UnknownArtist \in Seq(Characters)
    BY CatalogAssumption
  <2> QED BY <1>1, <2>1, TrimIs
<1>3. PICK isrc : isrc = IF record.isrc \in {None, <<>>} THEN None ELSE Code(record.isrc)
  OBVIOUS
<1>4. Normalize(record) = [title |-> title, artist |-> artist, isrc |-> isrc]
  BY <1>2, <1>3 DEF Normalize
<1>5. ASSUME record.isrc \notin {None, <<>>} PROVE isrc \in Coded /\ isrc # None
  <2>1. isrc \in Coded
    BY <1>1, <1>3, <1>5, CodeIs
  <2>2. Coded \subseteq Seq(Characters)
    BY DEF Coded
  <2> QED BY <2>1, <2>2, CatalogAssumption
<1> QED BY <1>3, <1>4, <1>5

\* What is joined by a bar is told apart, unless there are others.
LEMMA Joined ==
  ASSUME NEW s \in Seq(Characters), NEW t \in Seq(Characters), NEW u \in Seq(Characters), NEW v \in Seq(Characters),
         \A i \in 1..Len(s) : s[i] # Bar, \A i \in 1..Len(u) : u[i] # Bar,
         s \o <<Bar>> \o t = u \o <<Bar>> \o v
  PROVE  s = u /\ t = v
<1>1. PICK k \in Nat, l \in Nat, m \in Nat, n \in Nat : k = Len(s) /\ l = Len(u) /\ m = Len(t) /\ n = Len(v)
  OBVIOUS
<1>2. PICK whole : whole = s \o <<Bar>> \o t
  OBVIOUS
<1>3. /\ Len(whole) = k + 1 + m /\ whole[k + 1] = Bar /\ \A i \in 1..k : whole[i] = s[i]
      /\ \A i \in 1..m : whole[k + 1 + i] = t[i]
  BY <1>1, <1>2, CharacterAssumption
<1>4. /\ Len(whole) = l + 1 + n /\ whole[l + 1] = Bar /\ \A i \in 1..l : whole[i] = u[i]
      /\ \A i \in 1..n : whole[l + 1 + i] = v[i]
  <2>1. whole = u \o <<Bar>> \o v
    BY <1>2
  <2> QED BY <1>1, <2>1, CharacterAssumption
<1>5. k = l
  <2>1. CASE k < l
    <3>1. k + 1 \in 1..l
      BY <2>1
    <3>2. u[k + 1] = Bar
      BY <1>3, <1>4, <3>1
    <3> QED BY <1>1, <3>1, <3>2
  <2>2. CASE l < k
    <3>1. l + 1 \in 1..k
      BY <2>2
    <3>2. s[l + 1] = Bar
      BY <1>3, <1>4, <3>1
    <3> QED BY <1>1, <3>1, <3>2
  <2> QED BY <2>1, <2>2
<1>6. m = n
  BY <1>3, <1>4, <1>5
<1>7. \A i \in 1..k : s[i] = u[i]
  BY <1>3, <1>4, <1>5
<1>8. \A i \in 1..m : t[i] = v[i]
  BY <1>3, <1>4, <1>5, <1>6
<1>9. s = u
  BY <1>1, <1>5, <1>7, SeqEqual
<1>10. t = v
  BY <1>1, <1>6, <1>8, SeqEqual
<1> QED BY <1>9, <1>10

\* The keys of tracks with an ISRC and of those without have nothing in common.
LEMMA KeysApart ==
  ASSUME NEW a \in Records, NEW b \in Records, Key(Normalize(a)) = Key(Normalize(b))
  PROVE  LET t == Normalize(a)
             u == Normalize(b)
         IN  t.isrc = u.isrc /\ (t.isrc = None /\ WithoutBar(t) /\ WithoutBar(u) => SameWords(t, u))
<1> DEFINE Named(t) == t.title \in Seq(Characters) /\ t.artist \in Seq(Characters)
           Joins(t) == LowerCase(t.title) \o <<Bar>> \o LowerCase(t.artist)
<1>1. PICK t : t = Normalize(a) /\ Named(t) /\ (t.isrc # None => t.isrc \in Coded)
  BY NormalIs
<1>2. PICK u : u = Normalize(b) /\ Named(u) /\ (u.isrc # None => u.isrc \in Coded)
  BY NormalIs
<1>3. ASSUME NEW w, Named(w) PROVE Joins(w) \notin Coded
  <2>1. PICK p \in Seq(Characters), q \in Seq(Characters) : p = LowerCase(w.title) /\ q = LowerCase(w.artist)
    BY <1>3, LowerIs
  <2>2. PICK whole : whole = p \o <<Bar>> \o q
    OBVIOUS
  <2>3. Len(p) + 1 \in 1..Len(whole) /\ whole[Len(p) + 1] = Bar
    BY <2>1, <2>2, CharacterAssumption
  <2>4. \A c \in Coded : \A i \in 1..Len(c) : c[i] # Bar
    BY DEF Coded
  <2> QED BY <2>1, <2>2, <2>3, <2>4
<1>4. /\ Key(t) = IF t.isrc # None THEN t.isrc ELSE Joins(t)
      /\ Key(u) = IF u.isrc # None THEN u.isrc ELSE Joins(u)
  BY DEF Key
<1> HIDE DEF Joins
<1>5. t.isrc = u.isrc
  BY <1>1, <1>2, <1>3, <1>4
<1>6. ASSUME t.isrc = None, WithoutBar(t), WithoutBar(u) PROVE SameWords(t, u)
  <2>1. Joins(t) = Joins(u)
    BY <1>1, <1>2, <1>4, <1>5, <1>6
  <2>2. PICK p \in Seq(Characters), q \in Seq(Characters) : p = LowerCase(t.title) /\ q = LowerCase(t.artist)
    BY <1>1, LowerIs
  <2>3. PICK v \in Seq(Characters), w \in Seq(Characters) : v = LowerCase(u.title) /\ w = LowerCase(u.artist)
    BY <1>2, LowerIs
  <2>4. Bar \notin Range(p) /\ Bar \notin Range(v)
    BY <1>6, <2>2, <2>3 DEF WithoutBar
  <2>5. (\A i \in 1..Len(p) : p[i] # Bar) /\ \A i \in 1..Len(v) : v[i] # Bar
    BY <2>4 DEF Range
  <2>6. p \o <<Bar>> \o q = v \o <<Bar>> \o w
    BY <2>1, <2>2, <2>3 DEF Joins
  <2>7. p = v /\ q = w
    BY <2>5, <2>6, Joined
  <2> QED BY <2>2, <2>3, <2>7 DEF SameWords
<1> QED BY <1>1, <1>2, <1>5, <1>6

LEMMA LeftOut ==
  ASSUME Answered(call)
  PROVE  LeftOutForItsLike
<1> SUFFICES ASSUME call.fn = "ingest", NEW k \in DOMAIN call.records, ~Failed(call.records[k])
             PROVE  LET record == call.records[k]
                        track  == Normalize(record)
                    IN  IF record.isrc \notin {None, <<>>}
                        THEN LET match == MatchByIsrc(record.isrc, call.tracks)
                             IN  match # 0 /\ call.tracks[match].isrc = Code(record.isrc)
                        ELSE \E kept \in Range(call.tracks) :
                               kept.isrc = None /\ (WithoutBar(kept) /\ WithoutBar(track) => SameWords(kept, track))
  BY DEF LeftOutForItsLike
<1>1. PICK record \in Records : record = call.records[k]
  BY AnswersByName, IngestedFields
<1>2. PICK u \in Seq({Normalize(r) : r \in Records}) : u = call.tracks /\ HasKey(u, Normalize(record))
  BY <1>1, IngestedKept
<1>3. PICK i \in DOMAIN u, r \in Records : u[i] = Normalize(r) /\ Key(Normalize(r)) = Key(Normalize(record))
  BY <1>2 DEF HasKey
<1>4. PICK track, kept : track = Normalize(record) /\ kept = Normalize(r) /\ kept = u[i]
  BY <1>3
<1>5. kept.isrc = track.isrc /\ (kept.isrc = None /\ WithoutBar(kept) /\ WithoutBar(track) => SameWords(kept, track))
  BY <1>3, <1>4, KeysApart
<1>6. CASE record.isrc \notin {None, <<>>}
  <2> DEFINE found == {l \in DOMAIN u : u[l].isrc = Code(record.isrc)}
  <2>1. track.isrc = Code(record.isrc)
    BY <1>4, <1>6, NormalIs
  <2>2. i \in found /\ found \in SUBSET Nat /\ 0 \notin found
    BY <1>2, <1>3, <1>4, <1>5, <2>1
  <2>3. MatchByIsrc(record.isrc, u) = Least(found)
    BY <2>2 DEF MatchByIsrc
  <2>4. Least(found) \in found
    <3> HIDE DEF found
    <3> QED BY <2>2, LeastIs
  <2> QED BY <1>1, <1>2, <1>6, <2>2, <2>3, <2>4
<1>7. CASE record.isrc \in {None, <<>>}
  <2>1. track.isrc = None
    BY <1>4, <1>7, NormalIs
  <2>2. kept \in Range(u)
    BY <1>3, <1>4 DEF Range
  <2> QED BY <1>1, <1>2, <1>4, <1>5, <1>7, <2>1, <2>2
<1> QED BY <1>6, <1>7

\* What the rights and the music services answer keeps rights and tracks: wider territories cover
\* narrower ones, more bundles never lose a right, the distance of titles is a metric, a track of
\* the catalog is found, and no record is lost, nor left out but for one of its like.
THEOREM RightsAndTracks == DataSpec => []RightsAndTracksKept
<1>1. Answered(call) => RightsAndTracksKept
  BY WiderCover, MoreBundles, Metric, ExactFound, RecordsKept, LeftOut DEF RightsAndTracksKept
<1> QED BY <1>1, Answers, PTL

-----------------------------------------------------------------------------
(* Metered usage *)

\* The states the loop over the tiers can be in.
Meters == [billable : Nat, lower : Nat, total : Nat]

\* What a tier takes of the units that are left, and what that costs.
Taken(s, tier) == SmallerOf(s.billable, Capacity(s, tier))

LEMMA DivMonotone ==
  ASSUME NEW x \in Int, NEW y \in Int, NEW d \in Nat, d # 0, x <= y
  PROVE  x \div d <= y \div d
<1>1. PICK p \in Int : p = x \div d /\ d * p <= x
  BY DivIs
<1>2. PICK q \in Int : q = y \div d /\ y < d * q + d
  BY DivIs
<1>3. CASE q + 1 <= p
  <2>1. d * (q + 1) <= d * p
    BY <1>3, MulLeq
  <2>2. d * (q + 1) = d * q + d
    OBVIOUS
  <2>3. PICK u \in Int, v \in Int : u = d * p /\ v = d * q
    OBVIOUS
  <2> QED BY <1>1, <1>2, <2>1, <2>2, <2>3
<1> QED BY <1>1, <1>2, <1>3

LEMMA PriceOfUnits ==
  ASSUME NEW n \in Nat, NEW price \in Nat
  PROVE  (n * price) \div 10 \in Nat /\ n * price - 10 * ((n * price) \div 10) \in 0..9
<1>1. PICK x \in Nat : x = n * price
  OBVIOUS
<1>2. x \div 10 \in Nat /\ x - 10 * (x \div 10) \in 0..9
  OBVIOUS
<1> QED BY <1>1, <1>2

LEMMA TakenIs ==
  ASSUME NEW s \in Meters, NEW tier \in Tiers
  PROVE  /\ Taken(s, tier) \in Nat /\ Taken(s, tier) <= s.billable
         /\ tier.upTo = Inf => Taken(s, tier) = s.billable
         /\ tier.upTo # Inf /\ tier.upTo <= s.lower => Taken(s, tier) = 0
         /\ tier.upTo # Inf /\ tier.upTo > s.lower /\ s.billable <= tier.upTo - s.lower =>
              Taken(s, tier) = s.billable
         /\ tier.upTo # Inf /\ tier.upTo > s.lower /\ s.billable > tier.upTo - s.lower =>
              Taken(s, tier) = tier.upTo - s.lower
<1>1. PICK b \in Nat, l \in Nat : b = s.billable /\ l = s.lower
  BY DEF Meters
<1>2. CASE tier.upTo = Inf
  BY <1>1, <1>2 DEF Taken, Capacity, SmallerOf
<1>3. CASE tier.upTo # Inf
  <2>1. PICK u \in Nat : u = tier.upTo
    BY <1>3 DEF Tiers
  <2>2. Taken(s, tier) = SmallerOf(b, LargerOf(0, u - l))
    BY <1>1, <1>3, <2>1 DEF Taken, Capacity
  <2>3. SmallerOf(b, LargerOf(0, u - l)) = IF u <= l THEN 0 ELSE IF b <= u - l THEN b ELSE u - l
    BY DEF SmallerOf, LargerOf
  <2> QED BY <1>1, <1>3, <2>1, <2>2, <2>3
<1> QED BY <1>2, <1>3

LEMMA EnterTierIs ==
  ASSUME NEW s \in Meters, NEW tier \in Tiers
  PROVE  /\ EnterTier(s, tier) \in Meters
         /\ s.billable = 0 => EnterTier(s, tier) = s
         /\ s.billable # 0 =>
              /\ EnterTier(s, tier).billable = s.billable - Taken(s, tier)
              /\ EnterTier(s, tier).lower = IF tier.upTo = Inf THEN s.lower ELSE tier.upTo
              /\ EnterTier(s, tier).total = s.total + (Taken(s, tier) * tier.price) \div 10
<1>1. s.billable \in Nat /\ s.lower \in Nat /\ s.total \in Nat /\ tier.price \in Nat
  BY DEF Meters, Tiers
<1>2. CASE s.billable = 0
  BY <1>1, <1>2 DEF EnterTier
<1>3. CASE s.billable # 0
  <2>1. PICK n \in Nat : n = Taken(s, tier) /\ n <= s.billable
    BY TakenIs
  <2>2. PICK e \in Nat : e = (n * tier.price) \div 10
    BY <1>1, PriceOfUnits
  <2>3. PICK l \in Nat : l = IF tier.upTo = Inf THEN s.lower ELSE tier.upTo
    BY <1>1 DEF Tiers
  <2>4. EnterTier(s, tier) = [billable |-> s.billable - n, lower |-> l, total |-> s.total + e]
    <3>1. ~(s.billable <= 0)
      BY <1>1, <1>3
    <3> QED BY <2>1, <2>2, <2>3, <3>1, Zenon DEF EnterTier, Taken
  <2>5. s.billable - n \in Nat /\ s.total + e \in Nat
    BY <1>1, <2>1
  <2>6. EnterTier(s, tier) \in Meters
    BY <2>4, <2>5 DEF Meters
  <2> QED BY <1>3, <2>1, <2>2, <2>3, <2>4, <2>6
<1> QED BY <1>2, <1>3

\* A run of the loop over the n tiers.
Metering(component, units, n, after) ==
  /\ n \in Nat /\ n = Len(component.tiers) /\ after \in [0..n -> Meters]
  /\ after[0] = [billable |-> LargerOf(0, units - component.included), lower |-> component.included, total |-> 0]
  /\ \A k \in 1..n : component.tiers[k] \in Tiers /\ after[k] = EnterTier(after[k - 1], component.tiers[k])
  /\ MeterComponent(component, units) = after[n]

\* Commerce!MeterComponent, as an equation.
Metered(tiers, start, after) ==
  after = [k \in 0..Len(tiers) |-> IF k = 0 THEN start ELSE EnterTier(after[k - 1], tiers[k])]

LEMMA MeterRuns ==
  ASSUME NEW component \in Components, NEW units \in Int
  PROVE  \E n, after : Metering(component, units, n, after)
<1> DEFINE base == [billable |-> LargerOf(0, units - component.included), lower |-> component.included, total |-> 0]
<1>1. PICK tiers \in Seq(Tiers) : tiers = component.tiers
  BY DEF Components
<1>2. PICK n \in Nat : n = Len(tiers)
  BY <1>1
<1>3. \A k \in 1..n : tiers[k] \in Tiers
  BY <1>1, <1>2
<1>4. base \in Meters
  <2>1. component.included \in Nat
    BY DEF Components
  <2>2. LargerOf(0, units - component.included) \in Nat
    BY <2>1 DEF LargerOf
  <2> QED BY <2>1, <2>2 DEF Meters
<1> DEFINE step == [k \in 1..n |-> [s \in Meters |-> EnterTier(s, tiers[k])]]
<1>5. \A k \in 1..n, s \in Meters : step[k][s] = EnterTier(s, tiers[k])
  OBVIOUS
<1>6. step \in [1..n -> [Meters -> Meters]]
  BY <1>3, EnterTierIs
<1> HIDE DEF step, base
<1>7. PICK out : Grows(n, Meters, base, step, out)
  BY <1>4, <1>6, StepByStep
<1>8. /\ out \in [0..n -> Meters] /\ out[0] = base
      /\ \A k \in 1..n : k - 1 \in 0..n /\ out[k - 1] \in Meters /\ out[k] = step[k][out[k - 1]]
  BY <1>7 DEF Grows
<1>9. \A k \in 1..n : out[k] = EnterTier(out[k - 1], tiers[k])
  BY <1>5, <1>8
<1>10. Metered(tiers, base, out)
  BY <1>2, <1>8, <1>9 DEF Metered
<1>11. MeterComponent(component, units) = (CHOOSE after : Metered(tiers, base, after))[n]
  BY <1>1, <1>2, Zenon DEF MeterComponent, Metered, base
<1>12. PICK after : after = CHOOSE f : Metered(tiers, base, f)
  OBVIOUS
<1>13. Metered(tiers, base, after)
  BY <1>10, <1>12
<1>14. \A k \in 0..n : after[k] = IF k = 0 THEN base ELSE EnterTier(after[k - 1], tiers[k])
  BY <1>2, <1>13 DEF Metered
<1>15. \A k \in 0..n : after[k] = out[k]
  <2> DEFINE P == {k \in 0..n : after[k] = out[k]}
  <2>1. 0 \in P
    BY <1>8, <1>14
  <2>2. ASSUME NEW k \in 1..n, k - 1 \in P PROVE k \in P
    BY <1>9, <1>14, <2>2
  <2> HIDE DEF P
  <2>3. 0..n \subseteq P
    BY <2>1, <2>2, UpTo
  <2> QED BY <2>3 DEF P
<1>16. MeterComponent(component, units) = out[n]
  BY <1>11, <1>12, <1>15
<1>17. out[0] = [billable |-> LargerOf(0, units - component.included), lower |-> component.included, total |-> 0]
  BY <1>8 DEF base
<1>18. Metering(component, units, n, out)
  BY <1>1, <1>2, <1>3, <1>8, <1>9, <1>16, <1>17, Zenon DEF Metering
<1> QED BY <1>18

LEMMA MeterType ==
  ASSUME NEW component \in Components, NEW units \in Int
  PROVE  MeterComponent(component, units) \in Meters
<1>1. PICK n, after : Metering(component, units, n, after)
  BY MeterRuns
<1>2. n \in 0..n /\ after \in [0..n -> Meters]
  BY <1>1 DEF Metering
<1> QED BY <1>1, <1>2 DEF Metering

\* More units are never cheaper: what a tier leaves of them and charges for them only grows.
LEMMA DearerTier ==
  ASSUME NEW s \in Meters, NEW t \in Meters, NEW tier \in Tiers,
         s.billable <= t.billable, s.total <= t.total, s.billable # 0 => s.lower = t.lower
  PROVE  /\ EnterTier(s, tier).billable <= EnterTier(t, tier).billable
         /\ EnterTier(s, tier).total <= EnterTier(t, tier).total
         /\ EnterTier(s, tier).billable # 0 => EnterTier(s, tier).lower = EnterTier(t, tier).lower
<1>1. /\ s.billable \in Nat /\ s.total \in Nat /\ t.billable \in Nat /\ t.total \in Nat /\ tier.price \in Nat
      /\ s.lower \in Nat
  BY DEF Meters, Tiers
<1>2. CASE s.billable = 0
  <2>1. EnterTier(s, tier) = s
    BY <1>2, EnterTierIs
  <2>2. EnterTier(t, tier).billable \in Nat
    BY EnterTierIs DEF Meters
  <2>3. t.total <= EnterTier(t, tier).total
    <3>1. CASE t.billable = 0
      BY <1>1, <3>1, EnterTierIs
    <3>2. CASE t.billable # 0
      <4>1. PICK e \in Nat : e = (Taken(t, tier) * tier.price) \div 10
        BY <1>1, TakenIs, PriceOfUnits
      <4>2. EnterTier(t, tier).total = t.total + e
        BY <3>2, <4>1, EnterTierIs
      <4> QED BY <1>1, <4>2
    <3> QED BY <3>1, <3>2
  <2>4. PICK x \in Nat : x = EnterTier(t, tier).total
    BY EnterTierIs DEF Meters
  <2> QED BY <1>1, <1>2, <2>1, <2>2, <2>3, <2>4
<1>3. CASE s.billable # 0
  <2>1. t.billable # 0 /\ s.lower = t.lower
    BY <1>1, <1>3
  <2>2. PICK m \in Nat, n \in Nat : m = Taken(s, tier) /\ n = Taken(t, tier)
    BY TakenIs
  <2>3. PICK d \in Nat, e \in Nat : d = (m * tier.price) \div 10 /\ e = (n * tier.price) \div 10
    BY <1>1, PriceOfUnits
  <2>4. /\ EnterTier(s, tier).billable = s.billable - m /\ EnterTier(s, tier).total = s.total + d
        /\ EnterTier(t, tier).billable = t.billable - n /\ EnterTier(t, tier).total = t.total + e
        /\ EnterTier(s, tier).lower = EnterTier(t, tier).lower
    BY <1>3, <2>1, <2>2, <2>3, EnterTierIs, Zenon
  <2>5. m <= n /\ s.billable - m <= t.billable - n
    <3>1. CASE tier.upTo = Inf
      BY <1>1, <2>2, <3>1, TakenIs
    <3>2. CASE tier.upTo # Inf
      <4>1. PICK u \in Nat : u = tier.upTo
        BY <3>2 DEF Tiers
      <4>2. PICK l \in Nat : l = s.lower /\ l = t.lower
        BY <1>1, <2>1
      <4>3. PICK b \in Nat, c \in Nat : b = s.billable /\ c = t.billable /\ b <= c
        BY <1>1
      <4>4. m = IF u <= l THEN 0 ELSE IF b <= u - l THEN b ELSE u - l
        <5>1. CASE u <= l
          BY <2>2, <3>2, <4>1, <4>2, <5>1, TakenIs
        <5>2. CASE l < u /\ b <= u - l
          BY <2>2, <3>2, <4>1, <4>2, <4>3, <5>2, TakenIs
        <5>3. CASE l < u /\ u - l < b
          BY <2>2, <3>2, <4>1, <4>2, <4>3, <5>3, TakenIs
        <5> QED BY <5>1, <5>2, <5>3
      <4>5. n = IF u <= l THEN 0 ELSE IF c <= u - l THEN c ELSE u - l
        <5>1. CASE u <= l
          BY <2>2, <3>2, <4>1, <4>2, <5>1, TakenIs
        <5>2. CASE l < u /\ c <= u - l
          BY <2>2, <3>2, <4>1, <4>2, <4>3, <5>2, TakenIs
        <5>3. CASE l < u /\ u - l < c
          BY <2>2, <3>2, <4>1, <4>2, <4>3, <5>3, TakenIs
        <5> QED BY <5>1, <5>2, <5>3
      <4> QED BY <4>3, <4>4, <4>5
    <3> QED BY <3>1, <3>2
  <2>6. d <= e
    <3>1. tier.price * m <= tier.price * n
      BY <1>1, <2>5, MulLeq
    <3>2. PICK x \in Int, y \in Int : x = m * tier.price /\ y = n * tier.price
      BY <1>1
    <3>3. x <= y
      BY <1>1, <3>1, <3>2
    <3> QED BY <2>3, <3>2, <3>3, DivMonotone
  <2>7. s.total + d <= t.total + e
    BY <1>1, <2>6
  <2> QED BY <2>4, <2>5, <2>7
<1> QED BY <1>2, <1>3

LEMMA Dearer ==
  ASSUME NEW component \in Components, NEW units \in Int
  PROVE  MeterComponent(component, units).total <= MeterComponent(component, units + 1).total
<1>1. PICK n, s : Metering(component, units, n, s)
  BY MeterRuns
<1>2. PICK m, t : Metering(component, units + 1, m, t)
  <2>1. units + 1 \in Int
    OBVIOUS
  <2> QED BY <2>1, MeterRuns
<1>3. m = n /\ n \in Nat
  BY <1>1, <1>2 DEF Metering
<1>4. \A k \in 0..n : s[k] \in Meters /\ t[k] \in Meters
  BY <1>1, <1>2, <1>3 DEF Metering
<1>5. \A k \in 1..n : /\ component.tiers[k] \in Tiers /\ k - 1 \in 0..n /\ s[k] = EnterTier(s[k - 1], component.tiers[k])
                      /\ t[k] = EnterTier(t[k - 1], component.tiers[k])
  BY <1>1, <1>2, <1>3 DEF Metering
<1> DEFINE less(x, y) == /\ x.billable <= y.billable /\ x.total <= y.total
                         /\ x.billable # 0 => x.lower = y.lower
           P == {k \in 0..n : less(s[k], t[k])}
<1>6. 0 \in P
  <2>1. component.included \in Nat
    BY DEF Components
  <2>2. LargerOf(0, units - component.included) <= LargerOf(0, (units + 1) - component.included)
    BY <2>1 DEF LargerOf
  <2>3. /\ s[0].billable = LargerOf(0, units - component.included) /\ s[0].lower = component.included /\ s[0].total = 0
        /\ t[0].billable = LargerOf(0, (units + 1) - component.included) /\ t[0].lower = component.included /\ t[0].total = 0
    BY <1>1, <1>2 DEF Metering
  <2> QED BY <1>3, <2>2, <2>3
<1>7. ASSUME NEW k \in 1..n, k - 1 \in P PROVE k \in P
  <2>1. k \in 0..n /\ less(s[k - 1], t[k - 1])
    BY <1>7
  <2>2. PICK x \in Meters, y \in Meters, tier \in Tiers :
          /\ x = s[k - 1] /\ y = t[k - 1] /\ tier = component.tiers[k]
          /\ s[k] = EnterTier(x, tier) /\ t[k] = EnterTier(y, tier)
    BY <1>4, <1>5
  <2>3. less(EnterTier(x, tier), EnterTier(y, tier))
    BY <2>1, <2>2, DearerTier
  <2> HIDE DEF less
  <2> QED BY <2>1, <2>2, <2>3
<1>8. n \in P
  <2> HIDE DEF P
  <2>1. 0..n \subseteq P
    BY <1>3, <1>6, <1>7, UpTo
  <2> QED BY <1>3, <2>1
<1> QED BY <1>1, <1>2, <1>3, <1>8 DEF Metering

-----------------------------------------------------------------------------
(* Prices by tier *)

\* Adding one number c some w times over, after the first m items.
Level(v, m, w, c) ==
  v \in Seq(Int) /\ m \in Nat /\ w \in Nat /\ m + w <= Len(v) /\ c \in Int /\ \A k \in 1..w : v[m + k] = c

LEMMA SumsLevel ==
  ASSUME NEW v, NEW m, NEW w, NEW c, Level(v, m, w, c)
  PROVE  Sums(v)[m + w] = Sums(v)[m] + w * c
<1>0. v \in Seq(Int) /\ m \in Nat /\ w \in Nat /\ m + w <= Len(v) /\ c \in Int /\ \A k \in 1..w : v[m + k] = c
  BY Zenon DEF Level
<1> DEFINE u == [k \in 1..w |-> c]
<1>1. u \in Seq(Int) /\ Len(u) = w /\ \A k \in 1..w : u[k] = c
  BY <1>0
<1>2. m \in 0..Len(v) /\ w \in 0..w /\ m + w \in 0..Len(v) /\ w <= Len(v) - m
  BY <1>0
<1> HIDE DEF u
<1>3. Sums(u)[w] = w * c
  BY <1>0, <1>1, <1>2, SumsConstant
<1>4. Sums(u)[w] = Sums(v)[m + w] - Sums(v)[m]
  <2>1. Len(u) <= Len(v) - m
    BY <1>1, <1>2
  <2>2. \A k \in 1..Len(u) : u[k] = v[m + k]
    BY <1>0, <1>1
  <2>3. \A k \in 0..Len(u) : Sums(u)[k] = Sums(v)[m + k] - Sums(v)[m]
    BY <1>0, <1>1, <1>2, <2>1, <2>2, SumsAfter
  <2> QED BY <1>1, <1>2, <2>3
<1>5. PICK x \in Int, y \in Int, z \in Int : x = Sums(v)[m + w] /\ y = Sums(v)[m] /\ z = w * c
  <2>1. Sums(v)[m + w] \in Int /\ Sums(v)[m] \in Int
    BY <1>0, <1>2, SumsAre
  <2>2. w * c \in Int
    BY <1>0
  <2> QED BY <2>1, <2>2
<1> QED BY <1>3, <1>4, <1>5

Reaches(component, i, u) == component.tiers[i].upTo = Inf \/ component.tiers[i].upTo >= u

LEMMA PriceIs ==
  ASSUME NEW component, NEW n \in Nat, DOMAIN component.tiers = 1..n, NEW k \in 1..n, NEW u,
         Reaches(component, k, u), \A j \in 1..(k - 1) : ~Reaches(component, j, u)
  PROVE  PriceOf(component, u) = component.tiers[k].price
<1> DEFINE first(i) == Reaches(component, i, u) /\ \A j \in 1..(i - 1) : ~Reaches(component, j, u)
<1>1. first(k)
  OBVIOUS
<1>2. \A i \in 1..n : first(i) => i = k
  OBVIOUS
<1>3. PriceOf(component, u) = component.tiers[CHOOSE i \in 1..n : first(i)].price
  BY Zenon DEF PriceOf, Reaches
<1> HIDE DEF first
<1>4. (CHOOSE i \in 1..n : first(i)) = k
  BY <1>1, <1>2
<1> QED BY <1>3, <1>4

\* What holds after the first k of n tiers, with the prices q of the N units to bill.
Charged(component, N, q, n, k, s) ==
  /\ s.billable \in 0..N
  /\ \A u \in 1..(N - s.billable) : q[u] = PriceOf(component, component.included + u)
  /\ Sums(q)[N - s.billable] - 10 * s.total \in 0..(9 * k)
  /\ s.billable # 0 /\ k < n =>
       /\ s.lower = component.included + (N - s.billable)
       /\ s.lower = IF k = 0 THEN component.included ELSE component.tiers[k].upTo

\* The bill of N units by n ascending tiers.
Billing(component, N, q, n) ==
  /\ component \in Components /\ Ascending(component) /\ n = Len(component.tiers) /\ q \in [1..N -> Nat]
  /\ \A u \in 1..N : PriceOf(component, component.included + u) \in Nat => q[u] = PriceOf(component, component.included + u)

LEMMA TiersCharge ==
  ASSUME NEW N \in Nat, NEW n \in Nat, NEW component, NEW q, Billing(component, N, q, n),
         NEW k \in 1..n, NEW s \in Meters, Charged(component, N, q, n, k - 1, s)
  PROVE  Charged(component, N, q, n, k, EnterTier(s, component.tiers[k]))
<1>1. PICK included \in Nat : included = component.included
  BY DEF Components, Billing
<1>2. PICK tiers : tiers = component.tiers /\ DOMAIN tiers = 1..n /\ \A i \in 1..n : tiers[i] \in Tiers
  BY DEF Components, Billing
<1>3. PICK tier \in Tiers : tier = tiers[k] /\ tier = component.tiers[k]
  BY <1>2
<1>4. \A i, j \in 1..n : i < j =>
        /\ tiers[i].upTo # Inf /\ tiers[i].upTo >= included
        /\ tiers[j].upTo # Inf => tiers[i].upTo < tiers[j].upTo
  BY <1>1, <1>2 DEF Ascending, Billing
<1>5. PICK b \in Nat, total \in Nat : b = s.billable /\ total = s.total /\ b <= N
  BY DEF Charged, Meters
<1>6. PICK placed \in Nat : placed = N - b /\ placed <= N
  BY <1>5
<1>7. PICK price \in Nat : price = tier.price
  BY DEF Tiers
<1>8. q \in Seq(Int) /\ Len(q) = N /\ \A u \in 1..N : q[u] \in Nat
  BY DEF Billing
<1>9. PICK x \in Int : x = Sums(q)[placed] /\ x - 10 * total \in 0..(9 * (k - 1))
  <2>1. Sums(q)[placed] \in Int
    <3>1. placed \in 0..Len(q) /\ Sums(q) \in [0..Len(q) -> Int]
      BY <1>6, <1>8, SumsAre
    <3> QED BY <3>1
  <2>2. Sums(q)[placed] - 10 * total \in 0..(9 * (k - 1))
    BY <1>5, <1>6 DEF Charged
  <2> QED BY <2>1, <2>2
<1>10. \A u \in 1..placed : q[u] = PriceOf(component, component.included + u)
  BY <1>5, <1>6 DEF Charged
<1>11. CASE b = 0
  <2>1. EnterTier(s, component.tiers[k]) = s
    BY <1>3, <1>5, <1>11, EnterTierIs
  <2>2. x - 10 * total \in 0..(9 * k)
    BY <1>9
  <2>3. s.billable \in 0..N /\ N - s.billable = placed
    BY <1>5, <1>6, <1>11
  <2> QED BY <1>5, <1>9, <1>10, <1>11, <2>1, <2>2, <2>3, Zenon DEF Charged
<1>12. CASE b # 0
  <2>1. PICK w \in Nat : w = Taken(s, tier) /\ w <= b
    BY <1>5, TakenIs
  <2>2. PICK lower \in Nat : /\ lower = s.lower /\ lower = included + placed
                             /\ lower = IF k - 1 = 0 THEN included ELSE tiers[k - 1].upTo
    <3>1. k - 1 < n /\ s.billable # 0
      BY <1>5, <1>12
    <3>2. /\ s.lower = component.included + (N - s.billable)
          /\ s.lower = IF k - 1 = 0 THEN component.included ELSE component.tiers[k - 1].upTo
      BY <3>1, Zenon DEF Charged
    <3>3. s.lower = included + placed
      BY <1>1, <1>5, <1>6, <3>2
    <3>4. included + placed \in Nat
      OBVIOUS
    <3> QED BY <1>1, <1>2, <3>2, <3>3, <3>4
  <2>3. PICK y \in Nat, e \in Nat : y = w * price /\ e = y \div 10 /\ y - 10 * e \in 0..9
    BY PriceOfUnits
  <2>4. PICK t \in Meters : /\ t = EnterTier(s, component.tiers[k]) /\ t.billable = b - w /\ t.total = total + e
                            /\ t.lower = IF tier.upTo = Inf THEN lower ELSE tier.upTo
    <3>1. s.billable # 0 /\ b - w = s.billable - Taken(s, tier)
      BY <1>5, <1>12, <2>1
    <3>2. (Taken(s, tier) * tier.price) \div 10 = e
      BY <1>7, <2>1, <2>3
    <3>3. /\ EnterTier(s, tier) \in Meters
          /\ EnterTier(s, tier).billable = s.billable - Taken(s, tier)
          /\ EnterTier(s, tier).lower = IF tier.upTo = Inf THEN s.lower ELSE tier.upTo
          /\ EnterTier(s, tier).total = s.total + (Taken(s, tier) * tier.price) \div 10
      BY <3>1, EnterTierIs, Zenon
    <3> QED BY <1>3, <1>5, <2>2, <3>1, <3>2, <3>3, Zenon
  <2>5. ASSUME NEW i \in 1..(k - 1) PROVE tiers[i].upTo # Inf /\ tiers[i].upTo \in Nat /\ tiers[i].upTo <= lower
    <3>1. i \in 1..n /\ k - 1 \in 1..n /\ i < k /\ k - 1 < k /\ k - 1 # 0 /\ k \in 1..n
      OBVIOUS
    <3>2. tiers[i].upTo # Inf /\ tiers[k - 1].upTo # Inf
      BY <1>4, <3>1
    <3>3. tiers[i].upTo \in Nat /\ tiers[k - 1].upTo \in Nat /\ lower = tiers[k - 1].upTo
      BY <1>2, <2>2, <3>1, <3>2 DEF Tiers
    <3>4. i = k - 1 \/ tiers[i].upTo < tiers[k - 1].upTo
      BY <1>4, <3>1, <3>2
    <3> QED BY <3>2, <3>3, <3>4
  <2>6. ASSUME tier.upTo # Inf
        PROVE  \E top \in Nat : /\ top = tier.upTo
                                /\ top <= lower => w = 0
                                /\ top > lower /\ b <= top - lower => w = b
                                /\ top > lower /\ top - lower < b => w = top - lower
    <3>1. PICK top \in Nat : top = tier.upTo
      BY <2>6 DEF Tiers
    <3> QED BY <1>5, <2>1, <2>2, <2>6, <3>1, TakenIs
  <2>7. ASSUME NEW j \in 1..w PROVE PriceOf(component, included + (placed + j)) = price
    <3>1. PICK u \in Nat : u = included + (placed + j) /\ lower < u /\ u <= lower + w
      BY <2>2
    <3>2. Reaches(component, k, u)
      <4>1. CASE tier.upTo # Inf
        <5>1. PICK top \in Nat : /\ top = tier.upTo
                                 /\ top <= lower => w = 0
                                 /\ top > lower /\ b <= top - lower => w = b
                                 /\ top > lower /\ top - lower < b => w = top - lower
          BY <2>6, <4>1
        <5>2. w # 0
          OBVIOUS
        <5>3. top >= u
          BY <3>1, <5>1, <5>2
        <5> QED BY <1>3, <5>1, <5>3 DEF Reaches
      <4> QED BY <1>3, <4>1 DEF Reaches
    <3>3. \A i \in 1..(k - 1) : ~Reaches(component, i, u)
      <4>1. ASSUME NEW i \in 1..(k - 1) PROVE tiers[i].upTo # Inf /\ ~(tiers[i].upTo >= u)
        <5>1. PICK top \in Nat : top = tiers[i].upTo /\ top <= lower /\ tiers[i].upTo # Inf
          BY <2>5
        <5> QED BY <3>1, <5>1
      <4> QED BY <1>2, <4>1 DEF Reaches
    <3>4. DOMAIN component.tiers = 1..n
      BY <1>2
    <3>5. PriceOf(component, u) = component.tiers[k].price
      BY <3>2, <3>3, <3>4, PriceIs
    <3> QED BY <1>3, <1>7, <3>1, <3>5
  <2>8. ASSUME NEW j \in 1..w PROVE q[placed + j] = price /\ q[placed + j] = PriceOf(component, included + (placed + j))
    <3>1. placed + j \in 1..N
      BY <1>5, <1>6, <2>1
    <3>2. \A u \in 1..N : PriceOf(component, included + u) \in Nat => q[u] = PriceOf(component, included + u)
      BY <1>1 DEF Billing
    <3> QED BY <2>7, <3>1, <3>2
  <2>9. placed + w \in Nat /\ placed + w <= N
    BY <1>5, <1>6, <2>1
  <2>10. Sums(q)[placed + w] = x + y
    <3>1. Sums(q)[placed + w] = Sums(q)[placed] + w * price
      <4>1. placed + w <= Len(q)
        BY <1>8, <2>9
      <4>3. \A j \in 1..w : q[placed + j] = price
        BY <2>8
      <4>2. price \in Int
        OBVIOUS
      <4>4. q \in Seq(Int) /\ placed \in Nat /\ w \in Nat
        BY <1>8
      <4>5. Level(q, placed, w, price)
        BY <4>1, <4>2, <4>3, <4>4, Zenon DEF Level
      <4> QED BY <4>5, SumsLevel
    <3> QED BY <1>9, <2>3, <3>1
  <2>11. t.billable \in 0..N /\ N - t.billable = placed + w
    <3>1. b - w \in 0..N /\ N - (b - w) = placed + w
      BY <1>5, <1>6, <2>1
    <3> QED BY <2>4, <3>1
  <2>12. \A u \in 1..(placed + w) : q[u] = PriceOf(component, component.included + u)
    <3> SUFFICES ASSUME NEW u \in 1..(placed + w) PROVE q[u] = PriceOf(component, component.included + u)
      OBVIOUS
    <3>1. CASE u <= placed
      <4>1. u \in 1..placed
        BY <3>1
      <4> QED BY <1>10, <4>1
    <3>2. CASE placed < u
      <4>1. PICK j \in 1..w : u = placed + j
        <5>1. u - placed \in 1..w /\ u = placed + (u - placed)
          BY <3>2
        <5> QED BY <5>1
      <4> QED BY <1>1, <2>8, <4>1
    <3> QED BY <3>1, <3>2
  <2>13. Sums(q)[placed + w] - 10 * t.total \in 0..(9 * k)
    <3>1. (x + y) - 10 * (total + e) \in 0..(9 * k)
      BY <1>9, <2>3
    <3> QED BY <2>4, <2>10, <3>1
  <2>14. ASSUME t.billable # 0, k < n
         PROVE  t.lower = included + (placed + w) /\ t.lower = tiers[k].upTo
    <3>1. k + 1 \in 1..n /\ k < k + 1 /\ k \in 1..n
      BY <2>14
    <3>2. tier.upTo # Inf /\ tier.upTo >= included
      BY <1>3, <1>4, <3>1
    <3>3. PICK top \in Nat : /\ top = tier.upTo
                             /\ top <= lower => w = 0
                             /\ top > lower /\ b <= top - lower => w = b
                             /\ top > lower /\ top - lower < b => w = top - lower
      BY <2>6, <3>2
    <3>4. lower <= top
      <4>1. CASE k = 1
        BY <2>2, <3>2, <3>3, <4>1
      <4>2. CASE k # 1
        <5>1. k - 1 \in 1..n /\ k - 1 < k
          BY <4>2
        <5>2. tiers[k - 1].upTo < tiers[k].upTo
          BY <1>3, <1>4, <3>1, <3>2, <5>1
        <5>3. lower = tiers[k - 1].upTo
          BY <2>2, <4>2
        <5>4. lower < top
          BY <1>3, <3>3, <5>2, <5>3
        <5> QED BY <5>4
      <4> QED BY <4>1, <4>2
    <3>5. w # b
      BY <2>4, <2>14
    <3>6. w = top - lower
      BY <3>3, <3>4, <3>5
    <3>7. t.lower = top
      BY <2>4, <3>2, <3>3
    <3>8. top = included + (placed + w)
      BY <2>2, <3>4, <3>6
    <3> QED BY <1>3, <3>3, <3>7, <3>8
  <2>15. k # 0
    OBVIOUS
  <2>16. /\ t.billable # 0 /\ k < n => t.lower = component.included + (N - t.billable)
         /\ t.billable # 0 /\ k < n => t.lower = IF k = 0 THEN component.included ELSE component.tiers[k].upTo
    BY <1>1, <1>2, <2>11, <2>14, <2>15
  <2>17. Charged(component, N, q, n, k, t)
    BY <2>11, <2>12, <2>13, <2>16, Zenon DEF Charged
  <2> QED BY <2>4, <2>17
<1> QED BY <1>11, <1>12

LEMMA ComponentPriced ==
  ASSUME NEW component \in Components, Ascending(component), NEW units \in Nat, NEW N,
         N = LargerOf(0, units - component.included), ~(MeterComponent(component, units).billable > 0)
  PROVE  /\ [u \in 1..N |-> PriceOf(component, component.included + u)] \in Seq(Nat)
         /\ Sum([u \in 1..N |-> PriceOf(component, component.included + u)])
              - 10 * MeterComponent(component, units).total \in 0..(9 * Len(component.tiers))
<1>1. PICK n, s : Metering(component, units, n, s)
  BY MeterRuns
<1>2. PICK included \in Nat : included = component.included
  BY DEF Components
<1>3. N \in Nat
  BY <1>2 DEF LargerOf
<1> DEFINE price(u) == PriceOf(component, component.included + u)
           q == [u \in 1..N |-> IF price(u) \in Nat THEN price(u) ELSE 0]
<1> HIDE DEF price
<1>4. q \in [1..N -> Nat] /\ \A u \in 1..N : price(u) \in Nat => q[u] = price(u)
  OBVIOUS
<1>5. n \in Nat /\ n = Len(component.tiers) /\ s[n] = MeterComponent(component, units)
  BY <1>1 DEF Metering
<1> HIDE DEF q
<1>6. Billing(component, N, q, n)
  BY <1>4, <1>5 DEF Billing, price
<1> DEFINE P == {k \in 0..n : Charged(component, N, q, n, k, s[k])}
<1>7. 0 \in P
  <2>1. s[0].billable = N /\ s[0].lower = included /\ s[0].total = 0
    BY <1>1, <1>2 DEF Metering
  <2>2. Sums(q)[0] = 0
    BY <1>3, <1>4, SumsAre
  <2>3. Sums(q)[N - N] - 10 * 0 \in 0..(9 * 0) /\ N \in 0..N /\ included = included + (N - N)
    BY <1>3, <2>2
  <2>4. \A u \in 1..(N - N) : q[u] = PriceOf(component, component.included + u)
    BY <1>3
  <2>5. Charged(component, N, q, n, 0, s[0])
    BY <1>2, <2>1, <2>3, <2>4, Zenon DEF Charged
  <2> QED BY <1>5, <2>5
<1>8. ASSUME NEW k \in 1..n, k - 1 \in P PROVE k \in P
  <2>1. Charged(component, N, q, n, k - 1, s[k - 1]) /\ k - 1 \in 0..n
    BY <1>8
  <2>2. s[k - 1] \in Meters /\ s[k] = EnterTier(s[k - 1], component.tiers[k])
    BY <1>1, <2>1 DEF Metering
  <2>3. Charged(component, N, q, n, k, s[k])
    BY <1>3, <1>5, <1>6, <2>1, <2>2, TiersCharge
  <2> QED BY <2>3
<1>9. Charged(component, N, q, n, n, s[n])
  <2> HIDE DEF P
  <2>1. 0..n \subseteq P
    BY <1>5, <1>7, <1>8, UpTo
  <2> QED BY <1>5, <2>1 DEF P
<1>10. s[n].billable = 0
  <2>1. s[n].billable \in 0..N
    BY <1>9 DEF Charged
  <2> QED BY <1>3, <1>5, <2>1
<1>11. /\ \A u \in 1..N : q[u] = price(u)
       /\ Sums(q)[N] - 10 * s[n].total \in 0..(9 * n)
  <2>1. N - s[n].billable = N
    BY <1>3, <1>10
  <2> QED BY <1>9, <2>1, Zenon DEF Charged, price
<1>12. q = [u \in 1..N |-> price(u)]
  BY <1>4, <1>11
<1>13. q \in Seq(Nat) /\ Sum(q) = Sums(q)[N]
  BY <1>3, <1>4 DEF Sum
<1>14. /\ q = [u \in 1..N |-> PriceOf(component, component.included + u)]
       /\ Sum(q) - 10 * s[n].total \in 0..(9 * n)
  BY <1>11, <1>12, <1>13, Zenon DEF price
<1> QED BY <1>5, <1>13, <1>14, Zenon

LEMMA UnitsType ==
  ASSUME NEW usage \in Usages, NEW metric
  PROVE  Units(usage, metric) \in Int
<1>1. usage \in Seq([metric : STRING, units : Int])
  BY PricingAssumption
<1> DEFINE v == [k \in DOMAIN usage |-> IF usage[k].metric = metric THEN usage[k].units ELSE 0]
<1>2. v \in Seq(Int)
  <2> DEFINE T == [metric : STRING, units : Int]
  <2>1. \A r \in T : r.units \in Int
    OBVIOUS
  <2> HIDE DEF T
  <2>2. PICK n \in Nat : DOMAIN usage = 1..n /\ \A k \in 1..n : usage[k] \in T
    <3>1. usage \in Seq(T)
      BY <1>1 DEF T
    <3>2. Len(usage) \in Nat /\ DOMAIN usage = 1..Len(usage) /\ \A k \in 1..Len(usage) : usage[k] \in T
      BY <3>1
    <3> QED BY <3>2
  <2>3. \A k \in 1..n : usage[k].units \in Int
    BY <2>1, <2>2
  <2> QED BY <2>2, <2>3
<1> HIDE DEF v
<1>3. Sum(v) \in Int
  BY <1>2, SumType
<1> QED BY <1>3 DEF Units, v

-----------------------------------------------------------------------------
(* Quotes *)

Bill(plan, usage, i) == MeterComponent(plan.metered[i], Units(usage, plan.metered[i].metric))

Charge(plan, usage) == Sum([i \in DOMAIN plan.metered |-> Bill(plan, usage, i).total])

LEMMA PlansAre ==
  ASSUME NEW plan \in Plans, NEW usage \in Usages
  PROVE  \E m \in Nat :
           /\ DOMAIN plan.metered = 1..m /\ plan.base \in Nat
           /\ \A i \in 1..m : /\ plan.metered[i] \in Components
                              /\ Units(usage, plan.metered[i].metric) \in Int
                              /\ Bill(plan, usage, i) \in Meters
<1>1. plan.metered \in Seq(Components) /\ plan.base \in Nat
  BY PricingAssumption
<1>2. PICK m \in Nat : DOMAIN plan.metered = 1..m /\ \A i \in 1..m : plan.metered[i] \in Components
  BY <1>1
<1>3. \A i \in 1..m : Units(usage, plan.metered[i].metric) \in Int
  BY UnitsType
<1>4. \A i \in 1..m : Bill(plan, usage, i) \in Meters
  BY <1>2, <1>3, MeterType DEF Bill
<1> QED BY <1>1, <1>2, <1>3, <1>4

LEMMA ChargeType ==
  ASSUME NEW plan \in Plans, NEW usage \in Usages
  PROVE  Charge(plan, usage) \in Nat
<1>1. PICK m \in Nat : DOMAIN plan.metered = 1..m /\ \A i \in 1..m : Bill(plan, usage, i) \in Meters
  BY PlansAre
<1> DEFINE v == [i \in 1..m |-> Bill(plan, usage, i).total]
<1>2. v \in Seq(Nat)
  BY <1>1 DEF Meters
<1> HIDE DEF v
<1>3. Sum(v) \in Nat
  BY <1>2, SumNat
<1> QED BY <1>1, <1>3 DEF Charge, v

TaxedQuotes(metered, s, d, rate) ==
  {[metered |-> metered, subtotal |-> s, discount |-> d, tax |-> t, total |-> (s - d) + t] : t \in Rounded((s - d) * rate, 10000)}

LEMMA QuotesAre ==
  ASSUME NEW plan \in Plans, NEW usage \in Usages, NEW coupon, NEW p, NEW rate, NEW q \in Quotes(plan, usage, coupon, p, rate)
  PROVE  /\ Proratable(p)
         /\ \A i \in DOMAIN plan.metered : ~(Bill(plan, usage, i).billable > 0) /\ ~(Units(usage, plan.metered[i].metric) < 0)
         /\ q.metered = Charge(plan, usage)
         /\ q.subtotal \in Subtotals(plan.base, q.metered, p)
         /\ q.discount \in Discounts(plan, coupon, p, q.subtotal)
         /\ q.tax \in Rounded((q.subtotal - q.discount) * rate, 10000)
         /\ q.total = (q.subtotal - q.discount) + q.tax
<1> DEFINE bills == Bills(plan, usage)
<1>1. DOMAIN bills = DOMAIN plan.metered /\ \A i \in DOMAIN plan.metered : bills[i] = Bill(plan, usage, i)
  BY DEF Bills, Bill
<1>2. [i \in DOMAIN bills |-> bills[i].total] = [i \in DOMAIN plan.metered |-> Bill(plan, usage, i).total]
  BY DEF Bills, Bill
<1> DEFINE metered == Sum([i \in DOMAIN bills |-> bills[i].total])
<1>3. metered = Charge(plan, usage)
  BY <1>2, Zenon DEF Charge
<1> DEFINE ofDiscount(s, d) == TaxedQuotes(metered, s, d, rate)
           ofSubtotal(s) == UNION {ofDiscount(s, d) : d \in Discounts(plan, coupon, p, s)}
           refused == ~Proratable(p) \/ Negative(plan, usage) # {} \/ \E i \in DOMAIN bills : bills[i].billable > 0
<1>4. Quotes(plan, usage, coupon, p, rate) =
        IF refused THEN {} ELSE UNION {ofSubtotal(s) : s \in Subtotals(plan.base, metered, p)}
  BY DEF Quotes, TaxedQuotes
<1>5. Proratable(p) /\ Negative(plan, usage) = {} /\ \A i \in DOMAIN bills : ~(bills[i].billable > 0)
  <2> HIDE DEF ofSubtotal
  <2>1. ~refused
    BY <1>4
  <2> QED BY <2>1
<1>6. PICK s \in Subtotals(plan.base, metered, p) : q \in ofSubtotal(s)
  <2> HIDE DEF ofSubtotal, metered, refused
  <2> QED BY <1>4
<1>7. PICK d \in Discounts(plan, coupon, p, s) : q \in ofDiscount(s, d)
  <2> HIDE DEF ofDiscount, metered, refused
  <2> QED BY <1>6
<1>8. PICK t \in Rounded((s - d) * rate, 10000) :
        q = [metered |-> metered, subtotal |-> s, discount |-> d, tax |-> t, total |-> (s - d) + t]
  <2> HIDE DEF metered
  <2> QED BY <1>7 DEF TaxedQuotes
<1> HIDE DEF metered, refused, bills
<1>9. q.metered = metered /\ q.subtotal = s /\ q.discount = d /\ q.tax = t /\ q.total = (s - d) + t
  BY <1>8
<1>10. \A i \in DOMAIN plan.metered : ~(Bill(plan, usage, i).billable > 0)
  BY <1>1, <1>5
<1>11. \A i \in DOMAIN plan.metered : ~(Units(usage, plan.metered[i].metric) < 0)
  BY <1>5 DEF Negative
<1> QED BY <1>3, <1>5, <1>9, <1>10, <1>11

\* Differences that stay within a bound, item by item, add up to one that does.
Within(e, t, l) ==
  /\ e \in Seq(Int) /\ t \in Seq(Int) /\ l \in Seq(Int) /\ Len(t) = Len(e) /\ Len(l) = Len(e)
  /\ \A i \in 1..Len(e) : e[i] - 10 * t[i] \in 0..(9 * l[i])

LEMMA SumsWithin ==
  ASSUME NEW e, NEW t, NEW l, Within(e, t, l)
  PROVE  Sum(e) - 10 * Sum(t) \in 0..(9 * Sum(l))
<1>1. PICK m \in Nat : m = Len(e) /\ m = Len(t) /\ m = Len(l)
  BY DEF Within
<1>2. e \in Seq(Int) /\ t \in Seq(Int) /\ l \in Seq(Int)
  BY DEF Within
<1>3. \A i \in 1..m : e[i] \in Int /\ t[i] \in Int /\ l[i] \in Int
  <2>1. \A i \in 1..m : e[i] \in Int
    BY <1>1, <1>2, SeqItem, Zenon
  <2>2. \A i \in 1..m : t[i] \in Int
    BY <1>1, <1>2, SeqItem, Zenon
  <2>3. \A i \in 1..m : l[i] \in Int
    BY <1>1, <1>2, SeqItem, Zenon
  <2> QED BY <2>1, <2>2, <2>3
<1>4. \A i \in 1..m : e[i] - 10 * t[i] \in 0..(9 * l[i])
  BY <1>1 DEF Within
<1> DEFINE d == [i \in 1..m |-> e[i] + (-10) * t[i]]
           n == [i \in 1..m |-> 9 * l[i]]
<1>5. \A i \in 1..m : d[i] \in Nat /\ n[i] \in Int /\ d[i] <= n[i]
  <2> SUFFICES ASSUME NEW i \in 1..m PROVE d[i] \in Nat /\ n[i] \in Int /\ d[i] <= n[i]
    OBVIOUS
  <2>1. PICK x \in Int, y \in Int, z \in Int : x = e[i] /\ y = t[i] /\ z = l[i]
    BY <1>3
  <2>2. x - 10 * y \in 0..(9 * z)
    BY <1>4, <2>1
  <2>3. x + (-10) * y \in Nat /\ x + (-10) * y <= 9 * z
    BY <2>2
  <2> QED BY <2>1, <2>3
<1>6. d \in Seq(Nat) /\ d \in Seq(Int) /\ n \in Seq(Int) /\ Len(d) = m /\ Len(n) = m
  <2>1. \A i \in 1..m : d[i] \in Int
    BY <1>5
  <2>2. DOMAIN d = 1..m /\ DOMAIN n = 1..m
    OBVIOUS
  <2>3. d \in [1..m -> Nat] /\ d \in [1..m -> Int] /\ n \in [1..m -> Int]
    BY <1>5, <2>1
  <2> HIDE DEF d, n
  <2> QED BY <2>3
<1>7. \A i \in 1..m : d[i] = 1 * e[i] + (-10) * t[i] /\ n[i] = 9 * l[i] + 0 * l[i]
  BY <1>3
<1> HIDE DEF d, n
<1>8. m \in 0..m
  OBVIOUS
<1>9. Sum(d) = 1 * Sum(e) + (-10) * Sum(t)
  <2>1. Len(e) = Len(d) /\ Len(t) = Len(d) /\ \A i \in 1..Len(d) : d[i] = 1 * e[i] + (-10) * t[i]
    BY <1>1, <1>6, <1>7
  <2>2. 1 \in Int /\ -10 \in Int
    OBVIOUS
  <2>3. Combines(e, t, d, 1, -10)
    BY <1>2, <1>6, <2>1, <2>2, Zenon DEF Combines
  <2> QED BY <2>3, SumsLinear
<1>10. Sum(n) = 9 * Sum(l) + 0 * Sum(l)
  <2>1. Len(l) = Len(n) /\ \A i \in 1..Len(n) : n[i] = 9 * l[i] + 0 * l[i]
    BY <1>1, <1>6, <1>7
  <2>2. 9 \in Int /\ 0 \in Int
    OBVIOUS
  <2>3. Combines(l, l, n, 9, 0)
    BY <1>2, <1>6, <2>1, <2>2, Zenon DEF Combines
  <2> QED BY <2>3, SumsLinear
<1>11. Sums(d)[m] <= Sums(n)[m]
  <2>1. Len(d) = Len(n) /\ \A k \in 1..Len(n) : d[k] <= n[k]
    BY <1>5, <1>6
  <2>2. \A k \in 0..Len(n) : Sums(d)[k] <= Sums(n)[k]
    BY <1>6, <2>1, SumsMonotone
  <2> QED BY <1>6, <1>8, <2>2
<1>12. Sum(d) \in Nat /\ Sum(n) \in Int
  BY <1>6, SumNat, SumType
<1>13. PICK x \in Int, y \in Int, z \in Int : x = Sum(e) /\ y = Sum(t) /\ z = Sum(l)
  BY <1>2, SumType
<1>14. PICK u \in Nat, v \in Int : u = Sum(d) /\ v = Sum(n) /\ u <= v
  BY <1>6, <1>11, <1>12 DEF Sum
<1>15. u = x - 10 * y /\ v = 9 * z
  BY <1>9, <1>10, <1>13, <1>14
<1> QED BY <1>13, <1>14, <1>15

LEMMA UnitsPriced ==
  ASSUME Answered(call)
  PROVE  UnitsPricedByTier
<1> SUFFICES ASSUME call.fn = "quote", \A i \in DOMAIN call.plan.metered : Ascending(call.plan.metered[i])
             PROVE  LET exact == Sum([i \in DOMAIN call.plan.metered |->
                          LET c == call.plan.metered[i]
                              n == Units(call.usage, c.metric)
                          IN  Sum([k \in 1..LargerOf(0, n - c.included) |-> PriceOf(c, c.included + k)])])
                        tiers == Sum([i \in DOMAIN call.plan.metered |-> Len(call.plan.metered[i].tiers)])
                    IN  exact - 10 * call.quote.metered \in 0..(9 * tiers)
  BY DEF UnitsPricedByTier
<1>1. PICK plan \in Plans, usage \in Usages, coupon \in Coupons \cup {NoCoupon}, p \in Prorations, rate \in TaxRates :
        \E q \in Quotes(plan, usage, coupon, p, rate) :
          call = [fn |-> "quote", plan |-> plan, usage |-> usage, coupon |-> coupon, p |-> p, rate |-> rate, quote |-> q]
  BY AnswersByName DEF Quoted
<1>2. call.plan = plan /\ call.usage = usage /\ call.quote \in Quotes(plan, usage, coupon, p, rate)
  BY <1>1
<1>3. PICK m \in Nat : DOMAIN plan.metered = 1..m /\ \A i \in 1..m : /\ plan.metered[i] \in Components
                                                                  /\ Units(usage, plan.metered[i].metric) \in Int
                                                                  /\ Bill(plan, usage, i) \in Meters
  BY PlansAre
<1>4. /\ call.quote.metered = Charge(plan, usage) /\ \A i \in 1..m : ~(Bill(plan, usage, i).billable > 0)
      /\ \A i \in 1..m : Units(usage, plan.metered[i].metric) \in Nat
  BY <1>2, <1>3, QuotesAre
<1> DEFINE units(i) == LargerOf(0, Units(usage, plan.metered[i].metric) - plan.metered[i].included)
           exact(i) == Sum([k \in 1..units(i) |-> PriceOf(plan.metered[i], plan.metered[i].included + k)])
           e == [i \in 1..m |-> exact(i)]
           t == [i \in 1..m |-> Bill(plan, usage, i).total]
           l == [i \in 1..m |-> Len(plan.metered[i].tiers)]
<1>5. ASSUME NEW i \in 1..m
      PROVE  exact(i) \in Int /\ Bill(plan, usage, i).total \in Int /\ Len(plan.metered[i].tiers) \in Int
             /\ exact(i) - 10 * Bill(plan, usage, i).total \in 0..(9 * Len(plan.metered[i].tiers))
  <2>1. PICK c \in Components : c = plan.metered[i] /\ Ascending(c)
    BY <1>2, <1>3
  <2>2. PICK n \in Nat : n = Units(usage, c.metric)
    BY <1>4, <2>1
  <2>3. ~(MeterComponent(c, n).billable > 0) /\ Bill(plan, usage, i) = MeterComponent(c, n)
    BY <1>4, <2>1, <2>2 DEF Bill
  <2>4. /\ [u \in 1..units(i) |-> PriceOf(c, c.included + u)] \in Seq(Nat)
        /\ Sum([u \in 1..units(i) |-> PriceOf(c, c.included + u)]) - 10 * MeterComponent(c, n).total \in 0..(9 * Len(c.tiers))
    BY <2>1, <2>2, <2>3, ComponentPriced
  <2>5. exact(i) \in Int
    BY <2>1, <2>4, SumNat
  <2>6. Bill(plan, usage, i).total \in Int /\ Len(plan.metered[i].tiers) \in Int
    BY <1>3, <2>1 DEF Meters, Components
  <2> QED BY <2>1, <2>3, <2>4, <2>5, <2>6, Zenon
<1>6. Within(e, t, l)
  <2> HIDE DEF exact
  <2>1. e \in [1..m -> Int] /\ t \in [1..m -> Int] /\ l \in [1..m -> Int]
    BY <1>5
  <2>2. \A i \in 1..m : e[i] - 10 * t[i] \in 0..(9 * l[i])
    BY <1>5
  <2> HIDE DEF e, t, l
  <2>3. e \in Seq(Int) /\ t \in Seq(Int) /\ l \in Seq(Int) /\ Len(e) = m /\ Len(t) = m /\ Len(l) = m
    BY <2>1
  <2> QED BY <2>2, <2>3, Zenon DEF Within
<1>7. Sum(e) - 10 * Sum(t) \in 0..(9 * Sum(l))
  <2> HIDE DEF e, t, l
  <2> QED BY <1>6, SumsWithin
<1>8. Sum(t) = call.quote.metered
  BY <1>3, <1>4, Zenon DEF Charge
<1> QED BY <1>2, <1>3, <1>7, <1>8, Zenon

LEMMA UsageCosts ==
  ASSUME Answered(call)
  PROVE  UsageNeverCheaper
<1> SUFFICES ASSUME call.fn = "quote", NEW i \in DOMAIN call.plan.metered
             PROVE  LET c == call.plan.metered[i]
                        n == Units(call.usage, c.metric)
                    IN  MeterComponent(c, n).total <= MeterComponent(c, n + 1).total
  BY DEF UsageNeverCheaper
<1>1. PICK plan \in Plans, usage \in Usages : call.plan = plan /\ call.usage = usage
  BY AnswersByName DEF Quoted
<1>2. plan.metered[i] \in Components /\ Units(usage, plan.metered[i].metric) \in Int
  BY <1>1, PlansAre
<1> QED BY <1>1, <1>2, Dearer

LEMMA RoundedIs ==
  ASSUME NEW n \in Int, NEW d \in Nat, d # 0, NEW r \in Rounded(n, d)
  PROVE  /\ r \in Int /\ -d <= 2 * (n - r * d) /\ 2 * (n - r * d) <= d
         /\ n >= 0 => r \in Nat
<1>1. PICK q \in Int : q = n \div d /\ d * q <= n /\ n < d * q + d
  BY DivIs
<1>2. r \in q..(q + 1) /\ 2 * (n - r * d) \in -d..d
  BY <1>1 DEF Rounded
<1>3. n >= 0 => q >= 0
  <2>1. CASE q <= -1
    <3>1. d * q <= d * (-1)
      BY <2>1, MulLeq
    <3>2. PICK x \in Int : x = d * q
      OBVIOUS
    <3> QED BY <1>1, <3>1, <3>2
  <2> QED BY <2>1
<1>4. r \in Int
  BY <1>2
<1>5. PICK x \in Int : x = 2 * (n - r * d)
  BY <1>4
<1> QED BY <1>2, <1>3, <1>4, <1>5

\* Rounding less gives at most one unit more: of two numbers that lie half way, one may go up.
LEMMA RoundedClose ==
  ASSUME NEW x \in Int, NEW y \in Int, x <= y, NEW r \in Rounded(x, 10000), NEW s \in Rounded(y, 10000)
  PROVE  r \in Int /\ s \in Int /\ r <= s + 1
<1>1. r \in Int /\ 2 * (x - r * 10000) <= 10000 /\ -10000 <= 2 * (x - r * 10000)
  BY RoundedIs
<1>2. s \in Int /\ 2 * (y - s * 10000) <= 10000 /\ -10000 <= 2 * (y - s * 10000)
  BY RoundedIs
<1> QED BY <1>1, <1>2

\* What a quote is made of is not negative, and the discount at most the subtotal.
LEMMA DiscountBounds ==
  ASSUME NEW plan \in Plans, NEW usage \in Usages, NEW coupon \in Coupons \cup {NoCoupon}, NEW p \in Prorations, NEW rate,
         NEW q \in Quotes(plan, usage, coupon, p, rate)
  PROVE  q.subtotal \in Nat /\ q.discount \in Nat /\ q.discount <= q.subtotal
<1>1. PICK a \in Nat, b \in Nat : a = p[1] /\ b = p[2] /\ 0 < a /\ a <= b
  <2>1. p \in Nat \X Nat
    BY PricingAssumption
  <2>2. Proratable(p)
    BY QuotesAre
  <2> QED BY <2>1, <2>2 DEF Proratable
<1>2. PICK base \in Nat : base = plan.base
  BY PricingAssumption
<1>3. PICK metered \in Nat : metered = q.metered
  BY QuotesAre, ChargeType
<1>4. PICK s \in Nat : s = q.subtotal
  <2>1. q.subtotal \in Rounded((base + metered) * a, b)
    BY <1>1, <1>2, <1>3, QuotesAre DEF Subtotals
  <2>2. PICK x \in Nat : x = (base + metered) * a
    <3>1. base + metered \in Nat
      OBVIOUS
    <3> QED BY <3>1, ProductType
  <2>3. x \in Int /\ x >= 0 /\ b # 0
    BY <1>1
  <2>4. q.subtotal \in Nat
    BY <2>1, <2>2, <2>3, RoundedIs
  <2> QED BY <2>4
<1>5. q.discount \in Discounts(plan, coupon, p, s)
  BY <1>4, QuotesAre
<1>6. CASE coupon = NoCoupon \/ plan.id \notin coupon.plans
  BY <1>4, <1>5, <1>6 DEF Discounts
<1>7. CASE ~(coupon = NoCoupon \/ plan.id \notin coupon.plans)
  <2>1. PICK value \in Nat : value = coupon.value
    BY <1>7, PricingAssumption
  <2> DEFINE of == IF coupon.baseOnly THEN Rounded(plan.base * p[1], p[2]) ELSE {s}
             raw == IF coupon.percentage THEN UNION {Rounded(c * coupon.value, 10000) : c \in of} ELSE {coupon.value}
  <2>2. of \subseteq Nat
    <3> SUFFICES ASSUME NEW c \in of PROVE c \in Nat
      OBVIOUS
    <3>1. CASE coupon.baseOnly
      <4>1. PICK x \in Nat : x = base * a
        BY ProductType
      <4>2. c \in Rounded(x, b)
        BY <1>1, <1>2, <3>1, <4>1
      <4>3. x \in Int /\ x >= 0 /\ b # 0
        BY <1>1
      <4> QED BY <4>2, <4>3, RoundedIs
    <3>2. CASE ~coupon.baseOnly
      BY <3>2
    <3> QED BY <3>1, <3>2
  <2>3. raw \subseteq Nat
    <3> SUFFICES ASSUME NEW r \in raw PROVE r \in Nat
      OBVIOUS
    <3> HIDE DEF of
    <3>1. CASE coupon.percentage
      <4>1. PICK c \in of : r \in Rounded(c * coupon.value, 10000)
        BY <3>1
      <4>2. PICK x \in Nat : x = c * value
        BY <2>2, ProductType
      <4>3. r \in Rounded(x, 10000) /\ x \in Int /\ x >= 0
        BY <2>1, <4>1, <4>2
      <4> QED BY <4>3, RoundedIs
    <3>2. CASE ~coupon.percentage
      BY <2>1, <3>2
    <3> QED BY <3>1, <3>2
  <2>4. Discounts(plan, coupon, p, s) = {IF r > s THEN s ELSE r : r \in raw}
    BY <1>7 DEF Discounts
  <2> HIDE DEF raw
  <2>5. PICK r \in raw : q.discount = IF r > s THEN s ELSE r
    BY <1>5, <2>4
  <2>6. r \in Nat
    BY <2>3
  <2> QED BY <1>4, <2>5, <2>6
<1> QED BY <1>6, <1>7

LEMMA CouponsLower ==
  ASSUME Answered(call)
  PROVE  CouponsOnlyLower
<1> SUFFICES ASSUME call.fn = "quote"
             PROVE  /\ call.quote.discount \in 0..call.quote.subtotal
                    /\ \A q \in Quotes(call.plan, call.usage, NoCoupon, call.p, call.rate) :
                         q.subtotal = call.quote.subtotal /\ (call.quote.discount = 0 => q.tax = call.quote.tax) =>
                           call.quote.total <= q.total
  BY DEF CouponsOnlyLower
<1>1. PICK plan \in Plans, usage \in Usages, coupon \in Coupons \cup {NoCoupon}, p \in Prorations, rate \in TaxRates :
        \E q \in Quotes(plan, usage, coupon, p, rate) :
          call = [fn |-> "quote", plan |-> plan, usage |-> usage, coupon |-> coupon, p |-> p, rate |-> rate, quote |-> q]
  BY AnswersByName DEF Quoted
<1>2. /\ call.plan = plan /\ call.usage = usage /\ call.p = p /\ call.rate = rate
      /\ call.quote \in Quotes(plan, usage, coupon, p, rate)
  BY <1>1
<1>3. PICK s \in Nat, d \in Nat : s = call.quote.subtotal /\ d = call.quote.discount /\ d <= s
  <2>1. call.quote.subtotal \in Nat /\ call.quote.discount \in Nat /\ call.quote.discount <= call.quote.subtotal
    BY <1>2, DiscountBounds
  <2> QED BY <2>1, Zenon
<1>4. call.quote.tax \in Rounded((s - d) * rate, 10000) /\ call.quote.total = (s - d) + call.quote.tax
  BY <1>2, <1>3, QuotesAre
<1>5. rate \in Nat
  BY PricingAssumption
<1>6. ASSUME NEW q \in Quotes(plan, usage, NoCoupon, p, rate), q.subtotal = s, d = 0 => q.tax = call.quote.tax
      PROVE  call.quote.total <= q.total
  <2>1. q.discount = 0
    <3>1. q.discount \in Discounts(plan, NoCoupon, p, q.subtotal)
      BY QuotesAre
    <3> QED BY <3>1 DEF Discounts
  <2>2. q.tax \in Rounded((s - 0) * rate, 10000) /\ q.total = (s - 0) + q.tax
    BY <1>6, <2>1, QuotesAre
  <2>3. PICK x \in Int, y \in Int : x = (s - d) * rate /\ y = (s - 0) * rate /\ x <= y
    <3>1. s - d \in Int /\ s - 0 \in Int /\ s - d <= s - 0
      BY <1>3
    <3>2. rate * (s - d) <= rate * (s - 0)
      BY <1>5, <3>1, MulLeq
    <3>3. (s - d) * rate = rate * (s - d) /\ (s - 0) * rate = rate * (s - 0)
      BY <1>5
    <3>4. (s - d) * rate \in Int /\ (s - 0) * rate \in Int
      BY <1>5
    <3>5. PICK x \in Int, y \in Int : x = (s - d) * rate /\ y = (s - 0) * rate
      BY <3>4
    <3> QED BY <3>2, <3>3, <3>5
  <2>4. PICK t \in Int, u \in Int : t = call.quote.tax /\ u = q.tax /\ t <= u + 1
    BY <1>4, <2>2, <2>3, RoundedClose
  <2>5. d = 0 => t = u
    BY <1>6, <2>4
  <2>6. (s - d) + t <= (s - 0) + u
    BY <1>3, <2>4, <2>5
  <2> QED BY <1>4, <2>2, <2>4, <2>6
<1> QED BY <1>2, <1>3, <1>6

LEMMA PartsWhole ==
  ASSUME Answered(call)
  PROVE  PartsMakeTheWhole
<1> SUFFICES ASSUME call.fn = "quote", call.p[1] < call.p[2],
                    NEW rest \in Subtotals(call.plan.base, call.quote.metered, <<call.p[2] - call.p[1], call.p[2]>>)
             PROVE  call.quote.subtotal + rest - (call.plan.base + call.quote.metered) \in -1..1
  BY DEF PartsMakeTheWhole
<1>1. PICK plan \in Plans, usage \in Usages, coupon \in Coupons \cup {NoCoupon}, p \in Prorations, rate \in TaxRates :
        \E q \in Quotes(plan, usage, coupon, p, rate) :
          call = [fn |-> "quote", plan |-> plan, usage |-> usage, coupon |-> coupon, p |-> p, rate |-> rate, quote |-> q]
  BY AnswersByName DEF Quoted
<1>2. call.plan = plan /\ call.p = p /\ call.quote \in Quotes(plan, usage, coupon, p, rate)
  BY <1>1
<1>3. PICK a \in Nat, b \in Nat : a = p[1] /\ b = p[2] /\ a < b /\ b # 0
  <2>1. p \in Nat \X Nat
    BY PricingAssumption
  <2> QED BY <1>2, <2>1
<1>4. PICK base \in Nat, metered \in Nat : base = plan.base /\ metered = call.quote.metered
  BY <1>2, QuotesAre, ChargeType, PricingAssumption
<1>5. PICK w \in Nat : w = base + metered
  OBVIOUS
<1>6. PICK s \in Int : s = call.quote.subtotal /\ -b <= 2 * (w * a - s * b) /\ 2 * (w * a - s * b) <= b
  <2>1. call.quote.subtotal \in Rounded(w * a, b)
    BY <1>2, <1>3, <1>4, <1>5, QuotesAre DEF Subtotals
  <2>2. w * a \in Int
    OBVIOUS
  <2> QED BY <1>3, <2>1, <2>2, RoundedIs
<1>7. rest \in Int /\ -b <= 2 * (w * (b - a) - rest * b) /\ 2 * (w * (b - a) - rest * b) <= b
  <2>1. rest \in Rounded(w * (b - a), b)
    BY <1>2, <1>3, <1>4, <1>5 DEF Subtotals
  <2>2. w * (b - a) \in Int
    OBVIOUS
  <2> QED BY <1>3, <2>1, <2>2, RoundedIs
<1>8. PICK k \in Int : k = s + rest - w
  BY <1>7
<1>9. b * k <= b /\ -b <= b * k
  <2>1. PICK x \in Int, y \in Int, z \in Int, t \in Int : x = w * a /\ y = s * b /\ z = w * b /\ t = rest * b
    BY <1>7
  <2>2. w * (b - a) = z - x
    BY <2>1
  <2>3. b * k = y + t - z
    BY <1>7, <1>8, <2>1
  <2>4. -b <= 2 * (x - y) /\ 2 * (x - y) <= b
    BY <1>6, <2>1
  <2>5. -b <= 2 * ((z - x) - t) /\ 2 * ((z - x) - t) <= b
    BY <1>7, <2>1, <2>2
  <2>6. y + t - z <= b /\ -b <= y + t - z
    BY <2>4, <2>5
  <2> QED BY <2>3, <2>6
<1>10. k <= 1
  <2>1. CASE 2 <= k
    <3>1. b * 2 <= b * k
      BY <2>1, MulLeq
    <3>2. PICK x \in Int : x = b * k
      OBVIOUS
    <3> QED BY <1>3, <1>9, <3>1, <3>2
  <2> QED BY <2>1
<1>11. -1 <= k
  <2>1. CASE k <= -2
    <3>1. b * k <= b * (-2)
      BY <2>1, MulLeq
    <3>2. PICK x \in Int : x = b * k
      OBVIOUS
    <3> QED BY <1>3, <1>9, <3>1, <3>2
  <2> QED BY <2>1
<1>12. k = call.quote.subtotal + rest - (call.plan.base + call.quote.metered)
  BY <1>2, <1>4, <1>5, <1>6, <1>8
<1> QED BY <1>10, <1>11, <1>12

-----------------------------------------------------------------------------
(* Partners *)

\* The last of the largest items at the places D.
LEMMA LargestItem ==
  ASSUME NEW n \in Nat, NEW v \in [1..n -> Int], NEW D \in SUBSET (1..n), D # {}
  PROVE  \E k \in D : \A j \in D \ {k} : v[k] > v[j] \/ (v[k] = v[j] /\ k > j)
<1> DEFINE above(k, j) == v[k] > v[j] \/ (v[k] = v[j] /\ k > j)
           P == {m \in 0..n : \A S \in SUBSET (1..m) : S # {} => \E k \in S : \A j \in S \ {k} : above(k, j)}
<1>1. 0 \in P
  <2>1. 1..0 = {} /\ 0 \in 0..n
    OBVIOUS
  <2> HIDE DEF above
  <2> QED BY <2>1
<1>2. ASSUME NEW m \in 1..n, m - 1 \in P PROVE m \in P
  <2>1. ASSUME NEW S \in SUBSET (1..m), S # {} PROVE \E k \in S : \A j \in S \ {k} : above(k, j)
    <3>1. CASE m \notin S
      <4>1. S \in SUBSET (1..(m - 1))
        BY <3>1
      <4> HIDE DEF above
      <4> QED BY <1>2, <2>1, <4>1
    <3>2. CASE S = {m}
      BY <3>2
    <3>3. CASE m \in S /\ S # {m}
      <4>1. S \ {m} \in SUBSET (1..(m - 1)) /\ S \ {m} # {}
        BY <3>3
      <4>2. PICK k \in S \ {m} : \A j \in (S \ {m}) \ {k} : above(k, j)
        <5> HIDE DEF above
        <5> QED BY <1>2, <4>1
      <4>3. k \in 1..(m - 1) /\ v[k] \in Int /\ v[m] \in Int
        BY <4>1
      <4>4. CASE v[k] > v[m]
        <5>1. \A j \in S \ {k} : above(k, j)
          BY <4>2, <4>4
        <5> QED BY <5>1
      <4>5. CASE v[k] <= v[m]
        <5>1. \A j \in S \ {m} : v[j] \in Int /\ j \in 1..(m - 1)
          BY <4>1
        <5>2. \A j \in S \ {m} : above(m, j)
          BY <4>2, <4>3, <4>5, <5>1
        <5> QED BY <3>3, <5>2
      <4> QED BY <4>3, <4>4, <4>5
    <3> QED BY <3>1, <3>2, <3>3
  <2> HIDE DEF above
  <2> QED BY <2>1
<1> HIDE DEF P
<1>3. n \in P
  <2>1. 0..n \subseteq P
    BY <1>1, <1>2, UpTo
  <2> QED BY <2>1
<1> QED BY <1>3 DEF P

LEMMA HighestMet ==
  ASSUME Answered(call)
  PROVE  HighestTierMet
<1> SUFFICES ASSUME call.fn = "qualifyingTier", NEW i \in DOMAIN call.tiers, call.tiers[i].min <= call.revenue
             PROVE  call.tiers[i].min <= call.tiers[call.tier].min /\ call.tiers[call.tier].min <= call.revenue
  BY DEF HighestTierMet
<1>1. PICK tiers \in TierLists, revenue \in Revenues :
        call.tiers = tiers /\ call.revenue = revenue /\ call.tier = QualifyingTier(tiers, revenue)
  BY AnswersByName DEF Qualified
<1>2. tiers \in Seq([min : Int, rate : Nat]) /\ revenue \in Int
  BY PartnersAssumption
<1>3. PICK n \in Nat : DOMAIN tiers = 1..n /\ \A k \in 1..n : tiers[k].min \in Int
  <2> DEFINE T == [min : Int, rate : Nat]
  <2>1. \A r \in T : r.min \in Int
    OBVIOUS
  <2> HIDE DEF T
  <2>2. Len(tiers) \in Nat /\ DOMAIN tiers = 1..Len(tiers) /\ \A k \in 1..Len(tiers) : tiers[k] \in T
    <3>1. tiers \in Seq(T)
      BY <1>2 DEF T
    <3> QED BY <3>1
  <2> QED BY <2>1, <2>2
<1> DEFINE met == {k \in DOMAIN tiers : tiers[k].min <= revenue}
           v == [k \in 1..n |-> tiers[k].min]
<1>4. i \in met /\ met \in SUBSET (1..n)
  BY <1>1, <1>3
<1>5. v \in [1..n -> Int]
  BY <1>3
<1>6. PICK k \in met : \A j \in met \ {k} : v[k] > v[j] \/ (v[k] = v[j] /\ k > j)
  <2> HIDE DEF v, met
  <2> QED BY <1>4, <1>5, LargestItem
<1>7. \A j \in met \ {k} : Above(tiers, k, j)
  BY <1>3, <1>6 DEF Above
<1>8. PICK c \in met : c = QualifyingTier(tiers, revenue) /\ \A j \in met \ {c} : Above(tiers, c, j)
  <2>1. QualifyingTier(tiers, revenue) = CHOOSE c \in met : \A j \in met \ {c} : Above(tiers, c, j)
    BY <1>4 DEF QualifyingTier
  <2> HIDE DEF met
  <2> QED BY <1>7, <2>1
<1>9. i = c \/ Above(tiers, c, i)
  BY <1>4, <1>8
<1>10. tiers[c].min \in Int /\ tiers[i].min \in Int /\ tiers[c].min <= revenue
  BY <1>1, <1>3
<1>11. tiers[i].min <= tiers[c].min
  BY <1>9, <1>10 DEF Above
<1> QED BY <1>1, <1>8, <1>10, <1>11

-----------------------------------------------------------------------------
(* Attribution *)

Below(v, c)    == {k \in DOMAIN v : v[k] < c}
NotAbove(v, c) == {k \in DOMAIN v : v[k] <= c}

\* The place of c, when the items are sorted, is the index.
AtIndex(v, index, c) ==
  c \in Range(v) /\ Cardinality(Below(v, c)) <= index /\ Cardinality(NotAbove(v, c)) > index

LEMMA Sizes ==
  ASSUME NEW n \in Nat, NEW v \in [1..n -> Int], NEW c
  PROVE  /\ IsFiniteSet(Below(v, c)) /\ Cardinality(Below(v, c)) \in Nat
         /\ IsFiniteSet(NotAbove(v, c)) /\ Cardinality(NotAbove(v, c)) \in Nat
<1>1. IsFiniteSet(1..n)
  BY FS_Interval
<1>2. Below(v, c) \subseteq 1..n /\ NotAbove(v, c) \subseteq 1..n
  BY DEF Below, NotAbove
<1> QED BY <1>1, <1>2, FS_Subset, FS_CardinalityType

LEMMA OneAtIndex ==
  ASSUME NEW n \in Nat, NEW v \in [1..n -> Int], NEW index \in Nat, NEW c, NEW d, AtIndex(v, index, c), AtIndex(v, index, d)
  PROVE  ~(c < d)
<1> SUFFICES ASSUME c < d PROVE FALSE
  OBVIOUS
<1>1. c \in Int /\ d \in Int
  BY DEF AtIndex, Range
<1>2. NotAbove(v, c) \subseteq Below(v, d)
  <2> SUFFICES ASSUME NEW k \in 1..n, v[k] <= c PROVE v[k] < d
    BY DEF NotAbove, Below
  <2> QED BY <1>1
<1>3. Cardinality(NotAbove(v, c)) <= Cardinality(Below(v, d))
  BY <1>2, Sizes, FS_Subset
<1>4. /\ Cardinality(NotAbove(v, c)) \in Nat /\ Cardinality(Below(v, d)) \in Nat
      /\ Cardinality(Below(v, d)) <= index /\ Cardinality(NotAbove(v, c)) > index
  BY Sizes DEF AtIndex
<1> QED BY <1>3, <1>4

LEMMA SomeAtIndex ==
  ASSUME NEW n \in Nat, NEW v \in [1..n -> Int], NEW index \in 0..(n - 1)
  PROVE  \E c : AtIndex(v, index, c)
<1> DEFINE A == {k \in 1..n : Cardinality(NotAbove(v, v[k])) > index}
           w == [k \in 1..n |-> -v[k]]
<1>1. A # {}
  <2>1. 1..n # {} /\ 1..n \in SUBSET (1..n)
    OBVIOUS
  <2>2. PICK k \in 1..n : \A j \in (1..n) \ {k} : v[k] > v[j] \/ (v[k] = v[j] /\ k > j)
    BY <2>1, LargestItem
  <2>3. \A j \in 1..n : v[j] \in Int
    OBVIOUS
  <2>4. \A j \in 1..n : v[j] <= v[k]
    BY <2>2, <2>3
  <2>5. NotAbove(v, v[k]) = 1..n
    BY <2>4 DEF NotAbove
  <2>6. Cardinality(1..n) = n
    BY FS_Interval
  <2> QED BY <2>5, <2>6
<1>2. A \in SUBSET (1..n) /\ w \in [1..n -> Int]
  OBVIOUS
<1>3. PICK k \in A : \A j \in A \ {k} : w[k] > w[j] \/ (w[k] = w[j] /\ k > j)
  <2> HIDE DEF A, w
  <2> QED BY <1>1, <1>2, LargestItem
<1>4. ASSUME NEW j \in A PROVE v[k] <= v[j]
  <2>1. j \in 1..n /\ k \in 1..n /\ v[j] \in Int /\ v[k] \in Int
    OBVIOUS
  <2>2. j = k \/ w[k] >= w[j]
    <3>1. w[j] \in Int /\ w[k] \in Int
      BY <2>1
    <3> HIDE DEF A, w
    <3> QED BY <1>3, <3>1
  <2> QED BY <2>1, <2>2
<1>5. Cardinality(Below(v, v[k])) <= index
  <2>1. CASE Below(v, v[k]) = {}
    BY <2>1, FS_EmptySet
  <2>2. CASE Below(v, v[k]) # {}
    <3>1. Below(v, v[k]) \in SUBSET (1..n)
      BY DEF Below
    <3>2. PICK j \in Below(v, v[k]) : \A i \in Below(v, v[k]) \ {j} : v[j] > v[i] \/ (v[j] = v[i] /\ j > i)
      BY <2>2, <3>1, LargestItem
    <3>3. \A i \in Below(v, v[k]) : i \in 1..n /\ v[i] \in Int /\ v[i] <= v[j] /\ v[i] < v[k]
      BY <3>2 DEF Below
    <3>4. NotAbove(v, v[j]) = Below(v, v[k])
      <4>1. k \in 1..n /\ v[k] \in Int /\ j \in 1..n /\ v[j] \in Int /\ v[j] < v[k]
        BY <3>3
      <4>2. ASSUME NEW i \in 1..n, v[i] <= v[j] PROVE v[i] < v[k]
        <5>1. v[i] \in Int
          OBVIOUS
        <5> QED BY <4>1, <4>2, <5>1
      <4> HIDE DEF A
      <4>3. NotAbove(v, v[j]) \subseteq Below(v, v[k])
        BY <4>2 DEF NotAbove, Below
      <4>4. Below(v, v[k]) \subseteq NotAbove(v, v[j])
        BY <3>3 DEF NotAbove
      <4> QED BY <4>3, <4>4
    <3>5. SUFFICES ASSUME Cardinality(Below(v, v[k])) > index PROVE FALSE
      BY Sizes
    <3>6. j \in A
      BY <3>3, <3>4, <3>5
    <3>7. v[k] <= v[j]
      BY <1>4, <3>6
    <3>8. v[k] \in Int /\ v[j] \in Int /\ v[j] < v[k]
      BY <3>3
    <3> QED BY <3>7, <3>8
  <2> QED BY <2>1, <2>2
<1>6. v[k] \in Range(v) /\ Cardinality(NotAbove(v, v[k])) > index
  BY DEF Range
<1>7. AtIndex(v, index, v[k])
  BY <1>5, <1>6 DEF AtIndex
<1> QED BY <1>7

LEMMA AttributeIs ==
  ASSUME NEW n \in Nat, n # 0, NEW v \in [1..n -> Int], NEW hash \in Nat
  PROVE  AtIndex(v, hash % n, Attribute(hash, v)) /\ hash % n \in Nat
<1>1. Len(v) = n
  OBVIOUS
<1>2. hash % n \in 0..(n - 1)
  OBVIOUS
<1>3. PICK index \in 0..(n - 1) : index = hash % n
  BY <1>2
<1>4. PICK c : AtIndex(v, index, c)
  BY SomeAtIndex
<1>5. Attribute(hash, v) = CHOOSE d \in Range(v) : Cardinality(Below(v, d)) <= index /\ Cardinality(NotAbove(v, d)) > index
  BY <1>1, <1>3, Zenon DEF Attribute, Below, NotAbove
<1>6. AtIndex(v, index, Attribute(hash, v))
  BY <1>4, <1>5, Zenon DEF AtIndex
<1> QED BY <1>3, <1>6

\* The order of the items does not move any of them to another place of the sorted ones.
Rearranges(order, n, v, u) ==
  n \in Nat /\ v \in [1..n -> Int] /\ order \in Bijection(1..n, 1..n) /\ u = [k \in 1..n |-> v[order[k]]]

LEMMA Reordered ==
  ASSUME NEW order, NEW n, NEW v, NEW u, Rearranges(order, n, v, u), NEW index, NEW c, AtIndex(u, index, c)
  PROVE  AtIndex(v, index, c)
<1>0. n \in Nat /\ v \in [1..n -> Int] /\ order \in Bijection(1..n, 1..n)
  BY DEF Rearranges
<1>1. /\ order \in [1..n -> 1..n]
      /\ \A k, j \in 1..n : order[k] = order[j] => k = j
      /\ \A k \in 1..n : \E j \in 1..n : order[j] = k
  BY <1>0 DEF Bijection, Injection, Surjection, IsInjective
<1>2. u \in [1..n -> Int] /\ \A k \in 1..n : u[k] = v[order[k]]
  BY <1>0, <1>1 DEF Rearranges
<1>3. Range(u) = Range(v)
  <2>1. DOMAIN u = 1..n /\ DOMAIN v = 1..n /\ \A k \in 1..n : u[k] = v[order[k]]
    BY <1>0, <1>2
  <2>2. ASSUME NEW k \in 1..n PROVE u[k] \in Range(v)
    BY <1>1, <2>1 DEF Range
  <2>3. ASSUME NEW k \in 1..n PROVE v[k] \in Range(u)
    <3>1. PICK j \in 1..n : order[j] = k
      BY <1>1
    <3> QED BY <2>1, <3>1 DEF Range
  <2>4. Range(u) \subseteq Range(v)
    <3> SUFFICES ASSUME NEW x \in Range(u) PROVE x \in Range(v)
      OBVIOUS
    <3>1. PICK k \in 1..n : x = u[k]
      BY <2>1, Zenon DEF Range
    <3> QED BY <2>2, <3>1
  <2>5. Range(v) \subseteq Range(u)
    <3> SUFFICES ASSUME NEW x \in Range(v) PROVE x \in Range(u)
      OBVIOUS
    <3>1. PICK k \in 1..n : x = v[k]
      BY <2>1, Zenon DEF Range
    <3> QED BY <2>3, <3>1
  <2> QED BY <2>4, <2>5
<1>4. ASSUME NEW S \in SUBSET (1..n), NEW T \in SUBSET (1..n), \A k \in 1..n : k \in S <=> order[k] \in T
      PROVE  Cardinality(S) = Cardinality(T)
  <2> DEFINE f == [k \in S |-> order[k]]
  <2>1. f \in [S -> T]
    BY <1>1, <1>4
  <2>2. \A k, j \in S : f[k] = f[j] => k = j
    BY <1>1
  <2>3. \A t \in T : \E k \in S : f[k] = t
    BY <1>1, <1>4
  <2>4. f \in Bijection(S, T)
    <3> HIDE DEF f
    <3> QED BY <2>1, <2>2, <2>3 DEF Bijection, Injection, Surjection, IsInjective
  <2>5. ExistsBijection(S, T)
    BY <2>4 DEF ExistsBijection
  <2>6. IsFiniteSet(S)
    <3>1. IsFiniteSet(1..n)
      BY <1>0, FS_Interval
    <3> QED BY <3>1, FS_Subset
  <2> QED BY <2>5, <2>6, FS_Bijection
<1>5. Cardinality(Below(u, c)) = Cardinality(Below(v, c))
  <2>1. Below(u, c) \in SUBSET (1..n) /\ Below(v, c) \in SUBSET (1..n)
    BY <1>0, <1>2 DEF Below
  <2>2. \A k \in 1..n : k \in Below(u, c) <=> order[k] \in Below(v, c)
    BY <1>0, <1>1, <1>2 DEF Below
  <2> QED BY <1>4, <2>1, <2>2
<1>6. Cardinality(NotAbove(u, c)) = Cardinality(NotAbove(v, c))
  <2>1. NotAbove(u, c) \in SUBSET (1..n) /\ NotAbove(v, c) \in SUBSET (1..n)
    BY <1>0, <1>2 DEF NotAbove
  <2>2. \A k \in 1..n : k \in NotAbove(u, c) <=> order[k] \in NotAbove(v, c)
    BY <1>0, <1>1, <1>2 DEF NotAbove
  <2> QED BY <1>4, <2>1, <2>2
<1> QED BY <1>3, <1>5, <1>6 DEF AtIndex

LEMMA AttributedOnce ==
  ASSUME Answered(call)
  PROVE  AttributionIgnoresOrder
<1> SUFFICES ASSUME call.fn = "attribute", NEW order \in Bijection(DOMAIN call.candidates, DOMAIN call.candidates)
             PROVE  Attribute(call.hash, [k \in DOMAIN call.candidates |-> call.candidates[order[k]]]) = call.partner
  BY DEF AttributionIgnoresOrder
<1>1. PICK hash \in Hashes, v \in Candidates : call.hash = hash /\ call.candidates = v /\ call.partner = Attribute(hash, v)
  BY AnswersByName DEF Attributed
<1>2. hash \in Nat /\ v \in Seq(Int) /\ v # <<>>
  BY PartnersAssumption
<1>3. PICK n \in Nat : n # 0 /\ v \in [1..n -> Int] /\ DOMAIN v = 1..n
  BY <1>2
<1>4. PICK u : u = [k \in 1..n |-> v[order[k]]]
  OBVIOUS
<1>5. order \in Bijection(1..n, 1..n)
  BY <1>1, <1>3
<1>6. u \in [1..n -> Int]
  BY <1>3, <1>4, <1>5 DEF Bijection, Injection
<1>7. PICK index \in Nat : index = hash % n /\ AtIndex(v, index, Attribute(hash, v)) /\ AtIndex(u, index, Attribute(hash, u))
  BY <1>2, <1>3, <1>6, AttributeIs
<1>8. AtIndex(v, index, Attribute(hash, u))
  <2>1. Rearranges(order, n, v, u)
    BY <1>3, <1>4, <1>5 DEF Rearranges
  <2> QED BY <1>7, <2>1, Reordered
<1>9. Attribute(hash, u) \in Int /\ Attribute(hash, v) \in Int
  BY <1>3, <1>7, <1>8 DEF AtIndex, Range
<1>10. ~(Attribute(hash, u) < Attribute(hash, v)) /\ ~(Attribute(hash, v) < Attribute(hash, u))
  BY <1>3, <1>7, <1>8, OneAtIndex
<1>11. Attribute(hash, u) = Attribute(hash, v)
  BY <1>9, <1>10
<1> QED BY <1>1, <1>3, <1>4, <1>11

-----------------------------------------------------------------------------
(* Statements *)

LEMMA ReferralsAre ==
  ASSUME NEW referrals \in Referrals
  PROVE  \E n \in Nat : /\ DOMAIN referrals = 1..n /\ Len(referrals) = n
                        /\ \A k \in 1..n : referrals[k].partner \in Int /\ referrals[k].revenue \in Int
<1> DEFINE T == [partner : Int, revenue : Int]
<1>1. \A r \in T : r.partner \in Int /\ r.revenue \in Int
  OBVIOUS
<1>2. referrals \in Seq(T)
  BY PartnersAssumption
<1> HIDE DEF T
<1>3. Len(referrals) \in Nat /\ DOMAIN referrals = 1..Len(referrals) /\ \A k \in 1..Len(referrals) : referrals[k] \in T
  BY <1>2
<1> QED BY <1>1, <1>3

LEMMA OwnedIs ==
  ASSUME NEW referrals \in Referrals, NEW partner
  PROVE  /\ Owned(partner, referrals) \in Seq(Int) /\ Len(Owned(partner, referrals)) = Len(referrals)
         /\ \A k \in 1..Len(referrals) :
              Owned(partner, referrals)[k] = IF referrals[k].partner = partner THEN referrals[k].revenue ELSE 0
<1>1. PICK n \in Nat : /\ DOMAIN referrals = 1..n /\ Len(referrals) = n
                       /\ \A k \in 1..n : referrals[k].partner \in Int /\ referrals[k].revenue \in Int
  BY ReferralsAre
<1> DEFINE item(k) == IF referrals[k].partner = partner THEN referrals[k].revenue ELSE 0
           v == [k \in 1..n |-> item(k)]
<1>2. \A k \in 1..n : item(k) \in Int
  BY <1>1
<1>3. Owned(partner, referrals) = v
  BY <1>1 DEF Owned
<1>4. v \in Seq(Int) /\ Len(v) = n /\ \A k \in 1..n : v[k] = item(k)
  <2> HIDE DEF item
  <2> QED BY <1>2
<1> HIDE DEF v
<1> QED BY <1>1, <1>3, <1>4

\* A statement is made up of the referrals of its partner.
LEMMA StatedIs ==
  ASSUME Answered(call), call.fn = "statement"
  PROVE  \E m \in Nat : /\ call.referrals \in Referrals /\ DOMAIN call.statement = 1..m /\ DOMAIN PartnerTiers = 1..m
                        /\ \A p \in 1..m :
                             /\ call.statement[p].revenue = Sum(Owned(p, call.referrals))
                             /\ call.statement[p].commission \in Commissions(call.tiers, p, Sum(Owned(p, call.referrals)))
                             /\ call.tiers[PartnerTiers[p]].rate \in Nat
<1>1. PICK tiers \in {t \in TierLists : \A p \in DOMAIN PartnerTiers : PartnerTiers[p] \in DOMAIN t}, referrals \in Referrals :
        \E statement \in [DOMAIN PartnerTiers -> UNION {Statements(tiers, p, referrals) : p \in DOMAIN PartnerTiers}] :
          /\ \A p \in DOMAIN PartnerTiers : statement[p] \in Statements(tiers, p, referrals)
          /\ call = [fn |-> "statement", tiers |-> tiers, referrals |-> referrals, statement |-> statement]
  BY AnswersByName DEF Stated
<1>2. /\ DOMAIN call.statement = DOMAIN PartnerTiers /\ call.tiers = tiers /\ call.referrals = referrals
      /\ \A p \in DOMAIN PartnerTiers : call.statement[p] \in Statements(tiers, p, referrals)
  BY <1>1
<1>3. PICK m \in Nat : DOMAIN PartnerTiers = 1..m
  <2>1. PartnerTiers \in Seq(Nat)
    BY PartnersAssumption
  <2> QED BY <2>1
<1>4. ASSUME NEW p \in 1..m PROVE tiers[PartnerTiers[p]].rate \in Nat
  <2> DEFINE T == [min : Int, rate : Nat]
  <2>1. \A r \in T : r.rate \in Nat
    OBVIOUS
  <2>2. tiers \in Seq(T)
    BY PartnersAssumption
  <2> HIDE DEF T
  <2>3. PartnerTiers[p] \in DOMAIN tiers
    BY <1>3
  <2>4. tiers[PartnerTiers[p]] \in T
    BY <2>2, <2>3
  <2> QED BY <2>1, <2>4
<1>5. ASSUME NEW p \in 1..m
      PROVE  /\ call.statement[p].revenue = Sum(Owned(p, referrals))
             /\ call.statement[p].commission \in Commissions(tiers, p, Sum(Owned(p, referrals)))
  <2>1. call.statement[p] \in {[revenue |-> Sum(Owned(p, referrals)), commission |-> c] :
                                 c \in Commissions(tiers, p, Sum(Owned(p, referrals)))}
    BY <1>2, <1>3, Zenon DEF Statements
  <2>2. PICK c \in Commissions(tiers, p, Sum(Owned(p, referrals))) :
          call.statement[p] = [revenue |-> Sum(Owned(p, referrals)), commission |-> c]
    BY <2>1
  <2> QED BY <2>2
<1> QED BY <1>2, <1>3, <1>4, <1>5

LEMMA CountedOnce ==
  ASSUME Answered(call)
  PROVE  ReferralsCountOnce
<1> SUFFICES ASSUME call.fn = "statement"
             PROVE  Sum([p \in DOMAIN call.statement |-> call.statement[p].revenue]) =
                    Sum([k \in DOMAIN call.referrals |->
                           IF call.referrals[k].partner \in DOMAIN PartnerTiers THEN call.referrals[k].revenue ELSE 0])
  BY DEF ReferralsCountOnce
<1>1. PICK m \in Nat : /\ call.referrals \in Referrals /\ DOMAIN call.statement = 1..m /\ DOMAIN PartnerTiers = 1..m
                       /\ \A p \in 1..m : call.statement[p].revenue = Sum(Owned(p, call.referrals))
  BY StatedIs
<1>2. PICK r \in Referrals : r = call.referrals
  BY <1>1
<1>3. PICK n \in Nat : /\ DOMAIN r = 1..n /\ Len(r) = n
                       /\ \A k \in 1..n : r[k].partner \in Int /\ r[k].revenue \in Int
  BY ReferralsAre
<1> DEFINE item(p, k) == IF r[k].partner \in 1..p THEN r[k].revenue ELSE 0
           first(p) == [k \in 1..n |-> item(p, k)]
           revenues == [p \in 1..m |-> Sum(Owned(p, r))]
<1>4. ASSUME NEW p \in 0..m
      PROVE  first(p) \in Seq(Int) /\ Len(first(p)) = n /\ \A k \in 1..n : first(p)[k] = item(p, k)
  <2>1. \A k \in 1..n : item(p, k) \in Int
    BY <1>3
  <2> HIDE DEF item
  <2> QED BY <2>1
<1>5. revenues \in Seq(Int) /\ Len(revenues) = m /\ \A p \in 1..m : revenues[p] = Sum(Owned(p, r))
  <2>1. \A p \in 1..m : Sum(Owned(p, r)) \in Int
    BY OwnedIs, SumType
  <2> QED BY <2>1
<1>6. ASSUME NEW p \in 1..m PROVE Sum(first(p)) = Sum(first(p - 1)) + Sum(Owned(p, r))
  <2>1. PICK u : u = first(p - 1) /\ u \in Seq(Int) /\ Len(u) = n /\ \A k \in 1..n : u[k] = item(p - 1, k)
    <3>1. p - 1 \in 0..m
      OBVIOUS
    <3> HIDE DEF item, first
    <3> QED BY <1>4, <3>1
  <2>2. PICK w : w = first(p) /\ w \in Seq(Int) /\ Len(w) = n /\ \A k \in 1..n : w[k] = item(p, k)
    <3>1. p \in 0..m
      OBVIOUS
    <3> HIDE DEF item, first
    <3> QED BY <1>4, <3>1
  <2>3. PICK v : /\ v = Owned(p, r) /\ v \in Seq(Int) /\ Len(v) = n
                 /\ \A k \in 1..n : v[k] = IF r[k].partner = p THEN r[k].revenue ELSE 0
    <3>1. /\ Owned(p, r) \in Seq(Int) /\ Len(Owned(p, r)) = Len(r)
          /\ \A k \in 1..Len(r) : Owned(p, r)[k] = IF r[k].partner = p THEN r[k].revenue ELSE 0
      BY OwnedIs, Zenon
    <3> QED BY <1>3, <3>1, Zenon
  <2>4. ASSUME NEW k \in 1..n PROVE w[k] = 1 * u[k] + 1 * v[k]
    <3>1. PICK x \in Int, y \in Int : x = r[k].partner /\ y = r[k].revenue
      BY <1>3
    <3>2. u[k] = IF x \in 1..(p - 1) THEN y ELSE 0
      BY <2>1, <3>1, Zenon
    <3>3. w[k] = IF x \in 1..p THEN y ELSE 0
      BY <2>2, <3>1, Zenon
    <3>4. v[k] = IF x = p THEN y ELSE 0
      BY <2>3, <3>1
    <3> QED BY <3>2, <3>3, <3>4
  <2> HIDE DEF item, first
  <2>5. Combines(u, v, w, 1, 1)
    <3>1. Len(w) = n /\ Len(u) = Len(w) /\ Len(v) = Len(w) /\ 1 \in Int
      BY <2>1, <2>2, <2>3
    <3> QED BY <2>1, <2>2, <2>3, <2>4, <3>1, Zenon DEF Combines
  <2>6. Sum(w) = 1 * Sum(u) + 1 * Sum(v)
    BY <2>5, SumsLinear
  <2>7. Sum(u) \in Int /\ Sum(v) \in Int
    BY <2>1, <2>3, SumType
  <2> QED BY <2>1, <2>2, <2>3, <2>6, <2>7
<1> HIDE DEF revenues
<1>7. Sum(first(0)) = 0
  <2>1. PICK u : u = first(0) /\ u \in Seq(Int) /\ Len(u) = n /\ \A k \in 1..n : u[k] = item(0, k)
    <3>1. 0 \in 0..m
      OBVIOUS
    <3> HIDE DEF item, first
    <3> QED BY <1>4, <3>1
  <2>2. \A k \in 1..Len(u) : u[k] = 0
    <3>1. 1..0 = {}
      OBVIOUS
    <3> QED BY <2>1, <3>1
  <2>3. Len(u) \in 0..Len(u) /\ Len(u) * 0 = 0 /\ 0 \in Int
    BY <2>1
  <2> HIDE DEF item, first
  <2>4. Sums(u)[Len(u)] = Len(u) * 0
    BY <2>1, <2>2, <2>3, SumsConstant
  <2> QED BY <2>1, <2>3, <2>4 DEF Sum
<1> DEFINE P == {p \in 0..m : Sums(revenues)[p] = Sum(first(p))}
<1> HIDE DEF first
<1>8. 0 \in P
  BY <1>5, <1>7, SumsAre
<1>9. ASSUME NEW p \in 1..m, p - 1 \in P PROVE p \in P
  <2>1. Sums(revenues)[p] = Sums(revenues)[p - 1] + revenues[p]
    BY <1>5, SumsAre
  <2> QED BY <1>5, <1>6, <1>9, <2>1
<1>10. Sums(revenues)[m] = Sum(first(m))
  <2> HIDE DEF P
  <2>1. 0..m \subseteq P
    BY <1>8, <1>9, UpTo
  <2> QED BY <2>1 DEF P
<1>11. Sum(revenues) = Sum(first(m))
  BY <1>5, <1>10 DEF Sum
<1>12. [p \in DOMAIN call.statement |-> call.statement[p].revenue] = revenues
  BY <1>1, <1>2 DEF revenues
<1>13. [k \in DOMAIN call.referrals |->
          IF call.referrals[k].partner \in DOMAIN PartnerTiers THEN call.referrals[k].revenue ELSE 0] = first(m)
  BY <1>1, <1>2, <1>3, Zenon DEF first
<1> QED BY <1>11, <1>12, <1>13

\* What a partner earns from each of the referrals of the statement, in ten-thousandths of a unit.
Earned(p) == [k \in DOMAIN call.referrals |-> Owned(p, call.referrals)[k] * call.tiers[PartnerTiers[p]].rate]

LEMMA HalfUnit ==
  ASSUME NEW y \in Int, NEW z \in Int, -10000 <= 2 * (y - z * 10000), 2 * (y - z * 10000) <= 10000
  PROVE  ToHalfUnit(y, z)
BY DEF ToHalfUnit

LEMMA EarnedToHalfUnit ==
  ASSUME Answered(call), call.fn = "statement", NEW p \in DOMAIN call.statement
  PROVE  ToHalfUnit(Sum(Earned(p)), call.statement[p].commission)
<1>1. /\ call.referrals \in Referrals
      /\ call.statement[p].commission \in Commissions(call.tiers, p, Sum(Owned(p, call.referrals)))
      /\ call.tiers[PartnerTiers[p]].rate \in Nat
  BY StatedIs
<1>2. PICK r \in Referrals, rate \in Nat : r = call.referrals /\ rate = call.tiers[PartnerTiers[p]].rate
  BY <1>1
<1>3. PICK v : v = Owned(p, r) /\ v \in Seq(Int) /\ Len(v) = Len(r)
  BY OwnedIs
<1>4. PICK n \in Nat : Len(v) = n /\ DOMAIN r = 1..n
  BY <1>3, ReferralsAre
<1>5. \A k \in 1..n : v[k] \in Int
  BY <1>3, <1>4, SeqItem, Zenon
<1> DEFINE w == [k \in 1..n |-> v[k] * rate]
<1>6. w \in Seq(Int) /\ Len(w) = n /\ \A k \in 1..n : w[k] = v[k] * rate
  <2>1. \A k \in 1..n : v[k] * rate \in Int
    BY <1>5
  <2> QED BY <2>1
<1>7. w = Earned(p)
  BY <1>2, <1>3, <1>4, Zenon DEF Earned
<1> HIDE DEF w
<1>8. Combines(v, v, w, rate, 0)
  <2>1. ASSUME NEW k \in 1..n PROVE w[k] = rate * v[k] + 0 * v[k]
    <3>1. PICK x \in Int : x = v[k]
      BY <1>5
    <3> QED BY <1>6, <3>1
  <2>2. rate \in Int /\ 0 \in Int /\ Len(v) = Len(w)
    BY <1>4, <1>6
  <2> QED BY <1>3, <1>6, <2>1, <2>2, Zenon DEF Combines
<1>9. PICK s \in Int : s = Sum(v)
  BY <1>3, SumType
<1>10. Sum(w) = rate * s + 0 * s
  BY <1>8, <1>9, SumsLinear
<1>11. PICK x \in Int : x = s * rate /\ Sum(w) = x
  <2>1. s * rate \in Int /\ rate * s + 0 * s = s * rate
    OBVIOUS
  <2> QED BY <1>10, <2>1
<1>12. PICK c : c = call.statement[p].commission
  OBVIOUS
<1>13. c \in Rounded(x, 10000)
  BY <1>1, <1>2, <1>3, <1>9, <1>11, <1>12 DEF Commissions
<1>14. c \in Int /\ -10000 <= 2 * (x - c * 10000) /\ 2 * (x - c * 10000) <= 10000
  BY <1>13, RoundedIs
<1>15. ToHalfUnit(x, c)
  BY <1>14, HalfUnit
<1> QED BY <1>7, <1>11, <1>12, <1>15

LEMMA CommissionExact ==
  ASSUME Answered(call)
  PROVE  CommissionIsExact
<1>1. call.fn = "statement" => \A p \in DOMAIN call.statement : ToHalfUnit(Sum(Earned(p)), call.statement[p].commission)
  BY EarnedToHalfUnit
<1> QED BY <1>1, Zenon DEF CommissionIsExact, Earned

\* What a quote and a statement amount to is exact to the rounding of single lines, and a lead and
\* a tier are assigned alike in whatever order they are named (AmountsExact).
THEOREM Amounts == DataSpec => []AmountsExact
<1>1. Answered(call) => AmountsExact
  BY UnitsPriced, UsageCosts, CouponsLower, PartsWhole, HighestMet, AttributedOnce, CountedOnce, CommissionExact DEF AmountsExact
<1> QED BY <1>1, Answers, PTL

-----------------------------------------------------------------------------
(* Key figures *)

Entry == [value : Int, trend : {"flat", "up", "down"}, status : {"healthy", "warning", "critical"}]

\* A figure that is not defined anew since it was recorded has the status of its value.
KpiInv ==
  /\ DOMAIN Defaults \subseteq DOMAIN definitions /\ DOMAIN definitions \subseteq DOMAIN Defaults \cup NewIds
  /\ \A id \in DOMAIN definitions : definitions[id] \in Limit \cup {NoValue}
  /\ DOMAIN latest = DOMAIN Defaults \cup NewIds
  /\ \A id \in DOMAIN latest : latest[id] = NoValue \/ latest[id] \in Entry
  /\ fresh \subseteq DOMAIN definitions
  /\ \A id \in fresh : latest[id] \in Entry /\ latest[id].status = Status(id, latest[id].value, definitions[id])

LEMMA DefaultsTyped ==
  ASSUME NEW id \in DOMAIN Defaults
  PROVE  Defaults[id] \in Limit
BY DEF Defaults, Limit

\* The critical threshold lies beyond the warning.
LEMMA DefaultsOrdered ==
  ASSUME NEW id \in DOMAIN Defaults
  PROVE  IF id \in InverseKpis THEN Defaults[id].warning < Defaults[id].critical
                               ELSE Defaults[id].warning > Defaults[id].critical
BY DEF Defaults, InverseKpis

LEMMA StatusType ==
  ASSUME NEW id, NEW value, NEW thresholds
  PROVE  Status(id, value, thresholds) \in {"healthy", "warning", "critical"}
BY DEF Status

LEMMA TrendType ==
  ASSUME NEW before, NEW value
  PROVE  Trend(before, value) \in {"flat", "up", "down"}
BY DEF Trend

LEMMA RecordValueStep ==
  ASSUME KpiInv, NEW id \in DOMAIN definitions, NEW value \in Int, RecordValue(id, value)
  PROVE  /\ KpiInv'
         /\ latest'[id].value = value /\ latest'[id].status = Status(id, value, definitions[id])
         /\ latest[id] # NoValue => latest'[id].trend = Trend(latest[id].value, value)
         /\ latest'[id] \in Entry
         /\ \A k \in DOMAIN latest : k # id => latest'[k] = latest[k]
<1> DEFINE entry(before) == [value |-> value, trend |-> Trend(before, value), status |-> Status(id, value, definitions[id])]
<1>1. ASSUME NEW before PROVE entry(before) \in Entry
  <2>1. Trend(before, value) \in {"flat", "up", "down"} /\ Status(id, value, definitions[id]) \in {"healthy", "warning", "critical"}
    BY StatusType, TrendType, Zenon
  <2> QED BY <2>1 DEF Entry
<1>2. id \in DOMAIN latest
  BY DEF KpiInv
<1>3. PICK before : latest' = [latest EXCEPT ![id] = entry(before)] /\ (latest[id] # NoValue => before = latest[id].value)
  BY DEF RecordValue
<1>4. /\ latest'[id] = entry(before) /\ DOMAIN latest' = DOMAIN latest
      /\ \A k \in DOMAIN latest : k # id => latest'[k] = latest[k]
  BY <1>2, <1>3
<1>5. definitions' = definitions /\ fresh' = fresh \cup {id}
  BY DEF RecordValue
<1>6. /\ latest'[id].value = value /\ latest'[id].status = Status(id, value, definitions[id])
      /\ latest'[id].trend = Trend(before, value) /\ latest'[id] \in Entry
  BY <1>1, <1>4
<1>7. KpiInv'
  <2>1. ASSUME NEW k \in DOMAIN latest' PROVE latest'[k] = NoValue \/ latest'[k] \in Entry
    BY <1>4, <1>6 DEF KpiInv
  <2>2. ASSUME NEW k \in fresh'
        PROVE  latest'[k] \in Entry /\ latest'[k].status = Status(k, latest'[k].value, definitions'[k])
    <3>1. CASE k = id
      BY <1>5, <1>6, <3>1
    <3>2. CASE k # id
      BY <1>4, <1>5, <3>2 DEF KpiInv
    <3> QED BY <3>1, <3>2
  <2>3. fresh' \subseteq DOMAIN definitions'
    BY <1>5 DEF KpiInv
  <2> QED BY <1>4, <1>5, <2>1, <2>2, <2>3 DEF KpiInv
<1> QED BY <1>3, <1>4, <1>6, <1>7

LEMMA RegisterKPIStep ==
  ASSUME KpiInv, NEW id \in DOMAIN Defaults \cup NewIds, NEW limits \in NewLimits, RegisterKPI(id, limits)
  PROVE  KpiInv'
<1>1. limits \in Limit \cup {NoValue}
  BY KpiAssumption
<1>2. /\ DOMAIN definitions' = DOMAIN definitions \cup {id} /\ definitions'[id] = limits
      /\ \A k \in DOMAIN definitions : k # id => definitions'[k] = definitions[k]
      /\ fresh' = fresh \ {id} /\ latest' = latest
  BY DEF RegisterKPI
<1>3. \A k \in DOMAIN definitions' : definitions'[k] \in Limit \cup {NoValue}
  BY <1>1, <1>2 DEF KpiInv
<1>4. \A k \in fresh' : latest'[k] \in Entry /\ latest'[k].status = Status(k, latest'[k].value, definitions'[k])
  BY <1>2 DEF KpiInv
<1>5. /\ DOMAIN Defaults \subseteq DOMAIN definitions' /\ DOMAIN definitions' \subseteq DOMAIN Defaults \cup NewIds
      /\ fresh' \subseteq DOMAIN definitions'
  BY <1>2 DEF KpiInv
<1> QED BY <1>2, <1>3, <1>4, <1>5 DEF KpiInv

\* What one step of the program does to the key figures.
LEMMA KpiSteps ==
  ASSUME KpiInv, [DataNext]_allVars
  PROVE  \/ UNCHANGED kpiVars
         \/ \E id \in DOMAIN definitions, value \in Int : RecordValue(id, value)
         \/ \E id \in DOMAIN Defaults \cup NewIds, limits \in NewLimits : RegisterKPI(id, limits)
<1>1. CASE focus = "kpi" /\ KpiNext
  BY <1>1, KpiAssumption DEF KpiNext
<1>2. CASE UNCHANGED kpiVars
  BY <1>2
<1> QED BY <1>1, <1>2 DEF DataNext, Of, allVars

LEMMA KpiInvariance == DataSpec => []KpiInv
<1>1. DataInit => KpiInv
  BY DefaultsTyped DEF DataInit, KpiInit, KpiInv
<1>2. KpiInv /\ [DataNext]_allVars => KpiInv'
  <2> SUFFICES ASSUME KpiInv, [DataNext]_allVars PROVE KpiInv'
    OBVIOUS
  <2>1. CASE UNCHANGED kpiVars
    BY <2>1, Zenon DEF KpiInv, kpiVars
  <2> QED BY <2>1, KpiSteps, RecordValueStep, RegisterKPIStep
<1> QED BY <1>1, <1>2, PTL DEF DataSpec

\* The nearer to critical, the worse the status.
LEMMA WorseKeepsStatus ==
  ASSUME NEW id, NEW limits \in Limit, RightWay(id, limits), NEW value \in Int, NEW before \in Int,
         Worse(limits, value, before)
  PROVE  /\ Status(id, before, limits) = "critical" => Status(id, value, limits) = "critical"
         /\ Status(id, before, limits) # "healthy" => Status(id, value, limits) # "healthy"
<1>1. PICK w, c \in Int : w = limits.warning /\ c = limits.critical
  BY DEF Limit
<1>2. IF id \in InverseKpis THEN w < c /\ value > before ELSE w >= c /\ value < before
  <2>1. CASE id \in DOMAIN Defaults /\ limits = Defaults[id]
    BY <1>1, <2>1, DefaultsOrdered DEF Worse
  <2>2. CASE c > w <=> id \in HigherIsWorse
    BY <1>1, <2>2 DEF Worse, HigherIsWorse, InverseKpis
  <2> QED BY <1>1, <2>1, <2>2 DEF RightWay
<1> QED BY <1>1, <1>2 DEF Status

AlertStays(id) ==
  Worse(definitions[id], latest'[id].value, latest[id].value) =>
    \A a \in {b \in Alerts : b.kpi = id} : \E b \in Alerts' : b.kpi = id /\ (a.status = "critical" => b.status = "critical")

LEMMA AlertsStayStep ==
  ASSUME KpiInv, [DataNext]_allVars,
         NEW id \in {k \in fresh : /\ definitions[k] # NoValue /\ RightWay(k, definitions[k])
                                 /\ latest'[k] # latest[k]}
  PROVE  AlertStays(id)
<1> SUFFICES ASSUME Worse(definitions[id], latest'[id].value, latest[id].value), NEW a \in {b \in Alerts : b.kpi = id}
             PROVE  \E b \in Alerts' : b.kpi = id /\ (a.status = "critical" => b.status = "critical")
  BY Zenon DEF AlertStays
<1>1. id \in fresh /\ id \in DOMAIN latest /\ id \in DOMAIN definitions
  BY DEF KpiInv
<1>9. PICK limits \in Limit : limits = definitions[id] /\ RightWay(id, limits)
  BY <1>1 DEF KpiInv
<1>2. PICK value \in Int : RecordValue(id, value)
  <2>1. latest' # latest
    OBVIOUS
  <2>2. PICK k \in DOMAIN definitions, value \in Int : RecordValue(k, value)
    BY <2>1, KpiSteps DEF RegisterKPI, kpiVars
  <2>3. k = id
    BY <1>1, <2>2, RecordValueStep
  <2> QED BY <2>2, <2>3
<1>3. /\ latest'[id].value = value /\ latest'[id].status = Status(id, value, limits) /\ latest'[id] \in Entry
      /\ definitions' = definitions
  BY <1>1, <1>2, <1>9, RecordValueStep DEF RecordValue
<1>4. latest[id] \in Entry /\ latest[id].status = Status(id, latest[id].value, limits)
  BY <1>1, <1>9 DEF KpiInv
<1>5. a.status = latest[id].status /\ latest[id].status # "healthy"
  BY DEF Alerts
<1>6. /\ latest[id].status = "critical" => latest'[id].status = "critical"
      /\ latest'[id].status # "healthy"
  <2>1. PICK before \in Int : before = latest[id].value
    BY <1>4 DEF Entry
  <2> QED BY <1>3, <1>4, <1>5, <1>9, <2>1, WorseKeepsStatus
<1> DEFINE b == [kpi |-> id, status |-> latest'[id].status, value |-> latest'[id].value,
                 threshold |-> IF latest'[id].status = "critical" THEN definitions'[id].critical ELSE definitions'[id].warning]
<1>7. b \in Alerts'
  <2>1. id \in DOMAIN definitions' /\ latest'[id] # NoValue /\ definitions'[id] # NoValue
    BY <1>1, <1>3, KpiAssumption DEF Entry
  <2> QED BY <1>6, <2>1, Zenon DEF Alerts
<1>8. b.kpi = id /\ b.status = latest'[id].status
  OBVIOUS
<1> HIDE DEF b
<1> QED BY <1>5, <1>6, <1>7, <1>8

\* A key figure whose thresholds go the way the engine assumes by its id keeps its alert as it
\* gets worse, and a critical one stays critical.
THEOREM AlertsStaying == DataSpec => AlertsStay
<1>1. KpiInv /\ [DataNext]_allVars => KeepAlerts
  BY AlertsStayStep, Zenon DEF AlertStays, KeepAlerts
<1> QED BY <1>1, KpiInvariance, PTL DEF DataSpec, AlertsStay

TrendFollows(id) ==
  /\ latest'[id].trend = "up" => latest'[id].value > latest[id].value
  /\ latest'[id].trend = "down" => latest'[id].value < latest[id].value

LEMMA TrendIs ==
  ASSUME NEW before \in Int, NEW value \in Int
  PROVE  /\ Trend(before, value) = "up" => value > before
         /\ Trend(before, value) = "down" => value < before
<1>1. ASSUME before = value, before # 0 PROVE Trend(before, value) = "flat"
  <2> DEFINE size == IF before < 0 THEN -before ELSE before
  <2>1. size \in Nat /\ size >= 1 /\ (size - 1) \div 1000 >= 0 /\ value - before = 0
    BY <1>1
  <2> QED BY <1>1, <2>1 DEF Trend
<1>2. before = 0 => Trend(before, value) = "flat"
  BY DEF Trend
<1>3. Trend(before, value) = "up" => value > before
  BY DEF Trend
<1>4. Trend(before, value) = "down" => ~(value > before)
  BY DEF Trend
<1> QED BY <1>1, <1>2, <1>3, <1>4

LEMMA TrendsFollowStep ==
  ASSUME KpiInv, [DataNext]_allVars, NEW id \in DOMAIN latest, latest'[id] # latest[id], latest[id] # NoValue
  PROVE  TrendFollows(id)
<1>1. PICK value \in Int : RecordValue(id, value) /\ id \in DOMAIN definitions
  <2>1. latest' # latest
    OBVIOUS
  <2>2. PICK k \in DOMAIN definitions, value \in Int : RecordValue(k, value)
    BY <2>1, KpiSteps DEF RegisterKPI, kpiVars
  <2>3. k = id
    BY <2>2, RecordValueStep
  <2> QED BY <2>2, <2>3
<1>2. PICK before \in Int : before = latest[id].value
  BY DEF KpiInv, Entry
<1>3. latest'[id].value = value /\ latest'[id].trend = Trend(before, value)
  BY <1>1, <1>2, RecordValueStep
<1> QED BY <1>2, <1>3, TrendIs DEF TrendFollows

\* The trend of a key figure tells which way its last step went.
THEOREM TrendsFollow == DataSpec => TrendsFollowValues
<1>1. KpiInv /\ [DataNext]_allVars =>
        [\A id \in DOMAIN latest : latest'[id] # latest[id] /\ latest[id] # NoValue =>
           /\ latest'[id].trend = "up" => latest'[id].value > latest[id].value
           /\ latest'[id].trend = "down" => latest'[id].value < latest[id].value]_kpiVars
  BY TrendsFollowStep, Zenon DEF TrendFollows
<1> QED BY <1>1, KpiInvariance, PTL DEF DataSpec, TrendsFollowValues

-----------------------------------------------------------------------------
(* Lines *)

\* The sequence 0, 1, ..., n - 1, its squares, and n times 1.
Xs(n)   == [i \in 1..n |-> i - 1]
X2s(n)  == [i \in 1..n |-> (i - 1) * (i - 1)]
Ones(n) == [i \in 1..n |-> 1]

LEMMA XsAre ==
  ASSUME NEW n \in Nat
  PROVE  /\ Xs(n) \in Seq(Int) /\ Len(Xs(n)) = n /\ \A i \in 1..n : Xs(n)[i] = i - 1
         /\ X2s(n) \in Seq(Int) /\ Len(X2s(n)) = n /\ \A i \in 1..n : X2s(n)[i] = (i - 1) * (i - 1)
         /\ Ones(n) \in Seq(Int) /\ Len(Ones(n)) = n /\ \A i \in 1..n : Ones(n)[i] = 1
<1>1. \A i \in 1..n : i - 1 \in Int /\ (i - 1) * (i - 1) \in Int
  OBVIOUS
<1>2. Xs(n) \in Seq(Int) /\ Len(Xs(n)) = n /\ \A i \in 1..n : Xs(n)[i] = i - 1
  BY DEF Xs
<1>3. X2s(n) \in Seq(Int) /\ Len(X2s(n)) = n /\ \A i \in 1..n : X2s(n)[i] = (i - 1) * (i - 1)
  BY <1>1 DEF X2s
<1>4. Ones(n) \in Seq(Int) /\ Len(Ones(n)) = n /\ \A i \in 1..n : Ones(n)[i] = 1
  BY DEF Ones
<1> QED BY <1>2, <1>3, <1>4, Zenon

LEMMA Halves ==
  ASSUME NEW s \in Int, NEW m \in Int, 2 * s = m
  PROVE  m \div 2 = s
OBVIOUS

LEMMA Sixths ==
  ASSUME NEW s \in Int, NEW m \in Int, 6 * s = m
  PROVE  m \div 6 = s
OBVIOUS

LEMMA SquareStep ==
  ASSUME NEW k \in Int, NEW s \in Int, 6 * s = ((k - 2) * (k - 1)) * (2 * k - 3)
  PROVE  6 * (s + (k - 1) * (k - 1)) = ((k - 1) * k) * (2 * k - 1)
<1>1. ((k - 2) * (k - 1)) * (2 * k - 3) + 6 * ((k - 1) * (k - 1)) = ((k - 1) * k) * (2 * k - 1)
  OBVIOUS
<1>2. PICK q \in Int : q = (k - 1) * (k - 1)
  OBVIOUS
<1>3. PICK x \in Int, y \in Int : x = ((k - 2) * (k - 1)) * (2 * k - 3) /\ y = ((k - 1) * k) * (2 * k - 1)
  OBVIOUS
<1>4. x + 6 * q = y /\ 6 * s = x
  BY <1>1, <1>2, <1>3
<1>5. 6 * (s + q) = y
  BY <1>4
<1> QED BY <1>2, <1>3, <1>5

\* The sums over x are those of the code's formulas.
LEMMA SumsOfX ==
  ASSUME NEW n \in Nat
  PROVE  /\ SumX(n) \in Int /\ 2 * SumX(n) = n * (n - 1) /\ Sum(Xs(n)) = SumX(n)
         /\ SumX2(n) \in Int /\ 6 * SumX2(n) = ((n - 1) * n) * (2 * n - 1) /\ Sum(X2s(n)) = SumX2(n)
         /\ Sum(Ones(n)) = n
<1>1. /\ Sums(Xs(n))[0] = 0 /\ \A k \in 1..n : Sums(Xs(n))[k] = Sums(Xs(n))[k - 1] + (k - 1)
      /\ \A k \in 0..n : Sums(Xs(n))[k] \in Int
  <2>1. PICK v : v = Xs(n) /\ v \in Seq(Int) /\ Len(v) = n /\ \A i \in 1..n : v[i] = i - 1
    BY XsAre
  <2>2. Sums(v)[0] = 0 /\ \A k \in 1..n : Sums(v)[k] = Sums(v)[k - 1] + v[k]
    BY <2>1, SumsAre
  <2>3. \A k \in 0..n : Sums(v)[k] \in Int
    BY <2>1, SumsAre
  <2> QED BY <2>1, <2>2, <2>3, Zenon
<1>2. /\ Sums(X2s(n))[0] = 0 /\ \A k \in 1..n : Sums(X2s(n))[k] = Sums(X2s(n))[k - 1] + (k - 1) * (k - 1)
      /\ \A k \in 0..n : Sums(X2s(n))[k] \in Int
  <2>1. PICK v : v = X2s(n) /\ v \in Seq(Int) /\ Len(v) = n /\ \A i \in 1..n : v[i] = (i - 1) * (i - 1)
    BY XsAre
  <2>2. Sums(v)[0] = 0 /\ \A k \in 1..n : Sums(v)[k] = Sums(v)[k - 1] + v[k]
    BY <2>1, SumsAre
  <2>3. \A k \in 0..n : Sums(v)[k] \in Int
    BY <2>1, SumsAre
  <2> QED BY <2>1, <2>2, <2>3, Zenon
<1>3. Sum(Ones(n)) = n
  <2>1. PICK v : v = Ones(n) /\ v \in Seq(Int) /\ Len(v) = n /\ \A i \in 1..n : v[i] = 1
    BY XsAre
  <2>2. \A k \in 0..n : Sums(v)[k] = k * 1
    BY <2>1, SumsConstant
  <2> QED BY <2>1, <2>2 DEF Sum
<1>4. 2 * Sums(Xs(n))[n] = n * (n - 1)
  <2> DEFINE P == {k \in 0..n : 2 * Sums(Xs(n))[k] = k * (k - 1)}
  <2>1. 0 \in P
    BY <1>1
  <2>2. ASSUME NEW k \in 1..n, k - 1 \in P PROVE k \in P
    <3>1. PICK s \in Int : s = Sums(Xs(n))[k - 1]
      BY <1>1
    <3>2. 2 * s = (k - 1) * (k - 2) /\ Sums(Xs(n))[k] = s + (k - 1)
      BY <1>1, <2>2, <3>1
    <3>3. 2 * (s + (k - 1)) = k * (k - 1)
      BY <3>2
    <3> QED BY <3>2, <3>3
  <2> HIDE DEF P
  <2>3. n \in P
    <3>1. 0..n \subseteq P
      BY <2>1, <2>2, UpTo
    <3> QED BY <3>1
  <2> QED BY <2>3 DEF P
<1>5. 6 * Sums(X2s(n))[n] = ((n - 1) * n) * (2 * n - 1)
  <2> DEFINE P == {k \in 0..n : 6 * Sums(X2s(n))[k] = ((k - 1) * k) * (2 * k - 1)}
  <2>1. 0 \in P
    BY <1>2
  <2>2. ASSUME NEW k \in 1..n, k - 1 \in P PROVE k \in P
    <3>1. PICK s \in Int : s = Sums(X2s(n))[k - 1]
      BY <1>2
    <3>2. 6 * s = ((k - 1 - 1) * (k - 1)) * (2 * (k - 1) - 1) /\ Sums(X2s(n))[k] = s + (k - 1) * (k - 1)
      BY <1>2, <2>2, <3>1
    <3>3. k - 1 - 1 = k - 2 /\ 2 * (k - 1) - 1 = 2 * k - 3
      OBVIOUS
    <3>4. 6 * (s + (k - 1) * (k - 1)) = ((k - 1) * k) * (2 * k - 1)
      BY <3>2, <3>3, SquareStep
    <3> QED BY <3>2, <3>4
  <2> HIDE DEF P
  <2>3. n \in P
    <3>1. 0..n \subseteq P
      BY <2>1, <2>2, UpTo
    <3> QED BY <3>1
  <2> QED BY <2>3 DEF P
<1>6. PICK s \in Int, t \in Int : s = Sum(Xs(n)) /\ t = Sum(X2s(n))
  BY XsAre, SumType
<1>7. 2 * s = n * (n - 1) /\ 6 * t = ((n - 1) * n) * (2 * n - 1)
  BY <1>4, <1>5, <1>6, XsAre DEF Sum
<1>8. n * (n - 1) \in Int /\ ((n - 1) * n) * (2 * n - 1) \in Int
  OBVIOUS
<1>9. SumX(n) = s /\ SumX2(n) = t
  BY <1>7, <1>8, Halves, Sixths DEF SumX, SumX2
<1> QED BY <1>3, <1>6, <1>7, <1>9

\* A series, its length and its sums.
Measured(v, n, s, x, x2, xy, d, a) ==
  /\ v \in Seq(Int) /\ v \in Series /\ n \in Nat /\ n = Len(v) /\ n # 0
  /\ s \in Int /\ s = Sum(v) /\ x \in Int /\ x = SumX(n) /\ x2 \in Int /\ x2 = SumX2(n)
  /\ xy \in Int /\ xy = SumXY(v)
  /\ d \in Int /\ d = Spread(n) /\ d = n * x2 - x * x
  /\ a \in Int /\ a = Slope(v) /\ a = n * xy - x * s

\* The products that SumXY adds up.
Xys(v) == [i \in DOMAIN v |-> (i - 1) * v[i]]

LEMMA XysAre ==
  ASSUME NEW v \in Seq(Int)
  PROVE  /\ Xys(v) \in Seq(Int) /\ Len(Xys(v)) = Len(v) /\ \A i \in 1..Len(v) : Xys(v)[i] = (i - 1) * v[i]
         /\ SumXY(v) = Sum(Xys(v)) /\ SumXY(v) \in Int
<1>1. PICK n \in Nat : n = Len(v) /\ DOMAIN v = 1..n /\ \A i \in 1..n : v[i] \in Int
  OBVIOUS
<1>2. \A i \in 1..n : (i - 1) * v[i] \in Int
  BY <1>1
<1>3. Xys(v) \in Seq(Int) /\ Len(Xys(v)) = n /\ \A i \in 1..n : Xys(v)[i] = (i - 1) * v[i]
  BY <1>1, <1>2 DEF Xys
<1>4. SumXY(v) = Sum(Xys(v))
  BY DEF SumXY, Xys
<1> QED BY <1>1, <1>3, <1>4, SumType

LEMMA Measures ==
  ASSUME NEW v \in Series
  PROVE  \E n, s, x, x2, xy, d, a : Measured(v, n, s, x, x2, xy, d, a)
<1>1. v \in Seq(Int) /\ v # <<>>
  BY SeriesAssumption
<1>2. PICK n \in Nat : n = Len(v) /\ n # 0
  BY <1>1
<1>3. PICK s \in Int : s = Sum(v)
  BY <1>1, SumType
<1>4. PICK x \in Int, x2 \in Int : x = SumX(n) /\ x2 = SumX2(n)
  BY SumsOfX
<1>5. PICK xy \in Int : xy = SumXY(v)
  BY <1>1, XysAre
<1>6. n * x2 - x * x \in Int /\ n * xy - x * s \in Int
  BY <1>2, <1>3, <1>4, <1>5
<1>7. Spread(n) = n * x2 - x * x /\ Slope(v) = n * xy - x * s
  BY <1>2, <1>3, <1>4, <1>5 DEF Spread, Slope
<1>8. Measured(v, n, s, x, x2, xy, n * x2 - x * x, n * xy - x * s)
  BY <1>1, <1>2, <1>3, <1>4, <1>5, <1>6, <1>7, Zenon DEF Measured
<1> QED BY <1>8

LEMMA LineIs ==
  ASSUME NEW v, NEW n, NEW s, NEW x, NEW x2, NEW xy, NEW d, NEW a, Measured(v, n, s, x, x2, xy, d, a), NEW y \in Int
  PROVE  LineAt(v, y) = (n * a) * y + (s * d - a * x)
<1>1. /\ n \in Nat /\ n = Len(v) /\ s \in Int /\ s = Sum(v) /\ x \in Int /\ x = SumX(n)
      /\ d \in Int /\ d = Spread(n) /\ a \in Int /\ a = Slope(v)
  BY Zenon DEF Measured
<1>2. LineAt(v, y) = n * a * y + (s * d - a * x)
  BY <1>1, Zenon DEF LineAt
<1> QED BY <1>1, <1>2

LEMMA LeftoverIsZero ==
  ASSUME NEW n \in Int, NEW s \in Int, NEW x \in Int, NEW d \in Int, NEW a \in Int
  PROVE  (n * d) * s + (-1) * ((n * a) * x + (s * d - a * x) * n) = 0
<1>1. (n * a) * x + (s * d - a * x) * n = (n * d) * s
  OBVIOUS
<1>2. PICK y \in Int : y = (n * d) * s
  OBVIOUS
<1>3. y + (-1) * y = 0
  OBVIOUS
<1> QED BY <1>1, <1>2, <1>3

LEMMA LeftoverHasNoTrend ==
  ASSUME NEW n \in Int, NEW s \in Int, NEW x \in Int, NEW x2 \in Int, NEW xy \in Int, NEW d \in Int, NEW a \in Int,
         d = n * x2 - x * x, a = n * xy - x * s
  PROVE  (n * d) * xy + (-1) * ((n * a) * x2 + (s * d - a * x) * x) = 0
<1>1. (n * a) * x2 + (s * d - a * x) * x = a * (n * x2 - x * x) + (s * d) * x
  OBVIOUS
<1>2. (n * d) * xy = d * (n * xy - x * s) + (s * d) * x
  OBVIOUS
<1>3. (n * a) * x2 + (s * d - a * x) * x = a * d + (s * d) * x
  BY <1>1
<1>4. (n * d) * xy = a * d + (s * d) * x
  <2>1. (n * d) * xy = d * a + (s * d) * x
    BY <1>2
  <2>2. d * a = a * d
    OBVIOUS
  <2> QED BY <2>1, <2>2
<1>5. PICK y \in Int : y = a * d + (s * d) * x
  OBVIOUS
<1>6. y + (-1) * y = 0
  OBVIOUS
<1> QED BY <1>3, <1>4, <1>5, <1>6

\* What the line leaves over of each value, and that times its place.
Rests(v)  == [i \in 1..Len(v) |-> Len(v) * Spread(Len(v)) * v[i] - LineAt(v, i - 1)]
XRests(v) == [i \in 1..Len(v) |-> (i - 1) * (Len(v) * Spread(Len(v)) * v[i] - LineAt(v, i - 1))]

LEMMA NothingLeftOver ==
  ASSUME NEW v \in Series
  PROVE  Sum(Rests(v)) = 0 /\ Sum(XRests(v)) = 0
<1>1. PICK n, s, x, x2, xy, d, a : Measured(v, n, s, x, x2, xy, d, a)
  BY Measures
<1>2. /\ v \in Seq(Int) /\ n \in Nat /\ n = Len(v) /\ s \in Int /\ s = Sum(v) /\ x \in Int /\ x = SumX(n)
      /\ x2 \in Int /\ x2 = SumX2(n) /\ xy \in Int /\ xy = SumXY(v) /\ d \in Int /\ d = Spread(n) /\ a \in Int
      /\ d = n * x2 - x * x /\ a = n * xy - x * s
  BY <1>1, Zenon DEF Measured
<1>2a. /\ n \in Int /\ s \in Int /\ x \in Int /\ x2 \in Int /\ xy \in Int /\ d \in Int /\ a \in Int
       /\ d = n * x2 - x * x /\ a = n * xy - x * s
  BY <1>2
<1>3. PICK m \in Int, c \in Int, nd \in Int : m = n * a /\ c = s * d - a * x /\ nd = n * d
  <2>1. n * a \in Int /\ s * d - a * x \in Int /\ n * d \in Int
    BY <1>2a
  <2> QED BY <2>1
<1>4. \A i \in 1..n : LineAt(v, i - 1) = m * (i - 1) + c
  <2> SUFFICES ASSUME NEW i \in 1..n PROVE LineAt(v, i - 1) = m * (i - 1) + c
    OBVIOUS
  <2>1. PICK y \in Int : y = i - 1
    OBVIOUS
  <2>2. LineAt(v, y) = (n * a) * y + (s * d - a * x)
    BY <1>1, <2>1, LineIs
  <2> QED BY <1>3, <2>1, <2>2, Zenon
<1>5. \A i \in 1..n : v[i] \in Int
  BY <1>2, SeqItem, Zenon
<1> DEFINE line == [i \in 1..n |-> m * (i - 1) + c]
           xline == [i \in 1..n |-> (i - 1) * (m * (i - 1) + c)]
           rest == [i \in 1..n |-> nd * v[i] - (m * (i - 1) + c)]
           xrest == [i \in 1..n |-> (i - 1) * (nd * v[i] - (m * (i - 1) + c))]
<1>6. line \in Seq(Int) /\ Len(line) = n /\ \A i \in 1..n : line[i] = m * (i - 1) + c
  <2>1. \A i \in 1..n : m * (i - 1) + c \in Int
    BY <1>3
  <2> QED BY <1>2, <2>1
<1>7. xline \in Seq(Int) /\ Len(xline) = n /\ \A i \in 1..n : xline[i] = (i - 1) * (m * (i - 1) + c)
  <2>1. \A i \in 1..n : (i - 1) * (m * (i - 1) + c) \in Int
    BY <1>3
  <2> QED BY <1>2, <2>1
<1>8. rest \in Seq(Int) /\ Len(rest) = n /\ \A i \in 1..n : rest[i] = nd * v[i] - (m * (i - 1) + c)
  <2>1. \A i \in 1..n : nd * v[i] - (m * (i - 1) + c) \in Int
    BY <1>3, <1>5
  <2> QED BY <1>2, <2>1
<1>9. xrest \in Seq(Int) /\ Len(xrest) = n /\ \A i \in 1..n : xrest[i] = (i - 1) * (nd * v[i] - (m * (i - 1) + c))
  <2>1. \A i \in 1..n : (i - 1) * (nd * v[i] - (m * (i - 1) + c)) \in Int
    BY <1>3, <1>5
  <2> QED BY <1>2, <2>1
<1>10. Rests(v) = rest /\ XRests(v) = xrest
  <2>1. Len(v) = n /\ Len(v) * Spread(Len(v)) = nd
    BY <1>2, <1>3
  <2> QED BY <1>4, <2>1, Zenon DEF Rests, XRests
<1> HIDE DEF line, xline, rest, xrest
<1>11. Combines(Xs(n), Ones(n), line, m, c)
  <2>1. ASSUME NEW i \in 1..n PROVE line[i] = m * Xs(n)[i] + c * Ones(n)[i]
    <3>1. Xs(n)[i] = i - 1 /\ Ones(n)[i] = 1
      BY <1>2, XsAre
    <3>2. c * 1 = c
      BY <1>3
    <3> QED BY <1>6, <3>1, <3>2, Zenon
  <2> QED BY <1>2, <1>3, <1>6, <2>1, XsAre, Zenon DEF Combines
<1>12. Combines(X2s(n), Xs(n), xline, m, c)
  <2>1. ASSUME NEW i \in 1..n PROVE xline[i] = m * X2s(n)[i] + c * Xs(n)[i]
    <3>1. PICK y \in Int : y = i - 1
      OBVIOUS
    <3>2. y * (m * y + c) = m * (y * y) + c * y
      BY <1>3
    <3>3. Xs(n)[i] = y /\ X2s(n)[i] = y * y
      BY <1>2, <3>1, XsAre
    <3> QED BY <1>7, <3>1, <3>2, <3>3, Zenon
  <2> QED BY <1>2, <1>3, <1>7, <2>1, XsAre, Zenon DEF Combines
<1>13. Combines(v, line, rest, nd, -1)
  <2>1. ASSUME NEW i \in 1..n PROVE rest[i] = nd * v[i] + (-1) * line[i]
    <3>1. PICK y \in Int, z \in Int : y = nd * v[i] /\ z = m * (i - 1) + c
      BY <1>3, <1>5
    <3>2. y - z = y + (-1) * z
      OBVIOUS
    <3> QED BY <1>6, <1>8, <3>1, <3>2, Zenon
  <2>2. -1 \in Int
    OBVIOUS
  <2> QED BY <1>2, <1>3, <1>6, <1>8, <2>1, <2>2, Zenon DEF Combines
<1>14. Combines(Xys(v), xline, xrest, nd, -1)
  <2>1. ASSUME NEW i \in 1..n PROVE xrest[i] = nd * Xys(v)[i] + (-1) * xline[i]
    <3>1. PICK y \in Int, z \in Int, w \in Int : y = i - 1 /\ z = m * (i - 1) + c /\ w = v[i]
      BY <1>3, <1>5
    <3>2. y * (nd * w - z) = nd * (y * w) + (-1) * (y * z)
      BY <1>3
    <3>3. Xys(v)[i] = y * w
      BY <1>2, <3>1, XysAre
    <3> QED BY <1>7, <1>9, <3>1, <3>2, <3>3, Zenon
  <2>2. -1 \in Int
    OBVIOUS
  <2>3. Xys(v) \in Seq(Int) /\ Len(Xys(v)) = n
    BY <1>2, XysAre
  <2> QED BY <1>2, <1>3, <1>7, <1>9, <2>1, <2>2, <2>3, Zenon DEF Combines
<1>15. Sum(line) = m * x + c * n /\ Sum(xline) = m * x2 + c * x
  <2>1. Sum(line) = m * Sum(Xs(n)) + c * Sum(Ones(n)) /\ Sum(xline) = m * Sum(X2s(n)) + c * Sum(Xs(n))
    BY <1>11, <1>12, SumsLinear
  <2>2. Sum(Xs(n)) = x /\ Sum(Ones(n)) = n /\ Sum(X2s(n)) = x2
    BY <1>2, SumsOfX
  <2> QED BY <2>1, <2>2, Zenon
<1>16. Sum(rest) = nd * s + (-1) * (m * x + c * n) /\ Sum(xrest) = nd * xy + (-1) * (m * x2 + c * x)
  <2>1. Sum(rest) = nd * Sum(v) + (-1) * Sum(line) /\ Sum(xrest) = nd * Sum(Xys(v)) + (-1) * Sum(xline)
    BY <1>13, <1>14, SumsLinear
  <2>2. Sum(Xys(v)) = xy
    BY <1>2, XysAre
  <2> QED BY <1>2, <1>15, <2>1, <2>2, Zenon
<1>17. (n * d) * s + (-1) * ((n * a) * x + (s * d - a * x) * n) = 0
  BY <1>2a, LeftoverIsZero
<1>18. (n * d) * xy + (-1) * ((n * a) * x2 + (s * d - a * x) * x) = 0
  BY <1>2a, LeftoverHasNoTrend
<1> QED BY <1>3, <1>10, <1>16, <1>17, <1>18, Zenon

LEMMA OneStepOfLine ==
  ASSUME NEW m \in Int, NEW c \in Int, NEW n \in Int, NEW k \in Int
  PROVE  (m * (n - 1 + k) + c) - (m * (n - 1) + c) = k * ((m * (n - 1) + c) - (m * (n - 2) + c))
<1>1. (m * (n - 1) + c) - (m * (n - 2) + c) = m
  OBVIOUS
<1>2. (m * (n - 1 + k) + c) - (m * (n - 1) + c) = m * k
  OBVIOUS
<1> QED BY <1>1, <1>2

LEMMA BestFit ==
  ASSUME Answered(call)
  PROVE  LineIsBestFit
<1> SUFFICES ASSUME call.fn = "forecast"
             PROVE  /\ Sum(Rests(call.v)) = 0 /\ Sum(XRests(call.v)) = 0
                    /\ \A k \in 1..Horizon :
                         call.predictions[k] - LineAt(call.v, Len(call.v) - 1)
                           = k * (LineAt(call.v, Len(call.v) - 1) - LineAt(call.v, Len(call.v) - 2))
  BY DEF LineIsBestFit, Rests, XRests
<1>1. PICK v \in Series : call.v = v /\ call.predictions = Predictions(v)
  BY AnswersByName DEF Forecast
<1>2. Sum(Rests(call.v)) = 0 /\ Sum(XRests(call.v)) = 0
  BY <1>1, NothingLeftOver
<1>3. PICK n, s, x, x2, xy, d, a : Measured(v, n, s, x, x2, xy, d, a)
  BY Measures
<1>4. n \in Nat /\ n = Len(v) /\ s \in Int /\ x \in Int /\ d \in Int /\ a \in Int
  BY <1>3, Zenon DEF Measured
<1>5. PICK m \in Int, c \in Int : m = n * a /\ c = s * d - a * x
  BY <1>4
<1>6. \A y \in Int : LineAt(v, y) = m * y + c
  <2> SUFFICES ASSUME NEW y \in Int PROVE LineAt(v, y) = m * y + c
    OBVIOUS
  <2>1. LineAt(v, y) = (n * a) * y + (s * d - a * x)
    BY <1>3, LineIs
  <2> QED BY <1>5, <2>1, Zenon
<1>7. ASSUME NEW k \in 1..Horizon
      PROVE  Predictions(v)[k] - LineAt(v, n - 1) = k * (LineAt(v, n - 1) - LineAt(v, n - 2))
  <2>1. k \in Int /\ n - 1 + k \in Int /\ n - 1 \in Int /\ n - 2 \in Int
    BY <1>4, SeriesAssumption
  <2>2. Predictions(v)[k] = LineAt(v, n - 1 + k)
    BY <1>4 DEF Predictions
  <2>3. LineAt(v, n - 1 + k) = m * (n - 1 + k) + c /\ LineAt(v, n - 1) = m * (n - 1) + c /\ LineAt(v, n - 2) = m * (n - 2) + c
    BY <1>6, <2>1
  <2>4. (m * (n - 1 + k) + c) - (m * (n - 1) + c) = k * ((m * (n - 1) + c) - (m * (n - 2) + c))
    BY <1>4, <2>1, OneStepOfLine
  <2> QED BY <2>2, <2>3, <2>4, Zenon
<1> QED BY <1>1, <1>2, <1>4, <1>7, Zenon

-----------------------------------------------------------------------------
(* Trends *)

LEMMA SpreadPositive ==
  ASSUME NEW n \in Nat, n >= 2
  PROVE  Spread(n) \in Int /\ Spread(n) > 0
<1>1. PICK x \in Int, y \in Int : x = SumX(n) /\ y = SumX2(n) /\ 2 * x = n * (n - 1) /\ 6 * y = ((n - 1) * n) * (2 * n - 1)
  BY SumsOfX
<1>2. PICK p \in Nat : p = n * (n - 1) /\ p >= 1
  <2>1. n * (n - 1) = n * (n - 2) + n /\ n - 2 \in Nat
    OBVIOUS
  <2>2. PICK q \in Nat : q = n * (n - 2)
    BY <2>1, ProductType
  <2> QED BY <2>1, <2>2
<1>3. 6 * y = p * (2 * n - 1) /\ 2 * x = p
  <2>1. (n - 1) * n = n * (n - 1)
    OBVIOUS
  <2> QED BY <1>1, <1>2, <2>1
<1>4. 12 * (n * y - x * x) = 2 * (n * (6 * y)) - 3 * ((2 * x) * (2 * x))
  BY <1>1
<1>5. 2 * (n * (p * (2 * n - 1))) - 3 * (p * p) = p * (n * (4 * n - 2) - 3 * p)
  BY <1>2
<1>6. n * (4 * n - 2) - 3 * p = n * (n + 1)
  BY <1>2
<1>7. 12 * (n * y - x * x) = p * (n * (n + 1))
  BY <1>3, <1>4, <1>5, <1>6
<1>8. PICK q \in Nat : q = n * (n + 1) /\ q >= 1
  <2>1. n * (n + 1) = n * n + n /\ n * n \in Nat
    BY ProductType
  <2>2. PICK q \in Nat : q = n * n
    BY <2>1
  <2> QED BY <2>1, <2>2
<1>9. PICK r \in Int : r = p * q /\ r > 0
  <2>1. 0 < p /\ q # 0
    BY <1>2, <1>8
  <2>2. q * 0 < q * p
    BY <2>1, MulLess
  <2>3. q * 0 = 0 /\ q * p = p * q /\ p * q \in Int
    OBVIOUS
  <2> QED BY <2>2, <2>3
<1>10. PICK d \in Int : d = n * y - x * x
  BY <1>1
<1>11. 12 * d = r
  BY <1>7, <1>8, <1>9, <1>10
<1>12. Spread(n) = d
  BY <1>1, <1>10 DEF Spread
<1> QED BY <1>9, <1>11, <1>12

\* The series read backwards.
Back(v) == [i \in DOMAIN v |-> v[Len(v) + 1 - i]]

LEMMA SlopeReverses ==
  ASSUME NEW n \in Int, NEW s \in Int, NEW x \in Int, NEW xy \in Int, NEW a \in Int, NEW t \in Int,
         2 * x = n * (n - 1), a = n * xy - x * s, t = (n - 1) * s + (-1) * xy
  PROVE  n * t - x * s = -a
<1>1. n * ((n - 1) * s + (-1) * xy) = (n * (n - 1)) * s - n * xy
  OBVIOUS
<1>2. (n * (n - 1)) * s = 2 * (x * s)
  <2>1. (2 * x) * s = 2 * (x * s)
    OBVIOUS
  <2> QED BY <2>1
<1>3. PICK y \in Int, z \in Int : y = x * s /\ z = n * xy
  OBVIOUS
<1>4. n * ((n - 1) * s + (-1) * xy) = 2 * y - z
  BY <1>1, <1>2, <1>3
<1>5. (2 * y - z) - y = -(z - y)
  OBVIOUS
<1>6. a = z - y /\ n * t = 2 * y - z
  BY <1>3, <1>4
<1> QED BY <1>3, <1>5, <1>6

LEMMA BackIs ==
  ASSUME NEW v \in Series
  PROVE  Len(Back(v)) = Len(v) /\ Sum(Back(v)) = Sum(v) /\ Slope(Back(v)) = -Slope(v)
<1>1. PICK n, s, x, x2, xy, d, a : Measured(v, n, s, x, x2, xy, d, a)
  BY Measures
<1>2. /\ v \in Seq(Int) /\ n \in Nat /\ n = Len(v) /\ s \in Int /\ s = Sum(v) /\ x \in Int /\ x = SumX(n)
      /\ xy \in Int /\ xy = SumXY(v) /\ a \in Int /\ a = Slope(v) /\ a = n * xy - x * s
  BY <1>1, Zenon DEF Measured
<1>2a. n \in Nat /\ s \in Int /\ x \in Int /\ xy \in Int
  BY <1>2, Zenon
<1>3. \A i \in 1..n : v[i] \in Int
  BY <1>2, SeqItem, Zenon
<1>4. DOMAIN v = 1..n
  BY <1>2
<1>5. PICK u : u = Back(v) /\ u \in Seq(Int) /\ Len(u) = n /\ \A i \in 1..n : u[i] = v[n + 1 - i]
  <2>1. \A i \in 1..n : n + 1 - i \in 1..n
    BY <1>2
  <2>2. Back(v) = [i \in 1..n |-> v[n + 1 - i]]
    BY <1>2, <1>4, Zenon DEF Back
  <2> DEFINE back == [i \in 1..n |-> v[n + 1 - i]]
  <2>3. \A i \in 1..n : v[n + 1 - i] \in Int
    BY <1>3, <2>1, Zenon
  <2>4. back \in Seq(Int) /\ Len(back) = n /\ \A i \in 1..n : back[i] = v[n + 1 - i]
    BY <1>2a, <2>3
  <2> HIDE DEF back
  <2>5. Back(v) = back
    BY <2>2, Zenon DEF back
  <2> QED BY <2>4, <2>5, Zenon
<1>6. Sum(u) = s
  BY <1>2, <1>5, SumsBackwards
<1> DEFINE w == [i \in 1..n |-> (n - i) * v[i]]
<1>7. w \in Seq(Int) /\ Len(w) = n /\ \A i \in 1..n : w[i] = (n - i) * v[i]
  <2>1. \A i \in 1..n : (n - i) * v[i] \in Int
    BY <1>2a, <1>3
  <2> QED BY <1>2, <2>1
<1> HIDE DEF w
<1>8. PICK t \in Int : t = SumXY(u) /\ t = Sum(w)
  <2>1. /\ Xys(u) \in Seq(Int) /\ Len(Xys(u)) = n /\ \A i \in 1..n : Xys(u)[i] = (i - 1) * u[i]
        /\ SumXY(u) = Sum(Xys(u)) /\ SumXY(u) \in Int
    BY <1>5, XysAre
  <2>2. ASSUME NEW i \in 1..n PROVE Xys(u)[i] = w[n + 1 - i]
    <3>1. n + 1 - i \in 1..n /\ n - (n + 1 - i) = i - 1
      BY <1>2
    <3> QED BY <1>5, <1>7, <2>1, <3>1
  <2>3. Sum(Xys(u)) = Sum(w)
    BY <1>7, <2>1, <2>2, SumsBackwards
  <2> QED BY <2>1, <2>3
<1>9. Sum(w) = (n - 1) * s + (-1) * xy
  <2>1. Combines(v, Xys(v), w, n - 1, -1)
    <3>1. ASSUME NEW i \in 1..n PROVE w[i] = (n - 1) * v[i] + (-1) * Xys(v)[i]
      <4>1. PICK y \in Int : y = v[i]
        BY <1>3
      <4>2. (n - i) * y = (n - 1) * y + (-1) * ((i - 1) * y)
        BY <1>2
      <4>3. Xys(v)[i] = (i - 1) * y
        BY <1>2, <4>1, XysAre
      <4> QED BY <1>7, <4>1, <4>2, <4>3, Zenon
    <3>2. n - 1 \in Int /\ -1 \in Int
      BY <1>2
    <3>3. Xys(v) \in Seq(Int) /\ Len(Xys(v)) = n
      BY <1>2, XysAre
    <3> QED BY <1>2, <1>7, <3>1, <3>2, <3>3, Zenon DEF Combines
  <2>2. Sum(w) = (n - 1) * Sum(v) + (-1) * Sum(Xys(v))
    BY <2>1, SumsLinear
  <2>3. Sum(Xys(v)) = xy
    BY <1>2, XysAre
  <2> QED BY <1>2, <2>2, <2>3, Zenon
<1>10. 2 * x = n * (n - 1)
  BY <1>2, SumsOfX
<1>11. Slope(u) = n * t - x * s
  BY <1>2, <1>5, <1>6, <1>8, Zenon DEF Slope
<1>12. n * t - x * s = -a
  <2>1. n \in Int /\ s \in Int /\ x \in Int /\ xy \in Int /\ a \in Int /\ t \in Int /\ 2 * x = n * (n - 1)
    BY <1>2, <1>8, <1>10
  <2>2. a = n * xy - x * s /\ t = (n - 1) * s + (-1) * xy
    BY <1>2, <1>8, <1>9, Zenon
  <2> QED BY <2>1, <2>2, SlopeReverses
<1> QED BY <1>2, <1>5, <1>6, <1>8, <1>9, <1>11, <1>12, Zenon

LEMMA Absolute ==
  ASSUME NEW a \in Int
  PROVE  Abs(a) \in Nat /\ Abs(-a) = Abs(a) /\ (a # 0 => Abs(a) > 0) /\ (a = 0 => Abs(a) = 0)
BY DEF Abs

\* The direction of a series of the length n with the sum s, the slope a and the spread d.
IsFlat(n, s, a, d) ==
  n < 2 \/ IF s = 0 THEN 1000 * Abs(a) < d ELSE 1000 * n * Abs(a) < Abs(s) * d

LEMMA DirectionIs ==
  ASSUME NEW v
  PROVE  Direction(v) = IF IsFlat(Len(v), Sum(v), Slope(v), Spread(Len(v))) THEN "flat" ELSE IF Slope(v) > 0 THEN "up" ELSE "down"
<1>1. CASE Len(v) < 2
  BY <1>1 DEF Direction, IsFlat
<1>2. CASE ~(Len(v) < 2) /\ Sum(v) = 0
  BY <1>2, ZenonT(30) DEF Direction, IsFlat
<1>3. CASE ~(Len(v) < 2) /\ Sum(v) # 0
  BY <1>3, ZenonT(30) DEF Direction, IsFlat
<1> QED BY <1>1, <1>2, <1>3

LEMMA FlatBothWays ==
  ASSUME NEW n \in Nat, NEW s \in Int, NEW a \in Int, NEW d \in Int
  PROVE  IsFlat(n, s, -a, d) <=> IsFlat(n, s, a, d)
<1>1. PICK p \in Nat : p = Abs(a) /\ p = Abs(-a)
  BY Absolute
<1>2. PICK q \in Nat : q = Abs(s)
  BY Absolute
<1> QED BY <1>1, <1>2 DEF IsFlat

LEMMA NoSlopeIsFlat ==
  ASSUME NEW n \in Nat, NEW s \in Int, NEW d \in Int, n >= 2 => d > 0
  PROVE  IsFlat(n, s, 0, d)
<1> SUFFICES ASSUME n >= 2, d > 0 PROVE IF s = 0 THEN 1000 * Abs(0) < d ELSE 1000 * n * Abs(0) < Abs(s) * d
  BY DEF IsFlat
<1>1. 1000 * Abs(0) = 0 /\ 1000 * n * Abs(0) = 0
  <2>1. Abs(0) = 0
    BY DEF Abs
  <2> QED BY <2>1
<1>2. s # 0 => 0 < Abs(s) * d
  <2>1. PICK y \in Nat : y = Abs(s) /\ (s # 0 => y > 0)
    BY Absolute
  <2>2. ASSUME s # 0 PROVE 0 < y * d
    <3>1. y * 0 < y * d
      BY <2>1, <2>2, MulLess
    <3>2. y * 0 = 0
      OBVIOUS
    <3> QED BY <3>1, <3>2
  <2> QED BY <2>1, <2>2
<1> QED BY <1>1, <1>2

LEMMA TrendsReverse ==
  ASSUME Answered(call)
  PROVE  TrendReverses
<1> SUFFICES ASSUME call.fn = "detectTrend"
             PROVE  Direction(Back(call.v)) = CASE call.direction = "up" -> "down" [] call.direction = "down" -> "up" [] OTHER -> "flat"
  BY DEF TrendReverses, Back
<1>1. PICK v \in Series : call.v = v /\ call.direction = Direction(v)
  BY AnswersByName DEF Directed
<1>2. PICK n, s, x, x2, xy, d, a : Measured(v, n, s, x, x2, xy, d, a)
  BY Measures
<1>3. n \in Nat /\ n = Len(v) /\ s \in Int /\ s = Sum(v) /\ d \in Int /\ d = Spread(n) /\ a \in Int /\ a = Slope(v)
  BY <1>2, Zenon DEF Measured
<1>4. Len(Back(v)) = n /\ Sum(Back(v)) = s /\ Slope(Back(v)) = -a
  BY <1>3, BackIs
<1>5. Direction(v) = IF IsFlat(n, s, a, d) THEN "flat" ELSE IF a > 0 THEN "up" ELSE "down"
  BY <1>3, DirectionIs
<1>6. Direction(Back(v)) = IF IsFlat(n, s, -a, d) THEN "flat" ELSE IF -a > 0 THEN "up" ELSE "down"
  BY <1>3, <1>4, DirectionIs
<1>7. IsFlat(n, s, -a, d) <=> IsFlat(n, s, a, d)
  <2>1. n \in Nat /\ s \in Int /\ d \in Int /\ a \in Int
    BY <1>3, Zenon
  <2> QED BY <2>1, FlatBothWays
<1>8. a = 0 => IsFlat(n, s, a, d)
  BY <1>3, SpreadPositive, NoSlopeIsFlat
<1>9. a > 0 => ~(-a > 0)
  BY <1>3
<1>10. ~(a > 0) /\ a # 0 => -a > 0
  BY <1>3
<1> QED BY <1>1, <1>5, <1>6, <1>7, <1>8, <1>9, <1>10

-----------------------------------------------------------------------------
(* Seasons and outliers *)

LEMMA SquareType ==
  ASSUME NEW x \in Int
  PROVE  x * x \in Nat /\ (x # 0 => x * x > 0)
<1>1. ASSUME NEW y \in Nat PROVE y * y \in Nat /\ (y # 0 => y * y > 0)
  <2>1. y * y \in Nat
    BY ProductType
  <2>2. ASSUME y # 0 PROVE y * y > 0
    <3>1. y * 0 < y * y
      BY <2>2, MulLess
    <3> QED BY <2>1, <3>1
  <2> QED BY <2>1, <2>2
<1>2. CASE x \in Nat
  BY <1>1, <1>2
<1>3. CASE x \notin Nat
  <2>1. PICK y \in Nat : x = -y
    BY <1>3
  <2>2. x * x = y * y
    BY <2>1
  <2> QED BY <1>1, <2>1, <2>2
<1> QED BY <1>2, <1>3

\* What Squares adds up.
Squared(v) == [i \in DOMAIN v |-> Centered(v)[i] * Centered(v)[i]]

\* The n deviations of a series from its mean, their squares and the sum of these.
Deviates(v, n, c, q) ==
  /\ v \in Series /\ v \in Seq(Int) /\ n \in Nat /\ n # 0 /\ n = Len(v) /\ DOMAIN v = 1..n
  /\ c = Centered(v) /\ q = Squared(v)
  /\ \A i \in 1..n : c[i] \in Int
  /\ q \in Seq(Nat) /\ Len(q) = n /\ \A i \in 1..n : q[i] = c[i] * c[i]
  /\ Squares(v) = Sum(q) /\ Squares(v) \in Nat

LEMMA Deviations ==
  ASSUME NEW v \in Series
  PROVE  \E n, c, q : Deviates(v, n, c, q)
<1>1. v \in Seq(Int) /\ v # <<>>
  BY SeriesAssumption
<1>2. PICK n \in Nat : n = Len(v) /\ n # 0 /\ DOMAIN v = 1..n
  BY <1>1
<1>3. PICK s \in Int : s = Sum(v)
  BY <1>1, SumType
<1>4. PICK c : c = Centered(v)
  OBVIOUS
<1>5. \A i \in 1..n : c[i] \in Int
  <2> SUFFICES ASSUME NEW i \in 1..n PROVE c[i] \in Int
    OBVIOUS
  <2>1. PICK x \in Int : x = v[i]
    BY <1>1, <1>2
  <2>2. c[i] = n * x - s
    BY <1>2, <1>3, <1>4, <2>1, Zenon DEF Centered
  <2>3. n * x - s \in Int
    BY <1>2, <1>3
  <2> QED BY <2>2, <2>3
<1> DEFINE q == [i \in 1..n |-> c[i] * c[i]]
<1>6. q \in Seq(Nat) /\ Len(q) = n /\ \A i \in 1..n : q[i] = c[i] * c[i]
  <2>1. \A i \in 1..n : c[i] * c[i] \in Nat
    BY <1>5, SquareType
  <2> QED BY <2>1
<1>7. q = Squared(v)
  BY <1>2, <1>4, Zenon DEF Squared
<1>8. Squares(v) = Sum(Squared(v))
  BY Zenon DEF Squares, Squared
<1> HIDE DEF q
<1>9. Sum(q) \in Nat
  BY <1>6, SumNat
<1>10. Deviates(v, n, c, q)
  BY <1>1, <1>2, <1>4, <1>5, <1>6, <1>7, <1>8, <1>9, Zenon DEF Deviates
<1> QED BY <1>10

\* The sums of squares are sums of naturals.
LEMMA SquareSums ==
  ASSUME NEW v, NEW n, NEW c, NEW q, Deviates(v, n, c, q)
  PROVE  /\ \A k \in 0..n : Sums(q)[k] \in Nat
         /\ \A j, k \in 0..n : j <= k => Sums(q)[j] <= Sums(q)[k]
         /\ Sums(q)[n] = Squares(v)
<1>1. n \in Nat /\ q \in Seq(Nat) /\ Len(q) = n /\ Squares(v) = Sum(q)
  BY Zenon DEF Deviates
<1>2. q \in Seq(Int)
  BY <1>1
<1>3. \A j, k \in 0..n : j <= k => Sums(q)[j] <= Sums(q)[k]
  BY <1>1, SumsGrow
<1>4. Sums(q)[0] = 0 /\ \A k \in 0..n : Sums(q)[k] \in Int
  BY <1>1, <1>2, SumsAre
<1>5. \A k \in 0..n : Sums(q)[k] \in Nat
  <2> SUFFICES ASSUME NEW k \in 0..n PROVE Sums(q)[k] \in Nat
    OBVIOUS
  <2>1. 0 \in 0..n /\ 0 <= k
    BY <1>1
  <2>2. Sums(q)[0] <= Sums(q)[k]
    BY <1>3, <2>1
  <2> QED BY <1>4, <2>2
<1> QED BY <1>1, <1>3, <1>5, Zenon DEF Sum

\* A series that is not constant deviates from its mean.
LEMMA NotConstant ==
  ASSUME NEW v, NEW n, NEW c, NEW q, Deviates(v, n, c, q), ~ \A i \in DOMAIN v : v[i] = v[1]
  PROVE  Squares(v) > 0
<1>1. /\ n \in Nat /\ n # 0 /\ DOMAIN v = 1..n /\ v \in Seq(Int) /\ n = Len(v) /\ \A i \in 1..n : c[i] \in Int
      /\ q \in Seq(Nat) /\ Len(q) = n /\ (\A i \in 1..n : q[i] = c[i] * c[i]) /\ c = Centered(v)
      /\ Squares(v) = Sum(q) /\ Squares(v) \in Nat
  BY Zenon DEF Deviates
<1>2. PICK s \in Int : s = Sum(v)
  BY <1>1, SumType
<1>3. \A i \in 1..n : c[i] = n * v[i] - s
  BY <1>1, <1>2, Zenon DEF Centered
<1>4. \E i \in 1..n : c[i] # 0
  <2> SUFFICES ASSUME \A i \in 1..n : c[i] = 0 PROVE \A i \in 1..n : v[i] = v[1]
    BY <1>1
  <2> SUFFICES ASSUME NEW i \in 1..n PROVE v[i] = v[1]
    OBVIOUS
  <2>1. 1 \in 1..n
    BY <1>1
  <2>2. PICK x \in Int, y \in Int : x = v[i] /\ y = v[1]
    BY <1>1, <2>1
  <2>3. n * x - s = 0 /\ n * y - s = 0
    BY <1>3, <2>1, <2>2
  <2>4. n \in Nat /\ n # 0
    BY <1>1
  <2>5. n * x = n * y
    <3>1. PICK a \in Int, b \in Int : a = n * x /\ b = n * y
      BY <2>4
    <3> QED BY <2>3, <3>1
  <2>6. ~(x < y) /\ ~(y < x)
    <3>1. n * x \in Int /\ n * y \in Int
      BY <2>4
    <3>2. x < y => n * x < n * y
      BY <2>4, MulLess
    <3>3. y < x => n * y < n * x
      BY <2>4, MulLess
    <3> QED BY <2>5, <3>1, <3>2, <3>3
  <2> QED BY <2>2, <2>6
<1>5. PICK i \in 1..n : c[i] # 0
  BY <1>4
<1>6. q[i] > 0
  BY <1>1, <1>5, SquareType
<1>7. q[i] <= Sum(q)
  BY <1>1, ItemAtMostSum
<1> QED BY <1>1, <1>6, <1>7

\* A series that repeats itself is, shifted by its period, as much like itself as the half of it.
LEMMA RepeatedCorrelates ==
  ASSUME NEW v, NEW n, NEW c, NEW q, Deviates(v, n, c, q),
         NEW p \in 2..(n \div 2), \A i \in 1..(n - p) : v[i + p] = v[i]
  PROVE  Correlation(v, p) \in Nat /\ Squares(v) <= 2 * Correlation(v, p)
<1>1. /\ n \in Nat /\ DOMAIN v = 1..n /\ n = Len(v) /\ (\A i \in 1..n : c[i] \in Int)
      /\ q \in Seq(Nat) /\ Len(q) = n /\ (\A i \in 1..n : q[i] = c[i] * c[i]) /\ c = Centered(v)
  BY Zenon DEF Deviates
<1>2. n \in Nat
  BY <1>1
<1>3. p \in Nat /\ 2 * p <= n
  <2>1. PICK h \in Int : h = n \div 2 /\ 2 * h <= n
    BY <1>2, DivIs
  <2> QED BY <1>2, <2>1
<1>4. PICK m \in Nat : m = n - p /\ p <= m
  BY <1>2, <1>3
<1>5. ASSUME NEW i \in 1..m PROVE c[i + p] = c[i]
  <2>1. i \in 1..n /\ i + p \in 1..n
    BY <1>2, <1>3, <1>4
  <2>2. v[i + p] = v[i]
    BY <1>4
  <2> QED BY <1>1, <2>1, <2>2, Zenon DEF Centered
<1>6. q \in Seq(Int)
  BY <1>1
<1> DEFINE like == [i \in 1..m |-> c[i] * c[i + p]]
           last == [k \in 1..p |-> q[m + k]]
<1>7. /\ like \in Seq(Int) /\ Len(like) = m /\ \A i \in 1..m : like[i] = q[i]
  <2>1. \A i \in 1..m : i \in 1..n
    BY <1>2, <1>3, <1>4
  <2>2. \A i \in 1..m : c[i] * c[i + p] = q[i]
    BY <1>1, <1>5, <2>1, Zenon
  <2>3. \A i \in 1..m : q[i] \in Int
    BY <1>1, <1>6, <2>1, SeqItem, Zenon
  <2>4. like = [i \in 1..m |-> q[i]]
    BY <2>2, Zenon
  <2> HIDE DEF like
  <2> QED BY <2>3, <2>4
<1>8. Correlation(v, p) = Sum(like)
  <2>1. 1..(Len(v) - p) = 1..m
    BY <1>1, <1>4
  <2> QED BY <1>1, <2>1, Zenon DEF Correlation
<1> HIDE DEF like
<1>9. Sum(like) = Sums(q)[m]
  <2>1. Len(like) <= Len(q)
    BY <1>1, <1>3, <1>4, <1>7
  <2>2. \A k \in 0..m : Sums(like)[k] = Sums(q)[k]
    BY <1>6, <1>7, <2>1, SumsAgree
  <2> QED BY <1>7, <2>2 DEF Sum
<1>10. last \in Seq(Int) /\ Len(last) = p /\ \A k \in 1..p : last[k] = q[m + k]
  <2>1. \A k \in 1..p : m + k \in 1..n
    BY <1>2, <1>3, <1>4
  <2>2. \A k \in 1..p : q[m + k] \in Int
    BY <1>1, <1>6, <2>1, SeqItem, Zenon
  <2> QED BY <1>3, <2>2
<1> HIDE DEF last
<1>11. Sums(last)[p] = Sums(q)[n] - Sums(q)[m]
  <2>1. m \in 0..Len(q) /\ Len(last) <= Len(q) - m /\ p \in 0..Len(last) /\ m + p = n
    BY <1>1, <1>3, <1>4, <1>10
  <2>2. \A k \in 0..Len(last) : Sums(last)[k] = Sums(q)[m + k] - Sums(q)[m]
    BY <1>6, <1>10, <2>1, SumsAfter
  <2> QED BY <2>1, <2>2
<1>12. PICK b \in Nat : b = m - p
  BY <1>3, <1>4
<1>13. Sums(last)[p] = Sums(q)[m] - Sums(q)[b]
  <2>1. b \in 0..Len(q) /\ Len(last) <= Len(q) - b /\ p \in 0..Len(last) /\ b + p = m
    BY <1>1, <1>3, <1>4, <1>10, <1>12
  <2>2. ASSUME NEW k \in 1..p PROVE last[k] = q[b + k]
    <3>1. b + k \in 1..m /\ (b + k) + p = m + k /\ b + k \in 1..n /\ m + k \in 1..n
      BY <1>2, <1>3, <1>4, <1>12
    <3>2. c[(b + k) + p] = c[b + k]
      BY <1>5, <3>1
    <3>3. c[m + k] = c[b + k]
      BY <3>1, <3>2, Zenon
    <3>4. q[m + k] = c[m + k] * c[m + k] /\ q[b + k] = c[b + k] * c[b + k]
      BY <1>1, <3>1, Zenon
    <3> QED BY <1>10, <3>3, <3>4, Zenon
  <2>3. \A k \in 0..Len(last) : Sums(last)[k] = Sums(q)[b + k] - Sums(q)[b]
    BY <1>6, <1>10, <2>1, <2>2, SumsAfter
  <2> QED BY <2>1, <2>3
<1>14. PICK x \in Nat, y \in Nat, z \in Nat : x = Sums(q)[n] /\ y = Sums(q)[m] /\ z = Sums(q)[b]
  <2>1. n \in 0..n /\ m \in 0..n /\ b \in 0..n
    BY <1>2, <1>3, <1>4, <1>12
  <2> QED BY <2>1, SquareSums
<1>15. x - y = y - z
  BY <1>11, <1>13, <1>14
<1>16. Squares(v) = x
  BY <1>14, SquareSums
<1> QED BY <1>8, <1>9, <1>14, <1>15, <1>16

LEMMA CorrelationType ==
  ASSUME NEW v, NEW n, NEW c, NEW q, Deviates(v, n, c, q), NEW lag \in 0..n
  PROVE  Correlation(v, lag) \in Int
<1>1. n \in Nat /\ n = Len(v) /\ (\A i \in 1..n : c[i] \in Int) /\ c = Centered(v)
  BY Zenon DEF Deviates
<1>2. PICK m \in Nat : m = n - lag
  <2>1. n \in Nat
    BY <1>1, Zenon
  <2> QED BY <2>1
<1> DEFINE like == [i \in 1..m |-> c[i] * c[i + lag]]
<1>3. like \in Seq(Int)
  <2>1. \A i \in 1..m : i \in 1..n /\ i + lag \in 1..n
    BY <1>1, <1>2
  <2>2. \A i \in 1..m : c[i] * c[i + lag] \in Int
    BY <1>1, <2>1
  <2> QED BY <2>2
<1>4. Correlation(v, lag) = Sum(like)
  <2>1. Len(v) - lag = m
    BY <1>1, <1>2
  <2> QED BY <1>1, <2>1, Zenon DEF Correlation
<1> HIDE DEF like
<1> QED BY <1>3, <1>4, SumType

\* One of the lags is the first with the highest correlation.
LEMMA HighestLag ==
  ASSUME NEW v, NEW n, NEW c, NEW q, Deviates(v, n, c, q), NEW p \in 2..(n \div 2)
  PROVE  \E lag \in 2..(n \div 2) :
           \A other \in 2..(n \div 2) : /\ Correlation(v, other) <= Correlation(v, lag)
                                        /\ other < lag => Correlation(v, other) < Correlation(v, lag)
<1>1. n \in Nat
  BY Zenon DEF Deviates
<1>2. PICK h \in Nat : h = n \div 2 /\ h <= n
  BY <1>1
<1>3. \A k \in 1..h : Correlation(v, k) \in Int
  <2>1. \A k \in 1..h : k \in 0..n
    BY <1>1, <1>2
  <2> QED BY <2>1, CorrelationType
<1> DEFINE f == [k \in 1..h |-> Correlation(v, k)]
           M == {k \in 2..h : \A other \in 2..h : Correlation(v, other) <= Correlation(v, k)}
<1>4. f \in [1..h -> Int] /\ \A k \in 1..h : f[k] = Correlation(v, k)
  BY <1>3
<1> HIDE DEF f
<1>5. 2..h \in SUBSET (1..h) /\ 2..h # {}
  BY <1>2
<1>6. PICK k \in 2..h : \A j \in (2..h) \ {k} : f[k] > f[j] \/ (f[k] = f[j] /\ k > j)
  BY <1>4, <1>5, LargestItem
<1>7. k \in M
  <2>1. \A j \in 2..h : f[j] \in Int
    BY <1>4, <1>5
  <2>2. \A j \in 2..h : f[j] <= f[k]
    BY <1>6, <2>1
  <2> QED BY <1>4, <1>5, <2>2
<1>8. PICK lag \in M : \A m \in M : lag <= m
  <2>1. M \in SUBSET Nat /\ M # {}
    BY <1>7
  <2> HIDE DEF M
  <2> QED BY <2>1, LeastExists
<1>9. lag \in 2..h /\ \A other \in 2..h : Correlation(v, other) <= Correlation(v, lag)
  BY <1>8
<1>10. ASSUME NEW other \in 2..h, other < lag PROVE Correlation(v, other) < Correlation(v, lag)
  <2>1. other \notin M
    <3>1. other \in M => lag <= other
      BY <1>8
    <3>2. lag \in Int /\ other \in Int
      BY <1>9
    <3> QED BY <1>10, <3>1, <3>2
  <2>2. PICK o \in 2..h : ~(Correlation(v, o) <= Correlation(v, other))
    BY <2>1
  <2>3. Correlation(v, o) <= Correlation(v, lag)
    BY <1>9
  <2>4. Correlation(v, o) \in Int /\ Correlation(v, other) \in Int /\ Correlation(v, lag) \in Int
    BY <1>3, <1>5, <1>9
  <2> QED BY <2>2, <2>3, <2>4
<1> QED BY <1>2, <1>9, <1>10, Zenon

\* A series of n values repeats itself every p of them, and is not constant.
Repeats(v, n, p) ==
  p \in 2..(n \div 2) /\ (\A i \in 1..(n - p) : v[i + p] = v[i]) /\ ~ \A i \in DOMAIN v : v[i] = v[1]

LEMMA SeasonFound ==
  ASSUME NEW v, NEW n, NEW c, NEW q, NEW p, Deviates(v, n, c, q), Repeats(v, n, p)
  PROVE  Periods(v) # {}
<1>0. p \in 2..(n \div 2) /\ (\A i \in 1..(n - p) : v[i + p] = v[i]) /\ ~ \A i \in DOMAIN v : v[i] = v[1]
  BY Zenon DEF Repeats
<1>1. n \in Nat /\ n = Len(v) /\ Squares(v) \in Nat
  BY Zenon DEF Deviates
<1>2. PICK lag \in 2..(n \div 2) :
           \A other \in 2..(n \div 2) : /\ Correlation(v, other) <= Correlation(v, lag)
                                        /\ other < lag => Correlation(v, other) < Correlation(v, lag)
  BY <1>0, HighestLag
<1>3. PICK sq \in Nat : sq = Squares(v) /\ sq > 0
  BY <1>0, <1>1, NotConstant
<1>4. PICK x \in Nat : x = Correlation(v, p) /\ sq <= 2 * x
  BY <1>0, <1>3, RepeatedCorrelates
<1>5. PICK y \in Int : y = Correlation(v, lag) /\ x <= y
  <2>1. lag \in 0..n
    <3>1. PICK h \in Int : h = n \div 2 /\ h <= n
      BY <1>1
    <3> QED BY <1>1, <3>1
  <2>2. Correlation(v, lag) \in Int
    BY <2>1, CorrelationType
  <2>3. Correlation(v, p) <= Correlation(v, lag)
    BY <1>0, <1>2
  <2> QED BY <1>4, <2>2, <2>3
<1>6. 10 * Correlation(v, lag) > 3 * Squares(v)
  BY <1>3, <1>4, <1>5
<1>7. n >= 4
  <2>1. PICK h \in Int : h = n \div 2 /\ 2 * h <= n
    BY <1>1, DivIs
  <2> QED BY <1>0, <1>1, <2>1
<1>8. lag \in Periods(v)
  BY <1>1, <1>2, <1>6, <1>7, Zenon DEF Periods
<1> QED BY <1>8

LEMMA RepetitionSeasonal ==
  ASSUME Answered(call)
  PROVE  RepetitionIsSeasonal
<1> SUFFICES ASSUME call.fn = "detectSeasonality",
                    \E p \in 2..(Len(call.v) \div 2) : \A i \in 1..(Len(call.v) - p) : call.v[i + p] = call.v[i],
                    ~ \A i \in DOMAIN call.v : call.v[i] = call.v[1]
             PROVE  call.periods # {}
  BY Zenon DEF RepetitionIsSeasonal
<1>1. PICK v \in Series : call.v = v /\ call.periods = Periods(v)
  BY AnswersByName DEF Seasoned
<1>2. PICK n, c, q : Deviates(v, n, c, q)
  BY Deviations
<1>3. n = Len(v)
  BY <1>2, Zenon DEF Deviates
<1>4. PICK p \in 2..(n \div 2) : \A i \in 1..(n - p) : v[i + p] = v[i]
  BY <1>1, <1>3, Zenon
<1>5. ~ \A i \in DOMAIN v : v[i] = v[1]
  BY <1>1, Zenon
<1>6. Repeats(v, n, p)
  BY <1>4, <1>5, Zenon DEF Repeats
<1>7. Periods(v) # {}
  BY <1>2, <1>6, SeasonFound
<1> QED BY <1>1, <1>7

\* The number of elements, as a sum.
LEMMA Counting ==
  ASSUME NEW n \in Nat, NEW A \in SUBSET (1..n), NEW e \in Seq(Int), Len(e) = n,
         \A i \in 1..n : e[i] = IF i \in A THEN 1 ELSE 0
  PROVE  Sum(e) = Cardinality(A) /\ Cardinality(A) \in Nat
<1>1. IsFiniteSet(1..n)
  BY FS_Interval
<1>2. IsFiniteSet(A)
  BY <1>1, FS_Subset
<1>3. Cardinality(A) \in Nat
  BY <1>2, FS_CardinalityType
<1> DEFINE first(k) == A \cap (1..k)
           f == [k \in 0..n |-> Cardinality(first(k))]
<1>4. \A k \in 0..n : IsFiniteSet(first(k)) /\ Cardinality(first(k)) \in Nat
  BY <1>2, FS_Subset, FS_CardinalityType
<1>5. f[0] = 0
  <2>1. first(0) = {} /\ 0 \in 0..n
    OBVIOUS
  <2>2. Cardinality({}) = 0
    BY FS_EmptySet
  <2> QED BY <2>1, <2>2
<1>6. ASSUME NEW k \in 1..n PROVE f[k] = f[k - 1] + e[k]
  <2>1. k \in 0..n /\ k - 1 \in 0..n
    OBVIOUS
  <2>2. CASE k \in A
    <3>1. first(k) = first(k - 1) \cup {k} /\ k \notin first(k - 1)
      BY <2>2
    <3>2. IsFiniteSet(first(k - 1))
      BY <1>4, <2>1
    <3> HIDE DEF first
    <3>3. Cardinality(first(k - 1) \cup {k}) = Cardinality(first(k - 1)) + 1
      BY <3>1, <3>2, FS_AddElement
    <3> QED BY <2>1, <2>2, <3>1, <3>3
  <2>3. CASE k \notin A
    <3>1. first(k) = first(k - 1)
      BY <2>3
    <3>2. Cardinality(first(k - 1)) \in Nat
      BY <1>4, <2>1
    <3> HIDE DEF first
    <3> QED BY <2>1, <2>3, <3>1, <3>2
  <2> QED BY <2>2, <2>3
<1>7. f[n] = Cardinality(A)
  <2>1. first(n) = A
    <3>1. A \subseteq 1..n
      BY Zenon
    <3> QED BY <3>1, Zenon
  <2>2. n \in 0..n
    OBVIOUS
  <2> QED BY <2>1, <2>2
<1> HIDE DEF f
<1>8. \A k \in 0..n : Sums(e)[k] = f[k]
  BY <1>5, <1>6, SumsUnique
<1> QED BY <1>3, <1>7, <1>8 DEF Sum

LEMMA FewOutliers ==
  ASSUME NEW v, NEW n, NEW c, NEW q, Deviates(v, n, c, q), NEW s \in Nat
  PROVE  s * s * Cardinality(Anomalies(v, s)) <= 4 * n
<1>1. /\ n \in Nat /\ n = Len(v) /\ DOMAIN v = 1..n /\ (\A i \in 1..n : c[i] \in Int)
      /\ q \in Seq(Nat) /\ Len(q) = n /\ (\A i \in 1..n : q[i] = c[i] * c[i]) /\ c = Centered(v)
      /\ Squares(v) = Sum(q) /\ Squares(v) \in Nat
  BY Zenon DEF Deviates
<1>2. PICK t \in Nat, ss \in Nat : t = Squares(v) /\ ss = s * s
  BY <1>1, ProductType
<1>3. PICK A \in SUBSET (1..n) : A = Anomalies(v, s)
  BY <1>1 DEF Anomalies
<1>4. n \in Nat /\ (\A i \in 1..n : q[i] \in Nat)
  BY <1>1, SeqItem, Zenon
<1>5. ASSUME NEW i \in A PROVE (4 * n) * q[i] > ss * t
  <2>1. PICK x \in Int : x = c[i]
    BY <1>1
  <2>2. 4 * n * x * x > ss * t
    BY <1>1, <1>2, <1>3, <2>1, Zenon DEF Anomalies
  <2>3. 4 * n * x * x = (4 * n) * (x * x)
    BY <1>4
  <2>4. q[i] = x * x
    BY <1>1, <2>1, Zenon
  <2> QED BY <2>2, <2>3, <2>4, Zenon
<1> DEFINE e == [i \in 1..n |-> IF i \in A THEN 1 ELSE 0]
           u == [i \in 1..n |-> (ss * t) * (IF i \in A THEN 1 ELSE 0)]
           w == [i \in 1..n |-> (4 * n) * q[i]]
<1>6. e \in Seq(Int) /\ Len(e) = n /\ \A i \in 1..n : e[i] = IF i \in A THEN 1 ELSE 0
  BY <1>4
<1>7. u \in Seq(Int) /\ Len(u) = n /\ \A i \in 1..n : u[i] = (ss * t) * (IF i \in A THEN 1 ELSE 0)
  <2>1. \A i \in 1..n : (ss * t) * (IF i \in A THEN 1 ELSE 0) \in Int
    BY <1>2
  <2> QED BY <1>4, <2>1
<1>8. w \in Seq(Int) /\ Len(w) = n /\ \A i \in 1..n : w[i] = (4 * n) * q[i]
  <2>1. \A i \in 1..n : (4 * n) * q[i] \in Int
    BY <1>4
  <2> QED BY <1>4, <2>1
<1> HIDE DEF e, u, w
<1>9. PICK a \in Nat : a = Cardinality(A) /\ Sum(e) = a
  BY <1>4, <1>6, Counting
<1>10. Sum(u) = (ss * t) * a + 0 * a
  <2>1. Combines(e, e, u, ss * t, 0)
    <3>1. ASSUME NEW i \in 1..n PROVE u[i] = (ss * t) * e[i] + 0 * e[i]
      <4>1. PICK y \in Int, z \in Int : y = e[i] /\ z = ss * t
        BY <1>2, <1>6
      <4>2. z * y = z * y + 0 * y
        OBVIOUS
      <4> QED BY <1>6, <1>7, <4>1, <4>2, Zenon
    <3>2. ss * t \in Int /\ 0 \in Int
      BY <1>2
    <3> QED BY <1>6, <1>7, <3>1, <3>2, Zenon DEF Combines
  <2> QED BY <1>9, <2>1, SumsLinear
<1>11. Sum(w) = (4 * n) * t + 0 * t
  <2>1. Combines(q, q, w, 4 * n, 0)
    <3>1. ASSUME NEW i \in 1..n PROVE w[i] = (4 * n) * q[i] + 0 * q[i]
      <4>1. PICK y \in Int, z \in Int : y = q[i] /\ z = 4 * n
        BY <1>4
      <4>2. z * y = z * y + 0 * y
        OBVIOUS
      <4> QED BY <1>8, <4>1, <4>2, Zenon
    <3>2. 4 * n \in Int /\ 0 \in Int
      BY <1>4
    <3>3. q \in Seq(Int)
      BY <1>1
    <3> QED BY <1>1, <1>8, <3>1, <3>2, <3>3, Zenon DEF Combines
  <2>2. Sum(w) = (4 * n) * Sum(q) + 0 * Sum(q)
    BY <2>1, SumsLinear
  <2> QED BY <1>1, <1>2, <2>2, Zenon
<1>12. Sum(u) <= Sum(w)
  <2>1. ASSUME NEW i \in 1..n PROVE u[i] <= w[i]
    <3>1. PICK x \in Int, y \in Nat : x = ss * t /\ y = (4 * n) * q[i]
      <4>1. PICK m \in Nat : m = 4 * n
        BY <1>4
      <4>2. m * q[i] \in Nat
        BY <1>4, ProductType
      <4> QED BY <1>2, <4>1, <4>2
    <3>2. CASE i \in A
      <4>1. y > x
        BY <1>5, <3>1, <3>2
      <4>2. u[i] = x * 1 /\ w[i] = y
        BY <1>7, <1>8, <3>1, <3>2, Zenon
      <4> QED BY <3>1, <4>1, <4>2
    <3>3. CASE i \notin A
      <4>1. u[i] = x * 0 /\ w[i] = y
        BY <1>7, <1>8, <3>1, <3>3, Zenon
      <4> QED BY <3>1, <4>1
    <3> QED BY <3>2, <3>3
  <2>2. \A k \in 0..n : Sums(u)[k] <= Sums(w)[k]
    BY <1>7, <1>8, <2>1, SumsMonotone
  <2>3. n \in 0..n
    BY <1>4
  <2> QED BY <1>7, <1>8, <2>2, <2>3 DEF Sum
<1>13. t * (ss * a) <= t * (4 * n)
  <2>1. (ss * t) * a + 0 * a = t * (ss * a) /\ (4 * n) * t + 0 * t = t * (4 * n)
    BY <1>2, <1>4, <1>9
  <2> QED BY <1>10, <1>11, <1>12, <2>1, Zenon
<1>14. PICK y \in Nat, m \in Nat : y = ss * a /\ m = 4 * n
  BY <1>2, <1>4, <1>9, ProductType
<1>15. CASE t # 0
  <2>1. m < y => t * m < t * y
    BY <1>2, <1>14, <1>15, MulLess
  <2>2. PICK b \in Int, d \in Int : b = t * m /\ d = t * y
    BY <1>2, <1>14
  <2>3. d <= b
    BY <1>13, <1>14, <2>2
  <2>4. y <= m
    BY <1>14, <2>1, <2>2, <2>3
  <2> QED BY <1>2, <1>3, <1>9, <1>14, <2>4, Zenon
<1>16. CASE t = 0
  <2>1. A = {}
    <3> SUFFICES ASSUME NEW i \in A PROVE FALSE
      OBVIOUS
    <3>1. q[i] <= Sum(q)
      BY <1>1, ItemAtMostSum
    <3>2. q[i] = 0
      BY <1>1, <1>2, <1>4, <1>16, <3>1
    <3>3. (4 * n) * q[i] = 0 /\ ss * t = 0
      BY <1>2, <1>4, <1>16, <3>2
    <3> QED BY <1>5, <3>3
  <2>2. a = 0
    BY <1>9, <2>1, FS_EmptySet
  <2>3. y = 0
    BY <1>2, <1>14, <2>2
  <2>4. y <= m
    BY <1>14, <2>3
  <2> QED BY <1>2, <1>3, <1>9, <1>14, <2>4, Zenon
<1> QED BY <1>15, <1>16

LEMMA OutliersFew ==
  ASSUME Answered(call)
  PROVE  OutliersAreFew
<1> SUFFICES ASSUME call.fn = "detectAnomalies"
             PROVE  call.s * call.s * Cardinality(call.anomalies) <= 4 * Len(call.v)
  BY Zenon DEF OutliersAreFew
<1>1. PICK v \in Series, s \in Sensitivities : call.v = v /\ call.s = s /\ call.anomalies = Anomalies(v, s)
  BY AnswersByName DEF Sifted
<1>2. PICK n, c, q : Deviates(v, n, c, q)
  BY Deviations
<1>3. n = Len(v)
  BY <1>2, Zenon DEF Deviates
<1>4. s \in Nat
  BY SeriesAssumption
<1>5. s * s * Cardinality(Anomalies(v, s)) <= 4 * n
  BY <1>2, <1>4, FewOutliers
<1> QED BY <1>1, <1>3, <1>5, Zenon

\* The figures of the engine follow the values they are computed from: alerts and trends of the
\* key figures, and lines, trends, seasons and outliers of a series (FiguresFaithful).
THEOREM Figures == DataSpec => FiguresFaithful
<1>1. Answered(call) => LineIsBestFit /\ TrendReverses /\ RepetitionIsSeasonal /\ OutliersAreFew
  BY BestFit, TrendsReverse, RepetitionSeasonal, OutliersFew
<1>2. DataSpec => []LineIsBestFit /\ []TrendReverses /\ []RepetitionIsSeasonal /\ []OutliersAreFew
  BY <1>1, Answers, PTL
<1> QED BY <1>2, AlertsStaying, TrendsFollow, PTL DEF FiguresFaithful
=============================================================================
