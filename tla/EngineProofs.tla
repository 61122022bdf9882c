---------------------------- MODULE EngineProofs ----------------------------
(***************************************************************************)
(* Proofs about what decides what a set plays: RotationChannel, TileFace   *)
(* and SetRegistry, for any library, channels, weights, lineups and files. *)
(***************************************************************************)
EXTENDS RotationChannel, TileFace, SetRegistry, SublistProofs

-----------------------------------------------------------------------------
(* Sums.  That of a list is what its steps make of 0.                      *)
Sums(f, n, steps) ==
    /\ steps \in [0..n -> Int] /\ steps[0] = 0
    /\ \A k \in 1..n : steps[k] = steps[k - 1] + f[k]

LEMMA SumInSteps ==
    ASSUME NEW n \in Nat, NEW f \in [1..n -> Int]
    PROVE  \E steps : Sums(f, n, steps) /\ SumOf(f) = steps[n]
<1> DEFINE E(u) == [k \in 0..n |-> IF k = 0 THEN 0 ELSE u[k - 1] + f[k]]
           adding == [k \in 1..n |-> [x \in Int |-> x + f[k]]]
           upTo == CHOOSE u : u = E(u)
<1>1. Len(f) = n /\ f \in Seq(Int)
  BY LenProperties
<1>2. PICK steps : LeadsOn(steps, n, Int, 0, adding)
  <2>1. adding \in [1..n -> [Int -> Int]] /\ 0 \in Int
    OBVIOUS
  <2> HIDE DEF adding
  <2> QED BY <2>1, StepByStep
<1>3. \A k \in 0..n : k = 0 \/ (k \in 1..n /\ k - 1 \in 0..n)
  OBVIOUS
<1>4. Sums(f, n, steps)
  <2>1. ASSUME NEW k \in 1..n PROVE steps[k] = steps[k - 1] + f[k]
    <3>1. k - 1 \in 0..n
      OBVIOUS
    <3>2. steps[k] = adding[k][steps[k - 1]] /\ steps[k - 1] \in Int
      BY <1>2, <3>1 DEF LeadsOn
    <3> QED BY <3>2
  <2> QED BY <1>2, <2>1 DEF LeadsOn, Sums
<1>5. steps = E(steps)
  BY <1>3, <1>4 DEF Sums
<1>6. upTo = E(upTo)
  <2> HIDE DEF E
  <2> QED BY <1>5
<1>7. SumOf(f) = upTo[n]
  BY <1>1 DEF SumOf
<1> HIDE DEF upTo
<1>8. Sums(f, n, upTo)
  <2> DEFINE G == {k \in 0..n : upTo[k] \in Int}
  <2>1. 0 \in G /\ upTo[0] = 0
    BY <1>6
  <2>2. ASSUME NEW k \in 1..n, k - 1 \in G PROVE k \in G
    <3>1. upTo[k] = upTo[k - 1] + f[k]
      BY <1>6
    <3> QED BY <2>2, <3>1
  <2>3. \A k \in 0..n : k \in G
    <3> HIDE DEF G
    <3> QED BY <2>1, <2>2, Climbing
  <2>4. upTo \in [0..n -> Int]
    BY <1>6, <2>3
  <2>5. \A k \in 1..n : upTo[k] = upTo[k - 1] + f[k]
    BY <1>6
  <2> QED BY <2>1, <2>4, <2>5 DEF Sums
<1> QED BY <1>7, <1>8

LEMMA SumIsANumber ==
    ASSUME NEW n \in Nat, NEW f \in [1..n -> Int]
    PROVE  SumOf(f) \in Int
<1>1. PICK steps : Sums(f, n, steps) /\ SumOf(f) = steps[n]
  BY SumInSteps
<1> QED BY <1>1 DEF Sums

(* The sum of two lists' sums is that of their entries' sums.              *)
LEMMA SumAdds ==
    ASSUME NEW n \in Nat, NEW f \in [1..n -> Int], NEW g \in [1..n -> Int],
           NEW h \in [1..n -> Int], \A k \in 1..n : h[k] = f[k] + g[k]
    PROVE  SumOf(h) = SumOf(f) + SumOf(g)
<1>1. PICK u : Sums(f, n, u) /\ SumOf(f) = u[n]
  BY SumInSteps
<1>2. PICK v : Sums(g, n, v) /\ SumOf(g) = v[n]
  BY SumInSteps
<1>3. PICK w : Sums(h, n, w) /\ SumOf(h) = w[n]
  BY SumInSteps
<1> DEFINE G == {k \in 0..n : w[k] = u[k] + v[k]}
<1>4. 0 \in G
  BY <1>1, <1>2, <1>3 DEF Sums
<1>5. ASSUME NEW k \in 1..n, k - 1 \in G PROVE k \in G
  <2>1. k - 1 \in 0..n /\ k \in 0..n
    OBVIOUS
  <2>2. /\ u[k] = u[k - 1] + f[k] /\ v[k] = v[k - 1] + g[k] /\ w[k] = w[k - 1] + h[k]
        /\ u[k - 1] \in Int /\ v[k - 1] \in Int
    BY <1>1, <1>2, <1>3, <2>1 DEF Sums
  <2>3. w[k - 1] = u[k - 1] + v[k - 1]
    BY <1>5
  <2>4. h[k] = f[k] + g[k] /\ f[k] \in Int /\ g[k] \in Int
    OBVIOUS
  <2> QED BY <2>1, <2>2, <2>3, <2>4
<1>6. \A k \in 0..n : k \in G
  <2> HIDE DEF G
  <2> QED BY <1>4, <1>5, Climbing
<1> QED BY <1>1, <1>2, <1>3, <1>6

(* A list with one entry beside zeros sums to that entry.                  *)
LEMMA SumOfOne ==
    ASSUME NEW n \in Nat, NEW b \in 1..n, NEW x \in Int, NEW f \in [1..n -> Int],
           \A k \in 1..n : f[k] = IF k = b THEN x ELSE 0
    PROVE  SumOf(f) = x
<1>1. PICK u : Sums(f, n, u) /\ SumOf(f) = u[n]
  BY SumInSteps
<1> DEFINE G == {k \in 0..n : u[k] = IF k < b THEN 0 ELSE x}
<1>2. 0 \in G
  BY <1>1 DEF Sums
<1>3. ASSUME NEW k \in 1..n, k - 1 \in G PROVE k \in G
  <2>1. k - 1 \in 0..n /\ k \in 0..n
    OBVIOUS
  <2>2. u[k] = u[k - 1] + f[k]
    BY <1>1 DEF Sums
  <2>3. u[k - 1] = IF k - 1 < b THEN 0 ELSE x
    BY <1>3
  <2> QED BY <2>1, <2>2, <2>3
<1>4. \A k \in 0..n : k \in G
  <2> HIDE DEF G
  <2> QED BY <1>2, <1>3, Climbing
<1> QED BY <1>1, <1>4

(* Entry by entry no more sums to no more.                                 *)
LEMMA SumGrows ==
    ASSUME NEW n \in Nat, NEW f \in [1..n -> Int], NEW g \in [1..n -> Int],
           \A k \in 1..n : f[k] <= g[k]
    PROVE  SumOf(f) <= SumOf(g)
<1>1. PICK u : Sums(f, n, u) /\ SumOf(f) = u[n]
  BY SumInSteps
<1>2. PICK v : Sums(g, n, v) /\ SumOf(g) = v[n]
  BY SumInSteps
<1> DEFINE G == {k \in 0..n : u[k] <= v[k]}
<1>3. 0 \in G
  BY <1>1, <1>2 DEF Sums
<1>4. ASSUME NEW k \in 1..n, k - 1 \in G PROVE k \in G
  <2>1. k - 1 \in 0..n /\ k \in 0..n
    OBVIOUS
  <2>2. /\ u[k] = u[k - 1] + f[k] /\ v[k] = v[k - 1] + g[k]
        /\ u[k - 1] \in Int /\ v[k - 1] \in Int
    BY <1>1, <1>2, <2>1 DEF Sums
  <2>3. u[k - 1] <= v[k - 1]
    BY <1>4
  <2>4. f[k] <= g[k] /\ f[k] \in Int /\ g[k] \in Int
    OBVIOUS
  <2> QED BY <2>1, <2>2, <2>3, <2>4
<1>5. \A k \in 0..n : k \in G
  <2> HIDE DEF G
  <2> QED BY <1>3, <1>4, Climbing
<1> QED BY <1>1, <1>2, <1>5

(* A list of one number sums to as many times that number.                 *)
LEMMA SumOfSame ==
    ASSUME NEW n \in Nat, NEW x \in Int
    PROVE  SumOf([k \in 1..n |-> x]) = n * x
<1> DEFINE f == [k \in 1..n |-> x]
<1>1. PICK u : Sums(f, n, u) /\ SumOf(f) = u[n]
  BY SumInSteps
<1> DEFINE G == {k \in 0..n : u[k] = k * x}
<1>2. 0 \in G
  BY <1>1 DEF Sums
<1>3. ASSUME NEW k \in 1..n, k - 1 \in G PROVE k \in G
  <2>1. k - 1 \in 0..n /\ k \in 0..n
    OBVIOUS
  <2>2. u[k] = u[k - 1] + x
    BY <1>1 DEF Sums
  <2>3. u[k - 1] = (k - 1) * x
    BY <1>3
  <2>4. (k - 1) * x + x = k * x
    OBVIOUS
  <2> QED BY <2>1, <2>2, <2>3, <2>4
<1>4. \A k \in 0..n : k \in G
  <2> HIDE DEF G
  <2> QED BY <1>2, <1>3, Climbing
<1> QED BY <1>1, <1>4

-----------------------------------------------------------------------------
(* The scheduler.  Some live bucket has the highest credit.                *)
LEMMA BestIsLive ==
    ASSUME NEW n \in Nat, NEW balance \in [1..n -> Int], NEW live \in SUBSET (1..n), live # {}
    PROVE  /\ BestBucket(balance, live) \in live
           /\ \A c \in live : balance[BestBucket(balance, live)] >= balance[c]
<1> DEFINE Leads(b, m) == b \in live \cap (1..m) /\ \A c \in live \cap (1..m) : balance[b] >= balance[c]
           G == {m \in 0..n : live \cap (1..m) = {} \/ \E b : Leads(b, m)}
<1>1. 0 \in G
  OBVIOUS
<1>2. ASSUME NEW m \in 1..n, m - 1 \in G PROVE m \in G
  <2>1. m \in 0..n /\ (1..m) = (1..m - 1) \cup {m} /\ m \notin 1..m - 1
    OBVIOUS
  <2>2. CASE m \notin live
    <3>1. live \cap (1..m) = live \cap (1..m - 1)
      BY <2>1, <2>2
    <3> QED BY <1>2, <2>1, <3>1
  <2>3. CASE m \in live /\ live \cap (1..m - 1) = {}
    <3>1. Leads(m, m)
      BY <2>1, <2>3
    <3> QED BY <2>1, <3>1
  <2>4. CASE m \in live /\ \E b : Leads(b, m - 1)
    <3>1. PICK b : Leads(b, m - 1)
      BY <2>4
    <3>2. balance[b] \in Int /\ balance[m] \in Int /\ \A c \in live : balance[c] \in Int
      BY <3>1
    <3>3. CASE balance[b] >= balance[m]
      <4>1. Leads(b, m)
        BY <2>1, <2>4, <3>1, <3>3
      <4> QED BY <2>1, <4>1
    <3>4. CASE ~(balance[b] >= balance[m])
      <4>1. Leads(m, m)
        BY <2>1, <2>4, <3>1, <3>2, <3>4
      <4> QED BY <2>1, <4>1
    <3> QED BY <3>3, <3>4
  <2> QED BY <1>2, <2>2, <2>3, <2>4
<1>3. n \in G
  <2> HIDE DEF G
  <2>1. n \in 0..n
    OBVIOUS
  <2> QED BY <1>1, <1>2, <2>1, Climbing
<1>4. live \cap (1..n) = live
  OBVIOUS
<1> DEFINE highest == {b \in live : \A c \in live : balance[b] >= balance[c]}
<1>5. highest # {} /\ highest \subseteq Nat
  BY <1>3, <1>4
<1>6. PICK first \in highest : \A c \in highest : ~(c < first)
  <2> HIDE DEF highest
  <2> QED BY <1>5, LeastNumber
<1>7. \A c \in highest : first <= c
  BY <1>5, <1>6
<1>8. Min(highest) \in highest
  <2> HIDE DEF highest
  <2> QED BY <1>6, <1>7 DEF Min
<1>9. BestBucket(balance, live) = Min(highest)
  BY DEF BestBucket
<1> QED BY <1>8, <1>9

(* A weight is at least 1.                                                 *)
LEMMA WeightIsPositive == \A value : ToWeight(value) \in Nat \ {0}
BY RotationAssumption DEF ToWeight

\* Buckets in a row, with what the walk keeps of each.
WalkTypes ==
    /\ order \in Seq(Range(order))
    /\ credit \in [DOMAIN order -> Int]
    /\ cursor \in [DOMAIN order -> Nat]
    /\ dealt \in Seq([bucket : DOMAIN order, nth : Nat])

\* Of no bucket gone dry the credit is what it is owed; together they are owed nothing.
CreditIsOwed ==
    NoneRanDry =>
        /\ SumOf(credit) = 0
        /\ \A b \in DOMAIN order :
            /\ credit[b] = Len(dealt) * Weights[b] - CountOf(b) * RoundWeight
            /\ -credit[b] < RoundWeight

LEMMA RoundsHaveSlots ==
    ASSUME WalkTypes
    PROVE  /\ Len(order) \in Nat /\ DOMAIN order = 1..Len(order)
           /\ Weights \in [1..Len(order) -> Nat \ {0}]
           /\ Weights \in [1..Len(order) -> Int]
           /\ RoundWeight = SumOf(Weights)
           /\ RoundWeight \in Int
           /\ order # << >> => RoundWeight > 0
           /\ order # << >> => 1 \in DOMAIN order
<1> DEFINE n == Len(order)
<1>1. n \in Nat /\ DOMAIN order = 1..n
  BY LenProperties DEF WalkTypes
<1>2. Weights \in [1..n -> Nat \ {0}]
  BY <1>1, WeightIsPositive DEF Weights
<1>3. DOMAIN Weights = 1..n /\ DOMAIN Weights = DOMAIN order
  BY <1>1 DEF Weights
<1>4. [b \in DOMAIN Weights |-> IF b \in DOMAIN order THEN Weights[b] ELSE 0] = Weights
  BY <1>2, <1>3
<1>5. RoundWeight = SumOf(Weights)
  BY <1>4, Zenon DEF RoundWeight, LiveWeight
<1> HIDE DEF n
<1>6. Weights \in [1..n -> Int] /\ \A k \in 1..n : Weights[k] >= 1
  BY <1>2
<1>7. SumOf(Weights) \in Int
  BY <1>1, <1>6, SumIsANumber
<1>8. ASSUME order # << >> PROVE SumOf(Weights) > 0 /\ 1 \in DOMAIN order
  <2>1. 1 \in 1..n
    BY <1>1, <1>8, EmptySeq DEF WalkTypes, n
  <2> DEFINE one == [k \in 1..n |-> IF k = 1 THEN 1 ELSE 0]
  <2>2. one \in [1..n -> Int] /\ \A k \in 1..n : one[k] <= Weights[k]
    BY <1>6
  <2>3. SumOf(one) = 1
    <3>1. \A k \in 1..n : one[k] = IF k = 1 THEN 1 ELSE 0
      OBVIOUS
    <3> HIDE DEF one
    <3> QED BY <1>1, <2>1, <2>2, <3>1, SumOfOne
  <2>4. SumOf(one) <= SumOf(Weights)
    <3> HIDE DEF one
    <3> QED BY <1>1, <1>6, <2>2, SumGrows
  <2> QED BY <1>1, <1>7, <2>1, <2>3, <2>4
<1> QED BY <1>1, <1>2, <1>5, <1>6, <1>7, <1>8 DEF n

(* The invariant says what the property says.                              *)
LEMMA OwedIsInBounds ==
    ASSUME WalkTypes, CreditIsOwed
    PROVE  SharesAreKept
<1> SUFFICES ASSUME NoneRanDry, NEW b \in DOMAIN order
             PROVE  LET owed == Len(dealt) * Weights[b] - CountOf(b) * RoundWeight
                    IN  /\ -owed < RoundWeight
                        /\ owed <= (Len(order) - 1) * RoundWeight
                        /\ \A rounds \in 0..Len(dealt) :
                                Len(dealt) = rounds * RoundWeight => CountOf(b) = rounds * Weights[b]
  BY DEF SharesAreKept
<1> DEFINE n == Len(order)
           W == RoundWeight
<1>1. /\ n \in Nat /\ DOMAIN order = 1..n /\ b \in 1..n /\ order # << >>
      /\ W \in Int /\ W > 0 /\ Weights \in [1..n -> Nat \ {0}]
  BY RoundsHaveSlots, EmptySeq
<1>2. Len(dealt) \in Nat /\ \A c \in 1..n : CountOf(c) \in Nat
  <2>1. Len(dealt) \in Nat /\ DOMAIN dealt = 1..Len(dealt)
    BY LenProperties DEF WalkTypes
  <2>2. \A c : IsFiniteSet({k \in DOMAIN dealt : dealt[k].bucket = c})
    <3>1. IsFiniteSet(1..Len(dealt))
      <4>1. Len(dealt) \in Int /\ 1 \in Int
        BY <2>1
      <4> QED BY ONLY <4>1, FS_Interval
    <3> QED BY <2>1, <3>1, FS_Subset
  <2> QED BY <2>1, <2>2, FS_CardinalityType DEF CountOf
<1>3. /\ credit \in [1..n -> Int] /\ SumOf(credit) = 0
      /\ \A c \in 1..n : /\ credit[c] = Len(dealt) * Weights[c] - CountOf(c) * W
                          /\ -credit[c] < W
  BY <1>1 DEF WalkTypes, CreditIsOwed
<1> HIDE DEF n, W
<1>4. credit[b] <= (n - 1) * W
  <2> DEFINE same == [k \in 1..n |-> -W]
             one == [k \in 1..n |-> IF k = b THEN credit[b] + W ELSE 0]
             low == [k \in 1..n |-> IF k = b THEN credit[b] ELSE -W]
  <2>1. /\ same \in [1..n -> Int] /\ one \in [1..n -> Int] /\ low \in [1..n -> Int]
        /\ \A k \in 1..n : low[k] = same[k] + one[k] /\ low[k] <= credit[k]
        /\ \A k \in 1..n : one[k] = IF k = b THEN credit[b] + W ELSE 0
        /\ credit[b] \in Int /\ credit[b] + W \in Int /\ -W \in Int
    <3>1. credit[b] \in Int /\ credit[b] + W \in Int /\ -W \in Int /\ \A k \in 1..n : credit[k] \in Int
      BY <1>1, <1>3, SMTT(20)
    <3>2. same \in [1..n -> Int] /\ one \in [1..n -> Int] /\ low \in [1..n -> Int]
      BY <3>1
    <3>3. ASSUME NEW k \in 1..n PROVE low[k] = same[k] + one[k]
      <4>1. CASE k = b
        <5>1. low[k] = credit[b] /\ same[k] = -W /\ one[k] = credit[b] + W
          BY <4>1
        <5>2. \A x, y \in Int : x = -y + (x + y)
          OBVIOUS
        <5> QED BY <1>1, <3>1, <5>1, <5>2
      <4>2. CASE k # b
        BY <1>1, <3>1, <4>2
      <4> QED BY <4>1, <4>2
    <3>4. \A k \in 1..n : low[k] <= credit[k]
      <4>1. ASSUME NEW k \in 1..n PROVE -W <= credit[k]
        <5>1. credit[k] \in Int /\ -credit[k] < W
          BY <1>3, <3>1
        <5>2. \A x, y \in Int : -x < y => -y <= x
          OBVIOUS
        <5> QED BY <1>1, <5>1, <5>2
      <4> QED BY <3>1, <4>1
    <3> QED BY <3>1, <3>2, <3>3, <3>4
  <2>2. SumOf(same) = n * (-W)
    BY <1>1, <2>1, SumOfSame
  <2> HIDE DEF same, one, low
  <2>3. SumOf(low) <= 0
    BY <1>1, <1>3, <2>1, SumGrows
  <2>4. SumOf(one) = credit[b] + W
    <3> DEFINE x == credit[b] + W
    <3>1. x \in Int /\ \A k \in 1..n : one[k] = IF k = b THEN x ELSE 0
      BY <2>1
    <3> HIDE DEF x
    <3>2. SumOf(one) = x
      BY <1>1, <2>1, <3>1, SumOfOne, ZenonT(40)
    <3> QED BY <3>2 DEF x
  <2>5. SumOf(low) = SumOf(same) + SumOf(one)
    BY <1>1, <2>1, SumAdds, ZenonT(40)
  <2> DEFINE nW == n * W
  <2>6. n * (-W) = -nW /\ (n - 1) * W = nW - W /\ nW \in Int
    BY <1>1
  <2> HIDE DEF nW
  <2>7. -nW + (credit[b] + W) <= 0
    BY <2>2, <2>3, <2>4, <2>5, <2>6
  <2>8. credit[b] <= nW - W
    <3>1. \A x, y, z \in Int : -x + (y + z) <= 0 => y <= x - z
      OBVIOUS
    <3> QED BY <1>1, <2>1, <2>6, <2>7, <3>1
  <2> QED BY <2>6, <2>8
<1>5. ASSUME NEW rounds \in 0..Len(dealt), Len(dealt) = rounds * W
      PROVE  CountOf(b) = rounds * Weights[b]
  <2> DEFINE short(c) == rounds * Weights[c] - CountOf(c)
  <2>1. \A c \in 1..n : Weights[c] \in Int /\ CountOf(c) \in Int /\ rounds \in Int /\ short(c) \in Int
    BY <1>1, <1>2
  <2>2. \A c \in 1..n : credit[c] = short(c) * W
    <3> SUFFICES ASSUME NEW c \in 1..n PROVE credit[c] = short(c) * W
      OBVIOUS
    <3>1. credit[c] = (rounds * W) * Weights[c] - CountOf(c) * W
      BY <1>3, <1>5
    <3>2. (rounds * W) * Weights[c] = (rounds * Weights[c]) * W
      BY <1>1, <2>1
    <3>3. \A x, y, z \in Int : (x - y) * z = x * z - y * z
      OBVIOUS
    <3>4. rounds * Weights[c] \in Int
      BY <2>1
    <3> QED BY <1>1, <2>1, <3>1, <3>2, <3>3, <3>4
  <2> HIDE DEF short
  <2>3. \A c \in 1..n : credit[c] >= 0
    <3> SUFFICES ASSUME NEW c \in 1..n PROVE credit[c] >= 0
      OBVIOUS
    <3>1. \A x \in Int : -(x * W) < W => x >= 0
      <4> SUFFICES ASSUME NEW x \in Int, x <= -1 PROVE -(x * W) >= W
        BY <1>1
      <4>1. PICK y \in Nat : x = -1 - y
        <5>1. -1 - x \in Nat /\ x = -1 - (-1 - x)
          OBVIOUS
        <5> QED BY <5>1
      <4>2. -(x * W) = W + y * W
        BY <1>1, <4>1
      <4>3. y * W >= 0
        BY <1>1
      <4> QED BY <1>1, <4>2, <4>3
    <3>2. short(c) >= 0
      BY <1>3, <2>1, <2>2, <3>1
    <3>3. \A x \in Int : x >= 0 => x * W >= 0
      BY <1>1
    <3> QED BY <2>1, <2>2, <3>2, <3>3
  <2>4. credit[b] = 0
    <3> DEFINE one == [k \in 1..n |-> IF k = b THEN credit[b] ELSE 0]
    <3>1. /\ one \in [1..n -> Int] /\ credit[b] \in Int
          /\ \A k \in 1..n : one[k] <= credit[k]
          /\ \A k \in 1..n : one[k] = IF k = b THEN credit[b] ELSE 0
      BY <1>1, <1>3, <2>3
    <3> HIDE DEF one
    <3>2. SumOf(one) = credit[b]
      <4> DEFINE x == credit[b]
      <4>1. x \in Int /\ \A k \in 1..n : one[k] = IF k = b THEN x ELSE 0
        BY <3>1
      <4> HIDE DEF x
      <4>2. SumOf(one) = x
        BY <1>1, <3>1, <4>1, SumOfOne, ZenonT(40)
      <4> QED BY <4>2 DEF x
    <3>3. SumOf(one) <= 0
      BY <1>1, <1>3, <3>1, SumGrows
    <3> QED BY <1>1, <2>3, <3>1, <3>2, <3>3
  <2>5. short(b) = 0
    <3>1. \A x \in Int : x * W = 0 => x = 0
      BY <1>1
    <3> QED BY <1>1, <2>1, <2>2, <2>4, <3>1
  <2>6. rounds * Weights[b] \in Int /\ rounds * Weights[b] - CountOf(b) = 0
    BY <1>1, <2>1, <2>5, SMTT(20) DEF short
  <2> QED BY <1>1, <2>1, <2>6, SMTT(20)
<1>6. -credit[b] < W /\ credit[b] = Len(dealt) * Weights[b] - CountOf(b) * W
  BY <1>1, <1>3
<1> QED BY <1>4, <1>5, <1>6 DEF n, W

(* A slot counts for its bucket.                                           *)
LEMMA SlotCounts ==
    ASSUME NEW slots \in Seq([bucket : DOMAIN order, nth : Nat]),
           NEW best \in DOMAIN order, NEW k \in Nat, NEW b \in DOMAIN order
    PROVE  LET more == Append(slots, [bucket |-> best, nth |-> k])
               Of(list) == {n \in DOMAIN list : list[n].bucket = b}
           IN  /\ Cardinality(Of(slots)) \in Nat
               /\ Cardinality(Of(more)) = Cardinality(Of(slots)) + IF b = best THEN 1 ELSE 0
<1> DEFINE Slot == [bucket : DOMAIN order, nth : Nat]
           new == [bucket |-> best, nth |-> k]
           more == Append(slots, new)
           Of(list) == {n \in DOMAIN list : list[n].bucket = b}
<1>1. new \in Slot /\ slots \in Seq(Slot) /\ new.bucket = best
  OBVIOUS
<1> HIDE DEF new, Slot
<1>2. /\ Len(slots) \in Nat /\ DOMAIN slots = 1..Len(slots)
      /\ Len(more) = Len(slots) + 1 /\ DOMAIN more = 1..Len(slots) + 1
      /\ \A n \in 1..Len(slots) : more[n] = slots[n]
      /\ more[Len(slots) + 1] = new
  <2>1. more \in Seq(Slot)
    BY <1>1, AppendProperties
  <2> QED BY <1>1, <2>1, AppendProperties, LenProperties
<1>3. Of(more) = IF b = best THEN Of(slots) \cup {Len(slots) + 1} ELSE Of(slots)
  BY <1>1, <1>2
<1>4. Len(slots) + 1 \notin Of(slots)
  BY <1>2
<1>5. IsFiniteSet(Of(slots))
  <2>1. IsFiniteSet(1..Len(slots))
    <3>1. Len(slots) \in Int /\ 1 \in Int
      BY <1>2
    <3> QED BY ONLY <3>1, FS_Interval
  <2>2. Of(slots) \subseteq 1..Len(slots)
    BY <1>2
  <2> HIDE DEF Of
  <2> QED BY <2>1, <2>2, FS_Subset
<1> HIDE DEF Of, more
<1>6. Cardinality(Of(slots)) \in Nat
  BY <1>5, FS_CardinalityType
<1>7. Cardinality(Of(more)) = Cardinality(Of(slots)) + IF b = best THEN 1 ELSE 0
  <2>1. CASE b = best
    BY <1>3, <1>4, <1>5, <2>1, FS_AddElement
  <2>2. CASE b # best
    BY <1>3, <1>6, <2>2
  <2> QED BY <2>1, <2>2
<1> QED BY <1>6, <1>7 DEF Of, more, new

(* A slot goes to a live bucket.                                           *)
LEMMA SlotGoesToTheLive ==
    ASSUME WalkTypes, SlotDealt
    PROVE  /\ Credited(credit, Weights, LiveNow) \in [DOMAIN order -> Int]
           /\ LiveNow \subseteq DOMAIN order
           /\ BestBucket(Credited(credit, Weights, LiveNow), LiveNow) \in LiveNow
           /\ \A c \in LiveNow :
                 Credited(credit, Weights, LiveNow)[BestBucket(Credited(credit, Weights, LiveNow), LiveNow)]
                    >= Credited(credit, Weights, LiveNow)[c]
<1> DEFINE credited == Credited(credit, Weights, LiveNow)
<1>1. /\ Len(order) \in Nat /\ DOMAIN order = 1..Len(order)
      /\ Weights \in [DOMAIN order -> Int]
  BY RoundsHaveSlots
<1>2. LiveNow \subseteq DOMAIN order /\ LiveNow # {}
  BY DEF SlotDealt, LiveNow, LiveBuckets, Sizes
<1>3. credited \in [DOMAIN order -> Int]
  <2>1. credit \in [DOMAIN order -> Int]
    BY DEF WalkTypes
  <2> HIDE DEF LiveNow
  <2> QED BY <1>1, <2>1 DEF Credited
<1> HIDE DEF credited
<1>4. LiveNow \in SUBSET (1..Len(order)) /\ credited \in [1..Len(order) -> Int]
  BY <1>1, <1>2, <1>3
<1> QED BY <1>1, <1>2, <1>3, <1>4, BestIsLive DEF credited

LEMMA SlotTypes ==
    ASSUME WalkTypes, SlotDealt
    PROVE  WalkTypes'
<1> DEFINE credited == Credited(credit, Weights, LiveNow)
           best == BestBucket(credited, LiveNow)
           new == [bucket |-> best, nth |-> cursor'[best]]
<1>1. /\ credit' = Charged(credited, Weights, LiveNow)
      /\ cursor' = [cursor EXCEPT ![best] = @ + 1]
      /\ dealt' = Append(dealt, new)
      /\ order' = order
  BY DEF SlotDealt
<1>2. credited \in [DOMAIN order -> Int] /\ best \in DOMAIN order
  BY SlotGoesToTheLive
<1>3. Charged(credited, Weights, LiveNow)
        = [credited EXCEPT ![best] = @ - LiveWeight(Weights, LiveNow)]
  BY DEF Charged
<1>4. LiveWeight(Weights, LiveNow) \in Int
  <2> DEFINE n == Len(order)
             f == [b \in DOMAIN Weights |-> IF b \in LiveNow THEN Weights[b] ELSE 0]
  <2>1. n \in Nat /\ Weights \in [1..n -> Int]
    BY RoundsHaveSlots
  <2>2. f \in [1..n -> Int]
    <3>1. DOMAIN Weights = 1..n
      BY <2>1
    <3> HIDE DEF n
    <3> QED BY <2>1, <3>1
  <2>3. LiveWeight(Weights, LiveNow) = SumOf(f)
    BY DEF LiveWeight
  <2> HIDE DEF f, n
  <2> QED BY <2>1, <2>2, <2>3, SumIsANumber
<1> HIDE DEF credited, best
<1>5. credit' \in [DOMAIN order' -> Int]
  BY <1>1, <1>2, <1>3, <1>4
<1>6. cursor' \in [DOMAIN order' -> Nat] /\ new \in [bucket : DOMAIN order', nth : Nat]
  BY <1>1, <1>2 DEF WalkTypes
<1> HIDE DEF new
<1>7. dealt' \in Seq([bucket : DOMAIN order', nth : Nat])
  BY <1>1, <1>6, AppendProperties DEF WalkTypes
<1> QED BY <1>1, <1>5, <1>6, <1>7 DEF WalkTypes

(* A round is credited once, and the winner of it had something to pay.    *)
LEMMA SlotKeepsCredit ==
    ASSUME WalkTypes, CreditIsOwed, SlotDealt
    PROVE  CreditIsOwed'
<1> SUFFICES ASSUME NoneRanDry'
             PROVE  /\ SumOf(credit') = 0
                    /\ \A b \in DOMAIN order :
                        /\ credit'[b] = Len(dealt') * Weights[b] - CountOf(b)' * RoundWeight
                        /\ -credit'[b] < RoundWeight
  <2>1. order' = order
    BY DEF SlotDealt
  <2>2. Weights' = Weights
    BY <2>1 DEF Weights
  <2>3. RoundWeight' = RoundWeight
    BY <2>1, <2>2 DEF RoundWeight
  <2> QED BY <2>1, <2>2, <2>3 DEF CreditIsOwed
<1> DEFINE credited == Credited(credit, Weights, LiveNow)
           best == BestBucket(credited, LiveNow)
           new == [bucket |-> best, nth |-> cursor'[best]]
           n == Len(order)
           W == RoundWeight
           L == Len(dealt)
<1>1. /\ credit' = Charged(credited, Weights, LiveNow)
      /\ cursor' = [cursor EXCEPT ![best] = @ + 1]
      /\ dealt' = Append(dealt, new)
      /\ order' = order
  BY DEF SlotDealt
<1>2. /\ credited \in [DOMAIN order -> Int] /\ best \in LiveNow /\ LiveNow \subseteq DOMAIN order
      /\ \A c \in LiveNow : credited[best] >= credited[c]
  BY SlotGoesToTheLive
<1> HIDE DEF credited, best
<1>3. /\ n \in Nat /\ DOMAIN order = 1..n /\ order # << >>
      /\ Weights \in [1..n -> Int] /\ \A b \in 1..n : Weights[b] >= 1
      /\ W = SumOf(Weights) /\ W \in Int /\ W > 0
  <2>1. order # << >>
    BY <1>2
  <2>2. /\ n \in Nat /\ DOMAIN order = 1..n /\ Weights \in [1..n -> Nat \ {0}]
        /\ Weights \in [1..n -> Int] /\ W = SumOf(Weights) /\ W \in Int /\ W > 0
    BY <2>1, RoundsHaveSlots
  <2> QED BY <2>1, <2>2
<1>4. /\ new \in [bucket : DOMAIN order, nth : Nat] /\ new.bucket = best
      /\ cursor'[best] \in Nat
  BY <1>1, <1>2 DEF WalkTypes
<1>5. L \in Nat /\ Len(dealt') = L + 1 /\ dealt'[L + 1] = new /\ dealt' # << >>
  <2> HIDE DEF new
  <2>1. dealt \in Seq([bucket : DOMAIN order, nth : Nat])
    BY DEF WalkTypes
  <2>2. /\ Len(dealt) \in Nat /\ Len(dealt') = Len(dealt) + 1 /\ dealt'[Len(dealt) + 1] = new
        /\ dealt' \in Seq([bucket : DOMAIN order, nth : Nat])
    BY <1>1, <1>4, <2>1, AppendProperties
  <2> QED BY <2>2, EmptySeq
<1>6. LiveNow = DOMAIN order
  <2>1. DOMAIN order = LiveNow' \cup {best}
    BY <1>1, <1>4, <1>5 DEF NoneRanDry
  <2>2. ASSUME NEW b \in DOMAIN order, b # best, b \in LiveNow' PROVE b \in LiveNow
    <3>1. b \in DOMAIN Sizes' /\ cursor'[b] < Sizes'[b]
      BY <2>2 DEF LiveNow, LiveBuckets
    <3>2. Sizes' = Sizes /\ cursor'[b] = cursor[b]
      BY <1>1, <2>2 DEF Sizes, WalkTypes
    <3> QED BY <3>1, <3>2 DEF LiveNow, LiveBuckets
  <2> QED BY <1>2, <2>1, <2>2
<1>7. NoneRanDry
  <2>1. ASSUME dealt # << >> PROVE dealt[Len(dealt)].bucket \in DOMAIN order
    <3>1. Len(dealt) \in 1..Len(dealt)
      BY <1>5, <2>1, EmptySeq DEF WalkTypes
    <3>2. dealt[Len(dealt)] \in [bucket : DOMAIN order, nth : Nat]
      BY <3>1, ElementOfSeq DEF WalkTypes
    <3> QED BY <3>2
  <2> QED BY <1>6, <2>1 DEF NoneRanDry
<1>8. /\ credit \in [1..n -> Int] /\ SumOf(credit) = 0
      /\ \A b \in 1..n : /\ credit[b] = L * Weights[b] - CountOf(b) * W
                          /\ -credit[b] < W
  BY <1>3, <1>7 DEF CreditIsOwed, WalkTypes
<1>9. /\ credited \in [1..n -> Int]
      /\ \A b \in 1..n : credited[b] = credit[b] + Weights[b]
      /\ best \in 1..n /\ \A c \in 1..n : credited[best] >= credited[c]
  <2>1. DOMAIN credit = 1..n
    BY <1>8
  <2> QED BY <1>2, <1>3, <1>6, <2>1 DEF credited, Credited
<1>10. credit' = [credited EXCEPT ![best] = @ - W]
  BY <1>1, <1>6 DEF Charged, best, RoundWeight
<1> HIDE DEF n, W, L, new
<1>11. SumOf(credited) = W
  <2>1. SumOf(credited) = SumOf(credit) + SumOf(Weights)
    BY <1>3, <1>8, <1>9, SumAdds
  <2> QED BY <1>3, <1>8, <2>1
<1>12. credited[best] > 0
  <2> SUFFICES ASSUME ~(credited[best] > 0) PROVE FALSE
    OBVIOUS
  <2> DEFINE none == [k \in 1..n |-> 0]
  <2>1. none \in [1..n -> Int] /\ \A k \in 1..n : credited[k] <= none[k]
    BY <1>9
  <2>2. SumOf(none) = n * 0
    <3>1. \A m \in Nat, x \in Int : SumOf([k \in 1..m |-> x]) = m * x
      BY SumOfSame
    <3>2. n \in Nat /\ 0 \in Int
      BY <1>3
    <3> QED BY <3>1, <3>2, Zenon
  <2>3. n * 0 = 0
    BY <1>3
  <2> HIDE DEF none
  <2>4. SumOf(credited) <= SumOf(none)
    BY <1>3, <1>9, <2>1, SumGrows
  <2> QED BY <1>3, <1>11, <2>2, <2>3, <2>4
<1>13. SumOf(credit') = 0
  <2> DEFINE fee == [k \in 1..n |-> IF k = best THEN -W ELSE 0]
  <2>1. fee \in [1..n -> Int] /\ \A k \in 1..n : fee[k] = IF k = best THEN -W ELSE 0
    BY <1>3
  <2>2. SumOf(fee) = -W
    <3> DEFINE x == -W
    <3>1. x \in Int /\ \A k \in 1..n : fee[k] = IF k = best THEN x ELSE 0
      BY <1>3, <2>1
    <3> HIDE DEF x, fee
    <3>2. SumOf(fee) = x
      BY <1>3, <1>9, <2>1, <3>1, SumOfOne
    <3> QED BY <3>2 DEF x
  <2>3. credit' \in [1..n -> Int] /\ \A k \in 1..n : credit'[k] = credited[k] + fee[k]
    <3> SUFFICES ASSUME NEW k \in 1..n PROVE credit'[k] = credited[k] + fee[k] /\ credit'[k] \in Int
      BY <1>9, <1>10
    <3>1. credited[k] \in Int
      BY <1>9
    <3>2. CASE k = best
      <4>1. credit'[k] = credited[k] - W /\ fee[k] = -W
        BY <1>9, <1>10, <3>2
      <4>2. \A x, y \in Int : x - y = x + (-y) /\ x - y \in Int
        OBVIOUS
      <4> QED BY <1>3, <3>1, <4>1, <4>2
    <3>3. CASE k # best
      <4>1. credit'[k] = credited[k] /\ fee[k] = 0
        BY <1>9, <1>10, <3>3
      <4> QED BY <3>1, <4>1
    <3> QED BY <3>2, <3>3
  <2> HIDE DEF fee
  <2>4. SumOf(credit') = SumOf(credited) + SumOf(fee)
    BY <1>3, <1>9, <2>1, <2>3, SumAdds
  <2> QED BY <1>3, <1>11, <2>2, <2>4
<1>14. ASSUME NEW b \in 1..n
       PROVE  /\ credit'[b] = Len(dealt') * Weights[b] - CountOf(b)' * W
              /\ -credit'[b] < W
  <2>1. CountOf(b) \in Nat /\ CountOf(b)' = CountOf(b) + IF b = best THEN 1 ELSE 0
    <3>1. best \in DOMAIN order /\ b \in DOMAIN order
      BY <1>2, <1>3
    <3>2. dealt \in Seq([bucket : DOMAIN order, nth : Nat])
      BY DEF WalkTypes
    <3> DEFINE Of(list) == {k \in DOMAIN list : list[k].bucket = b}
               nth == cursor'[best]
               slot == [bucket |-> best, nth |-> nth]
    <3> HIDE DEF nth
    <3>3. /\ Cardinality(Of(dealt)) \in Nat
          /\ Cardinality(Of(Append(dealt, slot))) = Cardinality(Of(dealt)) + IF b = best THEN 1 ELSE 0
      <4>1. nth \in Nat
        BY <1>4 DEF nth
      <4> QED BY <3>1, <3>2, <4>1, SlotCounts, ZenonT(40)
    <3>4. dealt' = Append(dealt, slot)
      BY <1>1 DEF new, nth
    <3>5. CountOf(b) = Cardinality(Of(dealt)) /\ CountOf(b)' = Cardinality(Of(dealt'))
      BY DEF CountOf
    <3> HIDE DEF Of, slot
    <3> QED BY <3>3, <3>4, <3>5
  <2> DEFINE lw == L * Weights[b]
             cW == CountOf(b) * W
  <2>2. /\ Weights[b] \in Int /\ Weights[b] >= 1 /\ lw \in Int /\ cW \in Int /\ credit[b] \in Int
        /\ credit[b] = lw - cW /\ -credit[b] < W
    <3>1. Weights[b] \in Int /\ Weights[b] >= 1 /\ credit[b] \in Int
      BY <1>3, <1>8
    <3>2. lw \in Int /\ cW \in Int
      BY <1>3, <1>5, <2>1, <3>1
    <3>3. credit[b] = lw - cW /\ -credit[b] < W
      BY <1>8
    <3> QED BY <3>1, <3>2, <3>3
  <2>3. Len(dealt') * Weights[b] = lw + Weights[b]
    BY <1>3, <1>5
  <2>4. CASE b = best
    <3>1. credit'[b] = credited[b] - W /\ credited[b] = credit[b] + Weights[b]
      BY <1>9, <1>10, <2>4
    <3>2. CountOf(b)' * W = cW + W
      BY <1>3, <2>1, <2>4
    <3>3. credited[b] > 0
      BY <1>12, <2>4
    <3> HIDE DEF lw, cW
    <3> QED BY <1>3, <2>2, <2>3, <3>1, <3>2, <3>3, SMTT(20)
  <2>5. CASE b # best
    <3>1. credit'[b] = credit[b] + Weights[b]
      BY <1>9, <1>10, <2>5
    <3>2. CountOf(b)' * W = cW
      BY <2>1, <2>5
    <3> HIDE DEF lw, cW
    <3> QED BY <1>3, <2>2, <2>3, <3>1, <3>2, SMTT(20)
  <2> QED BY <2>4, <2>5
<1> QED BY <1>3, <1>13, <1>14 DEF W

-----------------------------------------------------------------------------
(* Order.  What is in a list is in another one, in its order.              *)
InOrderOf(part, list) ==
    /\ \A i \in DOMAIN part : \E p \in DOMAIN list : list[p] = part[i]
    /\ \A i, j \in DOMAIN part : i < j =>
            \E p, q \in DOMAIN list : p < q /\ list[p] = part[i] /\ list[q] = part[j]

\* Items without the member each one is for.
ItemsOf(tagged) == [n \in DOMAIN tagged |-> tagged[n].item]

\* What a filter leaves, and where each of it was.
Leaves(part, list, from, A) ==
    /\ from \in [DOMAIN part -> DOMAIN list]
    /\ \A i \in DOMAIN part : part[i] = list[from[i]] /\ part[i] \in A
    /\ \A i, j \in DOMAIN part : i < j => from[i] < from[j]

LEMMA OnlyLeaves ==
    ASSUME NEW S, NEW s \in Seq(S), NEW A
    PROVE  Only(s, A) \in Seq(S) /\ \E from : Leaves(Only(s, A), s, from, A)
<1> DEFINE places == {n \in DOMAIN s : s[n] \in A}
           part == Picked(s, places)
<1>1. Only(s, A) = part
  BY DEF Only
<1>2. part \in Seq(S) /\ \E from : PicksBy(part, s, places, Len(s), from)
  <2> HIDE DEF places
  <2> QED BY PickedPicks
<1>3. PICK from : PicksBy(part, s, places, Len(s), from)
  BY <1>2
<1>4. places \cap (1..Len(s)) \subseteq DOMAIN s /\ \A n \in places : s[n] \in A
  BY LenProperties
<1> HIDE DEF places, part
<1>5. DOMAIN part = 1..Len(part)
  BY <1>2, LenProperties
<1>6. Leaves(part, s, from, A)
  BY <1>3, <1>4, <1>5 DEF PicksBy, Leaves
<1> QED BY <1>1, <1>2, <1>6

LEMMA LeftInOrder == \A part, list, from, A : Leaves(part, list, from, A) => InOrderOf(part, list)
<1> SUFFICES ASSUME NEW part, NEW list, NEW from, NEW A, Leaves(part, list, from, A)
             PROVE  InOrderOf(part, list)
  OBVIOUS
<1>1. \A i \in DOMAIN part : from[i] \in DOMAIN list /\ part[i] = list[from[i]]
  BY DEF Leaves
<1>2. \A i, j \in DOMAIN part : i < j => from[i] < from[j]
  BY DEF Leaves
<1> QED BY <1>1, <1>2 DEF InOrderOf

LEMMA OnlyInOrder ==
    ASSUME NEW S, NEW s \in Seq(S), NEW A
    PROVE  InOrderOf(Only(s, A), s)
BY OnlyLeaves, LeftInOrder

LEMMA SameInOrder == \A list : InOrderOf(list, list)
BY DEF InOrderOf

LEMMA PartOfPart ==
    \A part, more, list : InOrderOf(part, more) /\ InOrderOf(more, list) => InOrderOf(part, list)
<1> SUFFICES ASSUME NEW part, NEW more, NEW list, InOrderOf(part, more), InOrderOf(more, list)
             PROVE  InOrderOf(part, list)
  OBVIOUS
<1>1. ASSUME NEW i \in DOMAIN part PROVE \E p \in DOMAIN list : list[p] = part[i]
  <2>1. PICK p \in DOMAIN more : more[p] = part[i]
    BY DEF InOrderOf
  <2>2. \E q \in DOMAIN list : list[q] = more[p]
    BY DEF InOrderOf
  <2> QED BY <2>1, <2>2
<1>2. ASSUME NEW i \in DOMAIN part, NEW j \in DOMAIN part, i < j
      PROVE  \E p, q \in DOMAIN list : p < q /\ list[p] = part[i] /\ list[q] = part[j]
  <2>1. PICK p \in DOMAIN more, q \in DOMAIN more : p < q /\ more[p] = part[i] /\ more[q] = part[j]
    BY <1>2 DEF InOrderOf
  <2>2. \E r, t \in DOMAIN list : r < t /\ list[r] = more[p] /\ list[t] = more[q]
    BY <2>1 DEF InOrderOf
  <2> QED BY <2>1, <2>2
<1> QED BY <1>1, <1>2 DEF InOrderOf

\* How a list begins.
IsBeginning(part, list) ==
    \E m \in Nat : DOMAIN part = 1..m /\ 1..m \subseteq DOMAIN list /\ \A i \in 1..m : part[i] = list[i]

LEMMA BeginsInOrder ==
    ASSUME NEW part, NEW list, IsBeginning(part, list)
    PROVE  InOrderOf(ItemsOf(part), ItemsOf(list))
<1>1. PICK m \in Nat : DOMAIN part = 1..m /\ 1..m \subseteq DOMAIN list /\ \A i \in 1..m : part[i] = list[i]
  BY DEF IsBeginning
<1>2. /\ DOMAIN ItemsOf(part) = 1..m /\ 1..m \subseteq DOMAIN ItemsOf(list)
      /\ \A i \in 1..m : ItemsOf(part)[i] = ItemsOf(list)[i]
  BY <1>1 DEF ItemsOf
<1> QED BY <1>2 DEF InOrderOf

\* What has each of a list once and in order has nothing twice.
LEMMA OnceEach ==
    ASSUME NEW S, NEW s \in Seq(S), NEW T, NEW t \in Seq(T), IsInjective(s), InOrderOf(t, s)
    PROVE  \A i, j \in DOMAIN t : t[i] = t[j] => i = j
<1> SUFFICES ASSUME NEW i \in DOMAIN t, NEW j \in DOMAIN t, t[i] = t[j], i # j PROVE FALSE
  OBVIOUS
<1>1. \A p, q \in DOMAIN s : s[p] = s[q] => p = q
  BY DEF IsInjective
<1>2. i \in Nat /\ j \in Nat /\ DOMAIN s \subseteq Nat
  BY LenProperties
<1>3. CASE i < j
  BY <1>1, <1>2, <1>3 DEF InOrderOf
<1>4. CASE j < i
  BY <1>1, <1>2, <1>4 DEF InOrderOf
<1> QED BY <1>2, <1>3, <1>4

(* Lists in the order of lists are, laid end to end, in the order of those. *)
LEMMA FlattenInOrder ==
    ASSUME NEW S, NEW T, NEW n \in Nat, NEW xs \in [1..n -> Seq(T)], NEW ys \in [1..n -> Seq(S)],
           \A k \in 1..n : InOrderOf(ItemsOf(xs[k]), ys[k])
    PROVE  InOrderOf(ItemsOf(FlattenSeq(xs)), FlattenSeq(ys))
<1> DEFINE X == FlattenSeq(xs)
           Y == FlattenSeq(ys)
<1>1. PICK row, col : Laid(X, xs, n, row, col)
  BY FlattenLays
<1>2. PICK r, c : Laid(Y, ys, n, r, c)
  BY FlattenLays
<1>3. X \in Seq(T) /\ Y \in Seq(S)
  BY FlattenLays
<1> HIDE DEF X, Y
<1>4. DOMAIN X \subseteq Nat /\ DOMAIN Y \subseteq Nat
  BY <1>3, LenProperties
<1>5. DOMAIN ItemsOf(X) = DOMAIN X /\ \A i \in DOMAIN X : ItemsOf(X)[i] = X[i].item
  BY DEF ItemsOf
<1>6. ASSUME NEW k \in 1..n
      PROVE  /\ DOMAIN ItemsOf(xs[k]) = DOMAIN xs[k]
             /\ \A p \in DOMAIN xs[k] : ItemsOf(xs[k])[p] = xs[k][p].item
             /\ DOMAIN ys[k] \subseteq Nat
  <2>1. ys[k] \in Seq(S)
    OBVIOUS
  <2> QED BY <2>1, LenProperties DEF ItemsOf
<1>7. ASSUME NEW k \in 1..n, NEW p \in DOMAIN ys[k]
      PROVE  \E i \in DOMAIN Y : r[i] = k /\ c[i] = p /\ Y[i] = ys[k][p]
  BY <1>2 DEF Laid
<1>8. ASSUME NEW i \in DOMAIN X
      PROVE  /\ row[i] \in 1..n /\ col[i] \in DOMAIN ItemsOf(xs[row[i]])
             /\ ItemsOf(X)[i] = ItemsOf(xs[row[i]])[col[i]]
  <2>1. row[i] \in 1..n /\ col[i] \in DOMAIN xs[row[i]] /\ X[i] = xs[row[i]][col[i]]
    BY <1>1 DEF Laid
  <2> QED BY <2>1, <1>5, <1>6
<1>9. ASSUME NEW i \in DOMAIN X PROVE \E a \in DOMAIN ys[row[i]] : ys[row[i]][a] = ItemsOf(X)[i]
  <2>1. /\ row[i] \in 1..n /\ col[i] \in DOMAIN ItemsOf(xs[row[i]])
        /\ ItemsOf(X)[i] = ItemsOf(xs[row[i]])[col[i]]
    BY <1>8
  <2>2. InOrderOf(ItemsOf(xs[row[i]]), ys[row[i]])
    BY <2>1
  <2>3. \E a \in DOMAIN ys[row[i]] : ys[row[i]][a] = ItemsOf(xs[row[i]])[col[i]]
    BY <2>1, <2>2 DEF InOrderOf
  <2> QED BY <2>1, <2>3
<1>10. ASSUME NEW i \in DOMAIN X PROVE \E a \in DOMAIN Y : Y[a] = ItemsOf(X)[i]
  <2>1. PICK p \in DOMAIN ys[row[i]] : ys[row[i]][p] = ItemsOf(X)[i]
    BY <1>9
  <2> QED BY <1>7, <1>8, <2>1
<1>11. ASSUME NEW i \in DOMAIN X, NEW j \in DOMAIN X, i < j
       PROVE  \E a, b \in DOMAIN Y : a < b /\ Y[a] = ItemsOf(X)[i] /\ Y[b] = ItemsOf(X)[j]
  <2>1. \E p \in DOMAIN ys[row[i]], q \in DOMAIN ys[row[j]] :
            /\ row[i] < row[j] \/ (row[i] = row[j] /\ p < q)
            /\ ys[row[i]][p] = ItemsOf(X)[i] /\ ys[row[j]][q] = ItemsOf(X)[j]
    <3>1. row[i] < row[j] \/ (row[i] = row[j] /\ col[i] < col[j])
      BY <1>1, <1>11 DEF Laid
    <3>2. CASE row[i] < row[j]
      BY <1>9, <3>2
    <3>3. CASE row[i] = row[j] /\ col[i] < col[j]
      <4>1. row[i] \in 1..n /\ InOrderOf(ItemsOf(xs[row[i]]), ys[row[i]])
        BY <1>8
      <4>2. /\ col[i] \in DOMAIN ItemsOf(xs[row[i]]) /\ col[j] \in DOMAIN ItemsOf(xs[row[i]])
            /\ ItemsOf(X)[i] = ItemsOf(xs[row[i]])[col[i]]
            /\ ItemsOf(X)[j] = ItemsOf(xs[row[i]])[col[j]]
        BY <1>8, <3>3
      <4>3. \E p, q \in DOMAIN ys[row[i]] :
                p < q /\ ys[row[i]][p] = ItemsOf(X)[i] /\ ys[row[i]][q] = ItemsOf(X)[j]
        BY <3>3, <4>1, <4>2 DEF InOrderOf
      <4> QED BY <3>3, <4>3
    <3> QED BY <3>1, <3>2, <3>3
  <2>2. PICK p \in DOMAIN ys[row[i]], q \in DOMAIN ys[row[j]] :
            /\ row[i] < row[j] \/ (row[i] = row[j] /\ p < q)
            /\ ys[row[i]][p] = ItemsOf(X)[i] /\ ys[row[j]][q] = ItemsOf(X)[j]
    BY <2>1
  <2>3. PICK a \in DOMAIN Y : r[a] = row[i] /\ c[a] = p /\ Y[a] = ItemsOf(X)[i]
    <3>1. row[i] \in 1..n
      BY <1>8
    <3>2. \E a \in DOMAIN Y : r[a] = row[i] /\ c[a] = p /\ Y[a] = ys[row[i]][p]
      BY <1>7, <3>1
    <3> QED BY <2>2, <3>2
  <2>4. PICK b \in DOMAIN Y : r[b] = row[j] /\ c[b] = q /\ Y[b] = ItemsOf(X)[j]
    <3>1. row[j] \in 1..n
      BY <1>8
    <3>2. \E b \in DOMAIN Y : r[b] = row[j] /\ c[b] = q /\ Y[b] = ys[row[j]][q]
      BY <1>7, <3>1
    <3> QED BY <2>2, <3>2
  <2>5. row[i] \in Nat /\ row[j] \in Nat /\ p \in Nat /\ q \in Nat /\ a \in Nat /\ b \in Nat
    <3>1. row[i] \in 1..n /\ row[j] \in 1..n
      BY <1>8
    <3>2. p \in Nat /\ q \in Nat
      BY <1>6, <3>1
    <3>3. a \in Nat /\ b \in Nat
      BY <1>4
    <3>4. \A k \in 1..n : k \in Nat
      OBVIOUS
    <3> QED BY <3>1, <3>2, <3>3, <3>4
  <2>6. ~(b < a) /\ a # b
    <3>1. b < a => r[b] < r[a] \/ (r[b] = r[a] /\ c[b] < c[a])
      BY <1>2 DEF Laid
    <3>2. ~(row[j] < row[i]) /\ (row[j] = row[i] => p < q)
      BY <2>2, <2>5, SMTT(20)
    <3> QED BY <2>3, <2>4, <2>5, <3>1, <3>2
  <2> QED BY <2>3, <2>4, <2>5, <2>6
<1> QED BY <1>5, <1>10, <1>11 DEF InOrderOf, X, Y

-----------------------------------------------------------------------------
(* What there is to play.                                                  *)
AllItems == (UNION {Range(Episodes[show]) : show \in Shows}) \cup {Film[film] : film \in Films}

\* What a show, a film or a collection has items of.
Speaks(what) == IF what \in Collections THEN Range(Children[what]) ELSE {what}

\* A list that has each item once, of these things.
ListsOnce(list, things) ==
    /\ list \in Seq(AllItems)
    /\ \A i, j \in DOMAIN list : list[i] = list[j] => i = j
    /\ \A i \in DOMAIN list : list[i].of \in things

LEMMA FilmsAreItems == \A film \in Films : Film[film] \in AllItems
BY DEF AllItems

LEMMA LibraryIsListed ==
    /\ Shows \cap Films = {} /\ (Shows \cup Films) \cap Collections = {}
    /\ \A thing \in Shows \cup Films : ListsOnce(ListOf(thing), {thing})
<1>1. Shows \cap Films = {} /\ (Shows \cup Films) \cap Collections = {}
  BY LibraryAssumption
<1>2. ASSUME NEW show \in Shows PROVE ListsOnce(ListOf(show), {show})
  <2> DEFINE list == Episodes[show]
  <2>1. list \in Seq({ep \in Range(list) : ep.of = show /\ ep.kind \in Kinds}) /\ IsInjective(list)
    BY LibraryAssumption DEF IsListing
  <2>2. Range(list) \subseteq AllItems
    BY DEF AllItems
  <2>3. ListOf(show) = list
    BY DEF ListOf
  <2> HIDE DEF list
  <2>4. list \in Seq(Range(list)) /\ \A i \in DOMAIN list : list[i].of = show
    <3>1. \A i \in DOMAIN list : list[i] \in {ep \in Range(list) : ep.of = show /\ ep.kind \in Kinds}
      BY <2>1, ElementOfSeq, LenProperties
    <3>2. DOMAIN list = 1..Len(list) /\ Len(list) \in Nat /\ list = [i \in 1..Len(list) |-> list[i]]
      BY <2>1, LenProperties
    <3>3. list \in [1..Len(list) -> Range(list)]
      BY <3>1, <3>2
    <3> QED BY <3>1, <3>2, <3>3, SeqDef
  <2>5. list \in Seq(AllItems)
    BY <2>2, <2>4
  <2> QED BY <2>1, <2>3, <2>4, <2>5 DEF ListsOnce, IsInjective
<1>3. ASSUME NEW film \in Films PROVE ListsOnce(ListOf(film), {film})
  <2>1. ListOf(film) = <<Film[film]>> /\ Film[film] \in AllItems /\ Film[film].of = film
    <3>1. film \notin Shows
      BY <1>1
    <3>2. Film[film].of = film
      BY LibraryAssumption
    <3>3. Film[film] \in AllItems
      BY FilmsAreItems
    <3> QED BY <3>1, <3>2, <3>3 DEF ListOf
  <2> DEFINE reel == Film[film]
  <2> HIDE DEF reel
  <2>2. ListOf(film) = <<reel>> /\ reel \in AllItems /\ reel.of = film
    BY <2>1 DEF reel
  <2> QED BY <2>2 DEF ListsOnce
<1> QED BY <1>1, <1>2, <1>3

LEMMA ChildrenAreListed ==
    ASSUME NEW c \in Collections
    PROVE  /\ Children[c] \in Seq(Shows \cup Films)
           /\ DOMAIN Children[c] = 1..Len(Children[c]) /\ Len(Children[c]) \in Nat
           /\ \A n \in 1..Len(Children[c]) : Children[c][n] \in Shows \cup Films
           /\ \A m, n \in 1..Len(Children[c]) : Children[c][m] = Children[c][n] => m = n
<1>1. Children[c] \in Seq(Shows \cup Films) /\ IsInjective(Children[c])
  BY LibraryAssumption DEF IsListing
<1> DEFINE list == Children[c]
<1> HIDE DEF list
<1>2. list \in Seq(Shows \cup Films) /\ IsInjective(list)
  BY <1>1 DEF list
<1>3. /\ DOMAIN list = 1..Len(list) /\ Len(list) \in Nat
      /\ \A n \in 1..Len(list) : list[n] \in Shows \cup Films
      /\ \A m, n \in 1..Len(list) : list[m] = list[n] => m = n
  BY <1>2, LenProperties, ElementOfSeq DEF IsInjective
<1> QED BY <1>2, <1>3 DEF list

LEMMA WholeIsListed ==
    ASSUME NEW what \in Shows \cup Films \cup Collections
    PROVE  ListsOnce(Whole(what), Speaks(what))
<1>1. CASE what \notin Collections
  BY <1>1, LibraryIsListed DEF Whole, Speaks
<1>2. CASE what \in Collections
  <2> DEFINE n == Len(Children[what])
             ys == [k \in 1..n |-> ListOf(Children[what][k])]
             Y == FlattenSeq(ys)
  <2>1. /\ n \in Nat /\ DOMAIN Children[what] = 1..n
        /\ \A k \in 1..n : Children[what][k] \in Shows \cup Films
        /\ \A k, l \in 1..n : Children[what][k] = Children[what][l] => k = l
    BY <1>2, ChildrenAreListed
  <2>2. Whole(what) = Y
    BY <1>2, <2>1 DEF Whole
  <2>3. \A k \in 1..n : ListsOnce(ys[k], {Children[what][k]})
    BY <2>1, LibraryIsListed
  <2> HIDE DEF n
  <2>4. ys \in [1..n -> Seq(AllItems)]
    BY <2>3 DEF ListsOnce
  <2> HIDE DEF ys
  <2>5. Y \in Seq(AllItems) /\ \E row, col : Laid(Y, ys, n, row, col)
    BY <2>1, <2>4, FlattenLays
  <2> HIDE DEF Y
  <2>6. PICK row, col : Laid(Y, ys, n, row, col)
    BY <2>5
  <2>7. \A i \in DOMAIN Y : row[i] \in 1..n /\ col[i] \in DOMAIN ys[row[i]] /\ Y[i] = ys[row[i]][col[i]]
    BY <2>6 DEF Laid
  <2>8. \A i \in DOMAIN Y : Y[i].of = Children[what][row[i]]
    BY <2>3, <2>7 DEF ListsOnce
  <2>9. \A i \in DOMAIN Y : Y[i].of \in Speaks(what)
    BY <1>2, <2>1, <2>7, <2>8 DEF Speaks, Range
  <2>10. ASSUME NEW i \in DOMAIN Y, NEW j \in DOMAIN Y, Y[i] = Y[j], i < j PROVE FALSE
    <3>1. row[i] = row[j]
      BY <2>1, <2>7, <2>8, <2>10
    <3>2. col[i] = col[j]
      BY <2>3, <2>7, <2>10, <3>1 DEF ListsOnce
    <3>3. row[i] < row[j] \/ (row[i] = row[j] /\ col[i] < col[j])
      BY <2>6, <2>10 DEF Laid
    <3>4. row[i] \in Nat /\ col[i] \in Nat
      BY <2>1, <2>6 DEF Laid
    <3> QED BY <3>1, <3>2, <3>3, <3>4
  <2>11. DOMAIN Y \subseteq Nat
    BY <2>5, LenProperties
  <2>12. \A i, j \in DOMAIN Y : Y[i] = Y[j] => i = j
    BY <2>10, <2>11
  <2> QED BY <2>2, <2>5, <2>9, <2>12 DEF ListsOnce
<1> QED BY <1>1, <1>2

-----------------------------------------------------------------------------
(* What a member has left, for a household that has seen so much.          *)
Fresh == [item : AllItems \ seen, member : Shows \cup Films]

LEMMA TaggedKeepsItems ==
    ASSUME NEW items \in Seq(AllItems \ seen), NEW child \in Shows \cup Films
    PROVE  Tagged(items, child) \in Seq(Fresh) /\ ItemsOf(Tagged(items, child)) = items
<1>1. /\ DOMAIN items = 1..Len(items) /\ Len(items) \in Nat /\ items = [n \in 1..Len(items) |-> items[n]]
      /\ \A n \in 1..Len(items) : items[n] \in AllItems \ seen
  BY LenProperties, ElementOfSeq
<1>2. Tagged(items, child) \in [1..Len(items) -> Fresh]
  BY <1>1 DEF Tagged, Fresh
<1>3. DOMAIN Tagged(items, child) = 1..Len(items)
      /\ \A n \in 1..Len(items) : Tagged(items, child)[n].item = items[n]
  BY <1>1 DEF Tagged
<1>4. ItemsOf(Tagged(items, child)) = [n \in 1..Len(items) |-> items[n]]
  BY <1>3 DEF ItemsOf
<1> QED BY <1>1, <1>2, <1>4, SeqDef

LEMMA ShowLeftIsFresh ==
    ASSUME NEW show \in Shows, NEW cfg, NEW start
    PROVE  /\ ShowLeft(show, Episodes, cfg, Seen, start, FALSE) \in Seq(AllItems \ seen)
           /\ InOrderOf(ShowLeft(show, Episodes, cfg, Seen, start, FALSE), ListOf(show))
<1> DEFINE eps == Episodes[show]
           specialsOk == FALSE /\ ~HasRealSeasons(eps)
           A == {ep \in Range(eps) : /\ Wanted(ep, Seen, FALSE)
                                     /\ Keeps(ep, cfg, specialsOk) /\ AtOrAfter(ep, start)}
           left == Only(eps, A)
<1>1. left = ShowLeft(show, Episodes, cfg, Seen, start, FALSE)
  BY DEF ShowLeft
<1>2. A \cap seen = {}
  BY DEF Wanted, Seen
<1>3. ListOf(show) = eps /\ eps \in Seq(AllItems)
  <2>1. ListsOnce(ListOf(show), {show}) /\ ListOf(show) = eps
    BY LibraryIsListed DEF ListOf
  <2> QED BY <2>1 DEF ListsOnce
<1> HIDE DEF A, eps
<1>4. left \in Seq(AllItems) /\ \E from : Leaves(left, eps, from, A)
  BY <1>3, OnlyLeaves
<1> HIDE DEF left
<1>5. \A n \in DOMAIN left : left[n] \in A
  BY <1>4 DEF Leaves
<1>6. left \in Seq(AllItems \ seen)
  <2>1. /\ DOMAIN left = 1..Len(left) /\ Len(left) \in Nat /\ left = [n \in 1..Len(left) |-> left[n]]
        /\ \A n \in 1..Len(left) : left[n] \in AllItems
    BY <1>4, LenProperties, ElementOfSeq
  <2>2. left \in [1..Len(left) -> AllItems \ seen]
    BY <1>2, <1>5, <2>1
  <2> QED BY <2>1, <2>2, SeqDef
<1> QED BY <1>1, <1>3, <1>4, <1>6, LeftInOrder

\* A list for this thing of what is not watched.
FreshOf(items, what) == items \in Seq(Fresh) /\ InOrderOf(ItemsOf(items), Whole(what))

LEMMA TaggedIsFresh ==
    ASSUME NEW items \in Seq(AllItems \ seen), NEW thing \in Shows \cup Films,
           InOrderOf(items, ListOf(thing))
    PROVE  FreshOf(Tagged(items, thing), thing)
<1>1. Whole(thing) = ListOf(thing)
  BY LibraryIsListed DEF Whole
<1> QED BY <1>1, TaggedKeepsItems DEF FreshOf

LEMMA FilmLeftIsFresh ==
    ASSUME NEW film \in Films
    PROVE  LET left == IF Wanted(Film[film], Seen, FALSE) THEN <<Film[film]>> ELSE << >>
           IN  left \in Seq(AllItems \ seen) /\ InOrderOf(left, ListOf(film))
<1>1. Film[film] \in AllItems /\ film \notin Shows
  BY FilmsAreItems, LibraryIsListed
<1>2. ListOf(film) = <<Film[film]>>
  BY <1>1 DEF ListOf
<1>3. Wanted(Film[film], Seen, FALSE) => Film[film] \notin seen
  BY DEF Wanted, Seen
<1>4. InOrderOf(<< >>, <<Film[film]>>) /\ InOrderOf(<<Film[film]>>, <<Film[film]>>)
  BY SameInOrder DEF InOrderOf
<1> DEFINE reel == Film[film]
           left == IF Wanted(reel, Seen, FALSE) THEN <<reel>> ELSE << >>
<1> HIDE DEF reel
<1>5. reel \in AllItems /\ (Wanted(reel, Seen, FALSE) => reel \notin seen)
  BY <1>1, <1>3 DEF reel
<1>6. left \in Seq(AllItems \ seen)
  <2>1. CASE Wanted(reel, Seen, FALSE)
    <3>1. left = <<reel>> /\ reel \in AllItems \ seen
      BY <1>5, <2>1
    <3> HIDE DEF left
    <3> QED BY <3>1
  <2>2. CASE ~Wanted(reel, Seen, FALSE)
    <3>1. left = << >>
      BY <2>2
    <3> HIDE DEF left
    <3> QED BY <3>1
  <2> QED BY <2>1, <2>2
<1>7. InOrderOf(left, ListOf(film))
  BY <1>2, <1>4 DEF reel
<1> QED BY <1>6, <1>7 DEF reel

LEMMA CollectionLeftIsFresh ==
    ASSUME NEW c \in Collections, NEW cfg, NEW start
    PROVE  FreshOf(CollectionLeft(c, Episodes, cfg, Seen, start, FALSE), c)
<1> DEFINE children == Children[c]
           n == Len(children)
           floor == StartMember(children, start)
           ShowOf(k) == ShowLeft(children[k], Episodes, cfg, Seen,
                                 IF k = floor THEN start ELSE NoStart, FALSE)
           FilmOf(k) == IF Wanted(Film[children[k]], Seen, FALSE) THEN <<Film[children[k]]>> ELSE << >>
           Rest(k) == IF k < floor THEN << >>
                      ELSE IF children[k] \in Shows THEN ShowOf(k) ELSE FilmOf(k)
           xs == [k \in 1..n |-> Tagged(Rest(k), children[k])]
           ys == [k \in 1..n |-> ListOf(children[k])]
<1>1. /\ n \in Nat /\ DOMAIN children = 1..n
      /\ \A k \in 1..n : children[k] \in Shows \cup Films
  BY ChildrenAreListed
<1>2. CollectionLeft(c, Episodes, cfg, Seen, start, FALSE) = FlattenSeq(xs)
  BY <1>1 DEF CollectionLeft
<1>3. Whole(c) = FlattenSeq(ys)
  BY <1>1 DEF Whole
<1>4. ASSUME NEW k \in 1..n
      PROVE  Rest(k) \in Seq(AllItems \ seen) /\ InOrderOf(Rest(k), ListOf(children[k]))
  <2>1. << >> \in Seq(AllItems \ seen) /\ InOrderOf(<< >>, ListOf(children[k]))
    BY DEF InOrderOf
  <2>2. CASE children[k] \in Shows
    <3>1. ShowOf(k) \in Seq(AllItems \ seen) /\ InOrderOf(ShowOf(k), ListOf(children[k]))
      BY <2>2, ShowLeftIsFresh
    <3> QED BY <2>1, <2>2, <3>1
  <2>3. CASE children[k] \notin Shows
    <3>1. children[k] \in Films
      BY <1>1, <2>3
    <3>2. FilmOf(k) \in Seq(AllItems \ seen) /\ InOrderOf(FilmOf(k), ListOf(children[k]))
      BY <3>1, FilmLeftIsFresh
    <3> QED BY <2>1, <2>3, <3>2
  <2> QED BY <2>2, <2>3
<1> HIDE DEF n, Rest
<1>5. \A k \in 1..n : xs[k] \in Seq(Fresh) /\ ItemsOf(xs[k]) = Rest(k)
  BY <1>1, <1>4, TaggedKeepsItems
<1>6. \A k \in 1..n : ListOf(children[k]) \in Seq(AllItems)
  BY <1>1, LibraryIsListed DEF ListsOnce
<1>7. /\ xs \in [1..n -> Seq(Fresh)] /\ ys \in [1..n -> Seq(AllItems)]
      /\ \A k \in 1..n : InOrderOf(ItemsOf(xs[k]), ys[k])
  BY <1>4, <1>5, <1>6
<1> HIDE DEF xs, ys
<1>8. InOrderOf(ItemsOf(FlattenSeq(xs)), FlattenSeq(ys)) /\ FlattenSeq(xs) \in Seq(Fresh)
  BY <1>1, <1>7, FlattenInOrder, FlattenLays
<1> QED BY <1>2, <1>3, <1>8 DEF FreshOf

LEMMA LeftIsFresh ==
    ASSUME NEW desc, NEW cfg, desc.what \in Shows \cup Films \cup Collections
    PROVE  FreshOf(Left(desc, Episodes, cfg, Seen, FALSE), desc.what)
<1> DEFINE left == Left(desc, Episodes, cfg, Seen, FALSE)
<1>1. CASE desc.what \in Collections
  <2>1. left = CollectionLeft(desc.what, Episodes, cfg, Seen, desc.start, FALSE)
    <3>1. desc.what \notin Shows \cup Films
      BY <1>1, LibraryIsListed
    <3> QED BY <1>1, <3>1 DEF Left
  <2> QED BY <1>1, <2>1, CollectionLeftIsFresh
<1>2. CASE desc.what \in Shows
  <2> DEFINE items == ShowLeft(desc.what, Episodes, cfg, Seen, desc.start, FALSE)
  <2>1. left = Tagged(items, desc.what)
    BY <1>2, LibraryIsListed DEF Left
  <2>2. items \in Seq(AllItems \ seen) /\ InOrderOf(items, ListOf(desc.what))
    BY <1>2, ShowLeftIsFresh
  <2> HIDE DEF items
  <2> QED BY <1>2, <2>1, <2>2, TaggedIsFresh
<1>3. CASE desc.what \in Films
  <2> DEFINE items == IF Wanted(Film[desc.what], Seen, FALSE) THEN <<Film[desc.what]>> ELSE << >>
  <2>1. left = Tagged(items, desc.what)
    BY <1>3, LibraryIsListed DEF Left
  <2>2. items \in Seq(AllItems \ seen) /\ InOrderOf(items, ListOf(desc.what))
    BY <1>3, FilmLeftIsFresh
  <2> HIDE DEF items
  <2> QED BY <1>3, <2>1, <2>2, TaggedIsFresh
<1> QED BY <1>1, <1>2, <1>3

(* A batch is how a list begins.                                           *)
LEMMA BatchBegins ==
    ASSUME NEW T, NEW items \in Seq(T), NEW batch \in Int, NEW stop
    PROVE  /\ ApplyBatch(items, batch, stop) \in Seq(T)
           /\ IsBeginning(ApplyBatch(items, batch, stop), items)
           /\ items # << >> => ApplyBatch(items, batch, stop) # << >>
<1> DEFINE Good(part) ==
             part \in Seq(T) /\ IsBeginning(part, items) /\ (items # << >> => part # << >>)
<1>1. Len(items) \in Nat /\ DOMAIN items = 1..Len(items)
  BY LenProperties
<1>2. ASSUME NEW part \in Seq(T), IsBeginning(part, items), NEW m \in 0..Len(part),
             items # << >> => m # 0
      PROVE  Good(SubSeq(part, 1, m))
  <2>1. PICK l \in Nat : DOMAIN part = 1..l /\ 1..l \subseteq DOMAIN items /\ \A i \in 1..l : part[i] = items[i]
    BY <1>2 DEF IsBeginning
  <2>2. Len(part) \in Nat /\ DOMAIN part = 1..Len(part)
    BY LenProperties
  <2>3. 1..m \subseteq 1..Len(part) /\ m \in Nat
    BY <2>2
  <2>4. /\ SubSeq(part, 1, m) \in Seq(T) /\ DOMAIN SubSeq(part, 1, m) = 1..m
        /\ \A i \in 1..m : SubSeq(part, 1, m)[i] = part[i]
    <3>1. \A i \in 1..m : part[i] \in T
      BY <2>2, <2>3, ElementOfSeq
    <3>2. /\ SubSeq(part, 1, m) \in Seq(T)
          /\ Len(SubSeq(part, 1, m)) = IF 1 <= m THEN m - 1 + 1 ELSE 0
          /\ \A i \in 1..m - 1 + 1 : SubSeq(part, 1, m)[i] = part[1 + i - 1]
      BY <2>3, <3>1, SubSeqProperties
    <3>3. Len(SubSeq(part, 1, m)) = m /\ \A i \in 1..m : SubSeq(part, 1, m)[i] = part[i]
      BY <2>3, <3>2
    <3> QED BY <3>2, <3>3, LenProperties
  <2>5. IsBeginning(SubSeq(part, 1, m), items)
    BY <2>1, <2>2, <2>3, <2>4 DEF IsBeginning
  <2>6. m # 0 => SubSeq(part, 1, m) # << >>
    BY <2>3, <2>4
  <2> QED BY <1>2, <2>4, <2>5, <2>6
<1>3. Good(items)
  BY <1>1 DEF IsBeginning
<1>4. ASSUME NEW k \in Nat \ {0} PROVE Good(AtMost(items, k))
  <2> DEFINE m == IF Len(items) < k THEN Len(items) ELSE k
  <2>1. m \in 0..Len(items) /\ AtMost(items, k) = SubSeq(items, 1, m)
    BY <1>1 DEF AtMost
  <2>2. items # << >> => m # 0
    <3>1. items # << >> => Len(items) # 0
      BY EmptySeq
    <3> QED BY <1>1, <3>1
  <2> HIDE DEF m
  <2>3. items \in Seq(T) /\ IsBeginning(items, items)
    BY <1>3
  <2> QED BY <1>2, <2>1, <2>2, <2>3
<1>5. ASSUME NEW part, Good(part) PROVE Good(CutAtBoundary(part, stop))
  <2> DEFINE others == {n \in DOMAIN part : SegmentKey(part[n], stop) # SegmentKey(part[1], stop)}
             first == CHOOSE n \in others : \A k \in others : n <= k
  <2>1. CutAtBoundary(part, stop) = IF stop \notin Stops \/ others = {} THEN part
                                    ELSE SubSeq(part, 1, first - 1)
    BY DEF CutAtBoundary
  <2>2. part \in Seq(T) /\ IsBeginning(part, items) /\ Len(part) \in Nat /\ others \subseteq 1..Len(part)
    <3>1. part \in Seq(T) /\ IsBeginning(part, items)
      BY <1>5
    <3>2. Len(part) \in Nat /\ DOMAIN part = 1..Len(part)
      BY <3>1, LenProperties
    <3>3. others \subseteq DOMAIN part
      OBVIOUS
    <3> HIDE DEF others
    <3> QED BY <3>1, <3>2, <3>3
  <2>3. ASSUME others # {} PROVE first \in others
    <3>1. others \subseteq Nat
      BY <2>2
    <3> HIDE DEF others
    <3>2. PICK n \in others : \A k \in others : ~(k < n)
      BY <2>3, <3>1, LeastNumber
    <3>3. \A k \in others : n <= k
      BY <3>1, <3>2
    <3> QED BY <3>2, <3>3
  <2> HIDE DEF others, first
  <2>5. 1 \notin others
    BY DEF others
  <2>4. others # {} => first - 1 \in 0..Len(part) /\ first - 1 # 0
    <3> SUFFICES ASSUME others # {} PROVE first - 1 \in 0..Len(part) /\ first - 1 # 0
      OBVIOUS
    <3>1. first \in 1..Len(part) /\ first # 1
      BY <2>2, <2>3, <2>5
    <3> QED BY <2>2, <3>1
  <2> HIDE DEF Good
  <2> QED BY <1>2, <1>5, <2>1, <2>2, <2>4
<1>6. ApplyBatch(items, batch, stop) =
        IF batch = 0 THEN items
        ELSE CutAtBoundary(AtMost(items, AtLeastOne(IF batch < SeriesLength THEN batch ELSE SeriesLength)),
                           stop)
  BY DEF ApplyBatch
<1>7. AtLeastOne(IF batch < SeriesLength THEN batch ELSE SeriesLength) \in Nat \ {0}
  BY LibraryAssumption DEF AtLeastOne
<1>8. Good(ApplyBatch(items, batch, stop))
  <2> HIDE DEF Good
  <2> QED BY <1>3, <1>4, <1>5, <1>6, <1>7
<1> QED BY <1>8

LEMMA ResolvedIsFresh ==
    ASSUME NEW desc, NEW cfg, IsMember(desc)
    PROVE  FreshOf(ResolveMember(desc, Episodes, cfg, Seen, 0, FALSE), desc.what)
<1> DEFINE items == Left(desc, Episodes, cfg, Seen, FALSE)
           batch == IF desc.episodes # 0 THEN desc.episodes ELSE 0
           stop == BatchStop(desc, cfg)
<1>1. ResolveMember(desc, Episodes, cfg, Seen, 0, FALSE)
        = IF desc.what \in Films THEN items ELSE ApplyBatch(items, batch, stop)
  BY DEF ResolveMember
<1>2. FreshOf(items, desc.what) /\ batch \in Nat
  BY LeftIsFresh DEF IsMember
<1> HIDE DEF items, batch, stop
<1>3. ApplyBatch(items, batch, stop) \in Seq(Fresh) /\ IsBeginning(ApplyBatch(items, batch, stop), items)
  BY <1>2, BatchBegins DEF FreshOf
<1>4. InOrderOf(ItemsOf(ApplyBatch(items, batch, stop)), ItemsOf(items))
  BY <1>3, BeginsInOrder
<1> QED BY <1>1, <1>2, <1>3, <1>4, PartOfPart DEF FreshOf

-----------------------------------------------------------------------------
(* The buckets.  What may be in a bucket of a member.                      *)
ByMember(b, what, cfg) ==
    /\ what \in Shows \cup Films \cup Collections /\ cfg.members # << >>
    /\ b.key = what /\ Speaks(what) \subseteq Taken(cfg)
    /\ b.items \in Seq(AllItems \ seen)
    /\ InOrderOf(b.items, Whole(what))

\* What is dealt again is all of something that restarts.
Replays(items, key, cfg) ==
    \/ Range(items) \cap seen = {}
    \/ Range(items) \subseteq seen /\ Restarts(cfg, key)

SectionFilms == [n \in DOMAIN Shorts |-> Film[Shorts[n]]]

\* What may be in a bucket of the rule pool.
ByRule(b, cfg) ==
    /\ b.items \in Seq(AllItems) /\ Replays(b.items, b.key, cfg)
    /\ \/ b.key \in Shows /\ InOrderOf(b.items, ListOf(b.key))
       \/ b.key = SectionKey /\ cfg.hasItems /\ InOrderOf(b.items, SectionFilms)

LEMMA ListsOfTheirOwn ==
    ASSUME NEW S, NEW s \in Seq(S)
    PROVE  s \in Seq(Range(s)) /\ DOMAIN s = 1..Len(s) /\ Len(s) \in Nat
<1>1. DOMAIN s = 1..Len(s) /\ Len(s) \in Nat /\ s = [n \in 1..Len(s) |-> s[n]]
  BY LenProperties
<1>2. \A n \in 1..Len(s) : s[n] \in Range(s)
  BY <1>1 DEF Range
<1>3. s \in [1..Len(s) -> Range(s)]
  BY <1>1, <1>2
<1> QED BY <1>1, <1>3, SeqDef

\* A list that is given entry by entry.
LEMMA ListsByPlace ==
    ASSUME NEW n \in Nat, NEW s, DOMAIN s = 1..n, s = [k \in 1..n |-> s[k]]
    PROVE  s \in Seq(Range(s)) /\ Len(s) = n
<1>1. s \in [1..n -> Range(s)]
  <2>1. \A k \in 1..n : s[k] \in Range(s)
    BY DEF Range
  <2> QED BY <2>1
<1>2. s \in Seq(Range(s))
  BY <1>1, SeqDef
<1> QED BY <1>2, LenProperties

LEMMA SetsAreListed ==
    ASSUME NEW T, IsFiniteSet(T)
    PROVE  SetToSeq(T) \in Seq(T) /\ \A i, j \in DOMAIN SetToSeq(T) : SetToSeq(T)[i] = SetToSeq(T)[j] => i = j
<1> DEFINE n == Cardinality(T)
<1>1. n \in Nat /\ ExistsBijection(1..n, T)
  BY FS_CardinalityType
<1>2. PICK f \in Bijection(1..n, T) : TRUE
  BY <1>1 DEF ExistsBijection
<1>3. f \in [1..n -> T] /\ IsInjective(f)
  BY <1>2 DEF Bijection, Injection
<1>4. SetToSeq(T) \in [1..n -> T] /\ IsInjective(SetToSeq(T))
  BY <1>3 DEF SetToSeq
<1> HIDE DEF n
<1> QED BY <1>1, <1>4, SeqDef DEF IsInjective

LEMMA MembersAreListed ==
    ASSUME NEW cfg \in Channels
    PROVE  /\ MembersOf(cfg) \in Seq(Range(MembersOf(cfg)))
           /\ DOMAIN MembersOf(cfg) = 1..Len(MembersOf(cfg)) /\ Len(MembersOf(cfg)) \in Nat
           /\ \A k \in DOMAIN MembersOf(cfg) :
                /\ IsMember(MembersOf(cfg)[k]) /\ cfg.members # << >>
                /\ MembersOf(cfg)[k].what \in Collections =>
                        \E d \in Range(cfg.members) : d.what = MembersOf(cfg)[k].what
           /\ ~cfg.split => \A d \in Range(cfg.members) :
                \E k \in DOMAIN MembersOf(cfg) : MembersOf(cfg)[k].what = d.what
<1> DEFINE list == cfg.members
           AsChildren(desc) ==
               IF desc.what \in Collections /\ cfg.split
               THEN [n \in DOMAIN Children[desc.what] |-> ChildOf(desc, Children[desc.what][n])]
               ELSE <<desc>>
           n == Len(list)
           xs == [k \in 1..n |-> AsChildren(list[k])]
           U == UNION {Range(xs[k]) : k \in 1..n}
           X == FlattenSeq(xs)
<1>1. list \in Seq({d \in Range(list) : IsMember(d)})
  BY RotationAssumption
<1>2. n \in Nat /\ DOMAIN list = 1..n /\ \A k \in 1..n : list[k] \in Range(list) /\ IsMember(list[k])
  <2> HIDE DEF list
  <2>1. \A k \in 1..Len(list) : list[k] \in {d \in Range(list) : IsMember(d)}
    BY <1>1, ElementOfSeq
  <2> QED BY <1>1, <2>1, LenProperties
<1>3. MembersOf(cfg) = X
  BY <1>2 DEF MembersOf
<1>4. ASSUME NEW k \in 1..n
      PROVE  /\ AsChildren(list[k]) \in Seq(Range(AsChildren(list[k])))
             /\ \A p \in DOMAIN AsChildren(list[k]) :
                    /\ IsMember(AsChildren(list[k])[p])
                    /\ AsChildren(list[k])[p].what \in Collections => AsChildren(list[k])[p].what = list[k].what
             /\ ~cfg.split => 1 \in DOMAIN AsChildren(list[k]) /\ AsChildren(list[k])[1].what = list[k].what
  <2> DEFINE desc == list[k]
             row == AsChildren(desc)
  <2>1. IsMember(desc)
    BY <1>2
  <2> HIDE DEF list
  <2>2. CASE desc.what \in Collections /\ cfg.split
    <3> DEFINE c == desc.what
    <3>1. /\ DOMAIN Children[c] = 1..Len(Children[c]) /\ Len(Children[c]) \in Nat
          /\ \A m \in 1..Len(Children[c]) : Children[c][m] \in Shows \cup Films
      BY <2>2, ChildrenAreListed
    <3>2. row = [m \in 1..Len(Children[c]) |-> ChildOf(desc, Children[c][m])]
      BY <2>2, <3>1
    <3> HIDE DEF row, desc
    <3>3. DOMAIN row = 1..Len(Children[c]) /\ \A p \in DOMAIN row : row[p].what \in Shows \cup Films /\ row[p].episodes = 0
      BY <3>1, <3>2 DEF ChildOf
    <3>4. \A p \in DOMAIN row : IsMember(row[p]) /\ row[p].what \notin Collections
      BY <3>3, LibraryIsListed DEF IsMember
    <3>5. row \in Seq(Range(row))
      BY <3>1, <3>2, <3>3, ListsByPlace
    <3> QED BY <2>2, <3>4, <3>5 DEF row, desc
  <2>3. CASE ~(desc.what \in Collections /\ cfg.split)
    <3>1. row = <<desc>>
      BY <2>3
    <3> HIDE DEF row, desc
    <3>2. DOMAIN row = {1} /\ row[1] = desc /\ row \in Seq({desc})
      BY <3>1
    <3>3. row \in Seq(Range(row))
      BY <3>2, ListsOfTheirOwn
    <3> QED BY <2>1, <3>2, <3>3 DEF row, desc
  <2> QED BY <2>2, <2>3
<1> HIDE DEF AsChildren, list, n
<1>5. xs \in [1..n -> Seq(U)]
  <2>1. ASSUME NEW k \in 1..n PROVE xs[k] \in Seq(U)
    <3>1. xs[k] \in Seq(Range(xs[k])) /\ Range(xs[k]) \subseteq U
      BY <1>4
    <3> HIDE DEF U, xs
    <3> QED BY <3>1
  <2> QED BY <2>1
<1>6. \A k \in 1..n : xs[k] = AsChildren(list[k])
  OBVIOUS
<1> HIDE DEF U, xs
<1>7. X \in Seq(U) /\ \E row, col : Laid(X, xs, n, row, col)
  BY <1>2, <1>5, FlattenLays
<1> HIDE DEF X
<1>8. PICK row, col : Laid(X, xs, n, row, col)
  BY <1>7
<1>9. ASSUME NEW k \in DOMAIN X
      PROVE  /\ IsMember(X[k]) /\ list # << >>
             /\ X[k].what \in Collections => \E d \in Range(list) : d.what = X[k].what
  <2>1. row[k] \in 1..n /\ col[k] \in DOMAIN xs[row[k]] /\ X[k] = xs[row[k]][col[k]]
    BY <1>8 DEF Laid
  <2>2. list # << >>
    BY <1>1, <1>2, <2>1, EmptySeq DEF n
  <2> QED BY <1>2, <1>4, <1>6, <2>1, <2>2
<1>10. ASSUME ~cfg.split, NEW d \in Range(list)
       PROVE  \E k \in DOMAIN X : X[k].what = d.what
  <2>1. PICK m \in 1..n : list[m] = d
    BY <1>2 DEF Range
  <2>2. 1 \in DOMAIN xs[m] /\ xs[m][1].what = d.what
    BY <1>4, <1>6, <1>10, <2>1
  <2>3. PICK k \in DOMAIN X : row[k] = m /\ col[k] = 1
    BY <1>8, <2>2 DEF Laid
  <2>4. X[k] = xs[m][1]
    BY <1>8, <2>3 DEF Laid
  <2> QED BY <2>2, <2>4
<1>11. X \in Seq(Range(X)) /\ DOMAIN X = 1..Len(X) /\ Len(X) \in Nat
  BY <1>7, ListsOfTheirOwn
<1> QED BY <1>3, <1>9, <1>10, <1>11 DEF list

\* What is left of the buckets, and where each of them was.
LEMMA NonEmptyLeaves ==
    ASSUME NEW n \in Nat, NEW list, DOMAIN list = 1..n, list = [k \in 1..n |-> list[k]]
    PROVE  /\ NonEmpty(list) \in Seq(Range(NonEmpty(list)))
           /\ \E from \in [DOMAIN NonEmpty(list) -> 1..n] :
                /\ \A i \in DOMAIN NonEmpty(list) :
                     NonEmpty(list)[i] = list[from[i]] /\ NonEmpty(list)[i].items # << >>
                /\ \A i, j \in DOMAIN NonEmpty(list) : from[i] = from[j] => i = j
<1> DEFINE A == {b \in Range(list) : b.items # << >>}
           part == Only(list, A)
<1>1. NonEmpty(list) = part
  BY DEF NonEmpty
<1>2. list \in Seq(Range(list))
  BY ListsByPlace
<1>3. part \in Seq(Range(list)) /\ \E from : Leaves(part, list, from, A)
  <2> HIDE DEF A
  <2> QED BY <1>2, OnlyLeaves
<1>4. \A b \in A : b.items # << >>
  OBVIOUS
<1> HIDE DEF A, part
<1>5. PICK from : Leaves(part, list, from, A)
  BY <1>3
<1>6. /\ from \in [DOMAIN part -> 1..n]
      /\ \A i \in DOMAIN part : part[i] = list[from[i]] /\ part[i].items # << >>
      /\ \A i, j \in DOMAIN part : i < j => from[i] < from[j]
  BY <1>4, <1>5 DEF Leaves
<1>7. \A i, j \in DOMAIN part : from[i] = from[j] => i = j
  <2>1. part \in Seq(Range(part)) /\ DOMAIN part = 1..Len(part) /\ Len(part) \in Nat
    BY <1>3, ListsOfTheirOwn
  <2> SUFFICES ASSUME NEW i \in DOMAIN part, NEW j \in DOMAIN part, from[i] = from[j], i # j PROVE FALSE
    OBVIOUS
  <2>2. i \in Nat /\ j \in Nat /\ from[i] \in Nat /\ from[j] \in Nat
    BY <1>6, <2>1
  <2>3. i < j \/ j < i
    BY <2>2
  <2> QED BY <1>6, <2>2, <2>3
<1>8. part \in Seq(Range(part))
  BY <1>3, ListsOfTheirOwn
<1> QED BY <1>1, <1>6, <1>7, <1>8, ZenonT(40)

LEMMA MembersFillBuckets ==
    ASSUME NEW cfg \in Channels
    PROVE  /\ MemberBuckets(cfg) \in Seq(Range(MemberBuckets(cfg)))
           /\ \E src \in [DOMAIN MemberBuckets(cfg) -> DOMAIN MembersOf(cfg)] :
                /\ \A i \in DOMAIN MemberBuckets(cfg) :
                     ByMember(MemberBuckets(cfg)[i], MembersOf(cfg)[src[i]].what, cfg)
                /\ \A i, j \in DOMAIN MemberBuckets(cfg) : src[i] = src[j] => i = j
<1> DEFINE all == MembersOf(cfg)
           n == Len(all)
           ItemsFor(desc) == ResolveMember(desc, Episodes, cfg, Seen, 0, FALSE)
           BucketOf(desc) == Bucket(desc.what, ItemsOf(ItemsFor(desc)), ToWeight(desc.weight))
           list == [k \in 1..n |-> BucketOf(all[k])]
           MB == MemberBuckets(cfg)
<1>1. /\ n \in Nat /\ DOMAIN all = 1..n
      /\ \A k \in 1..n :
            /\ IsMember(all[k]) /\ cfg.members # << >>
            /\ all[k].what \in Collections => \E d \in Range(cfg.members) : d.what = all[k].what
  BY MembersAreListed
<1>2. MB = NonEmpty(list)
  BY <1>1 DEF MemberBuckets, ItemsOf
<1>3. ASSUME NEW desc, IsMember(desc)
      PROVE  /\ BucketOf(desc).key = desc.what
             /\ BucketOf(desc).items \in Seq(AllItems \ seen)
             /\ InOrderOf(BucketOf(desc).items, Whole(desc.what))
  <2> DEFINE items == ItemsFor(desc)
  <2>1. items \in Seq(Fresh) /\ InOrderOf(ItemsOf(items), Whole(desc.what))
    BY <1>3, ResolvedIsFresh DEF FreshOf
  <2>2. BucketOf(desc).key = desc.what /\ BucketOf(desc).items = ItemsOf(items)
    BY DEF Bucket
  <2> HIDE DEF items
  <2>3. ItemsOf(items) \in Seq(AllItems \ seen)
    <3>1. DOMAIN items = 1..Len(items) /\ Len(items) \in Nat /\ \A k \in 1..Len(items) : items[k] \in Fresh
      BY <2>1, LenProperties, ElementOfSeq
    <3>2. ItemsOf(items) \in [1..Len(items) -> AllItems \ seen]
      BY <3>1 DEF ItemsOf, Fresh
    <3> QED BY <3>1, <3>2, SeqDef
  <2> QED BY <2>1, <2>2, <2>3
<1> HIDE DEF BucketOf
<1>4. DOMAIN list = 1..n /\ list = [k \in 1..n |-> list[k]] /\ \A k \in 1..n : list[k] = BucketOf(all[k])
  OBVIOUS
<1> HIDE DEF list, n
<1>5. /\ MB \in Seq(Range(MB))
      /\ \E from \in [DOMAIN MB -> 1..n] :
            /\ \A i \in DOMAIN MB : MB[i] = list[from[i]]
            /\ \A i, j \in DOMAIN MB : from[i] = from[j] => i = j
  <2> DEFINE Drawn(part) ==
               /\ part \in Seq(Range(part))
               /\ \E from \in [DOMAIN part -> 1..n] :
                    /\ \A i \in DOMAIN part : part[i] = list[from[i]] /\ part[i].items # << >>
                    /\ \A i, j \in DOMAIN part : from[i] = from[j] => i = j
  <2>1. Drawn(NonEmpty(list))
    BY <1>1, <1>4, NonEmptyLeaves
  <2>2. MB = NonEmpty(list)
    BY <1>2
  <2> HIDE DEF MB
  <2>3. Drawn(MB)
    <3> HIDE DEF Drawn
    <3> QED BY <2>1, <2>2
  <2> QED BY <2>3
<1>6. PICK from \in [DOMAIN MB -> 1..n] :
            /\ \A i \in DOMAIN MB : MB[i] = list[from[i]]
            /\ \A i, j \in DOMAIN MB : from[i] = from[j] => i = j
  BY <1>5
<1>7. ASSUME NEW i \in DOMAIN MB PROVE ByMember(MB[i], all[from[i]].what, cfg)
  <2> DEFINE desc == all[from[i]]
             b == MB[i]
  <2>1. /\ IsMember(desc) /\ cfg.members # << >>
        /\ desc.what \in Collections => \E d \in Range(cfg.members) : d.what = desc.what
    BY <1>1, <1>6
  <2>2. b = BucketOf(desc)
    BY <1>4, <1>6
  <2>3. b \in Range(MB)
    BY DEF Range
  <2> HIDE DEF desc, b, MB, all
  <2>4. b.key = desc.what /\ b.items \in Seq(AllItems \ seen) /\ InOrderOf(b.items, Whole(desc.what))
    BY <1>3, <2>1, <2>2
  <2>5. Speaks(desc.what) \subseteq Taken(cfg)
    <3>1. b.key \in Taken(cfg)
      BY <2>3 DEF Taken, MB
    <3>2. CASE desc.what \in Collections
      <4>1. PICK d \in Range(cfg.members) : d.what = desc.what
        BY <2>1, <3>2
      <4>2. Range(Children[d.what]) \subseteq Cover(cfg)
        BY <3>2, <4>1 DEF Cover
      <4> QED BY <3>2, <4>1, <4>2 DEF Speaks, Taken
    <3>3. CASE desc.what \notin Collections
      BY <2>4, <3>1, <3>3 DEF Speaks
    <3> QED BY <3>2, <3>3
  <2>6. ByMember(b, desc.what, cfg)
    BY <2>1, <2>4, <2>5 DEF ByMember, IsMember
  <2> QED BY <2>6 DEF desc, b
<1> HIDE DEF MB, all
<1>8. from \in [DOMAIN MB -> DOMAIN all]
  BY <1>1, <1>6
<1> QED BY <1>5, <1>6, <1>7, <1>8 DEF MB, all

LEMMA LeftIsNewOrReplayed ==
    ASSUME NEW cfg, NEW key, NEW all \in Seq(AllItems)
    PROVE  /\ LeftOrAgain(cfg, key, all) \in Seq(AllItems)
           /\ InOrderOf(LeftOrAgain(cfg, key, all), all)
           /\ Replays(LeftOrAgain(cfg, key, all), key, cfg)
<1> DEFINE left == Only(all, Range(all) \ seen)
<1>1. LeftOrAgain(cfg, key, all) = IF left = << >> /\ Restarts(cfg, key) THEN all ELSE left
  BY DEF LeftOrAgain
<1>2. left \in Seq(AllItems) /\ Range(left) = Range(all) \ seen /\ InOrderOf(left, all)
  <2>1. Range(left) = Range(all) \cap (Range(all) \ seen)
    BY OnlyRange
  <2> QED BY <2>1, OnlyIsAList, OnlyInOrder
<1> HIDE DEF left
<1>3. CASE left = << >> /\ Restarts(cfg, key)
  <2>1. Range(left) = {}
    BY <1>3 DEF Range
  <2>2. Range(all) \subseteq seen
    BY <1>2, <2>1
  <2> QED BY <1>1, <1>3, <2>2, SameInOrder DEF Replays
<1>4. CASE ~(left = << >> /\ Restarts(cfg, key))
  <2>1. Range(left) \cap seen = {}
    BY <1>2
  <2> QED BY <1>1, <1>2, <1>4, <2>1 DEF Replays
<1> QED BY <1>3, <1>4

LEMMA SectionIsListed ==
    /\ SectionFilms \in Seq(AllItems)
    /\ \A i, j \in DOMAIN SectionFilms : SectionFilms[i] = SectionFilms[j] => i = j
    /\ \A i \in DOMAIN SectionFilms : SectionFilms[i].of \in Films \cap Range(Shorts)
    /\ DOMAIN Shorts = 1..Len(Shorts) /\ Len(Shorts) \in Nat
    /\ \A k \in DOMAIN Shorts : Shorts[k] \in Films
<1>1. Shorts \in Seq(Films) /\ IsInjective(Shorts)
  BY RotationAssumption DEF IsListing
<1>2. DOMAIN Shorts = 1..Len(Shorts) /\ Len(Shorts) \in Nat /\ \A k \in 1..Len(Shorts) : Shorts[k] \in Films
  BY <1>1, LenProperties, ElementOfSeq
<1>3. \A film \in Films : Film[film] \in AllItems /\ Film[film].of = film
  BY FilmsAreItems, LibraryAssumption
<1>4. SectionFilms = [k \in 1..Len(Shorts) |-> Film[Shorts[k]]]
  BY <1>2 DEF SectionFilms
<1>5. SectionFilms \in [1..Len(Shorts) -> AllItems]
  BY <1>2, <1>3, <1>4
<1>6. \A k \in 1..Len(Shorts) : SectionFilms[k].of = Shorts[k] /\ Shorts[k] \in Range(Shorts)
  BY <1>2, <1>3, <1>4 DEF Range
<1>7. \A i, j \in 1..Len(Shorts) : SectionFilms[i] = SectionFilms[j] => i = j
  BY <1>1, <1>2, <1>6 DEF IsInjective
<1>8. DOMAIN SectionFilms = 1..Len(Shorts)
  BY <1>4
<1> QED BY <1>2, <1>5, <1>6, <1>7, <1>8, SeqDef

LEMMA RuleFillsBuckets ==
    ASSUME NEW cfg \in Channels
    PROVE  /\ RuleBuckets(cfg) \in Seq(Range(RuleBuckets(cfg)))
           /\ \A i \in DOMAIN RuleBuckets(cfg) : ByRule(RuleBuckets(cfg)[i], cfg)
           /\ \A i, j \in DOMAIN RuleBuckets(cfg) :
                RuleBuckets(cfg)[i].key = RuleBuckets(cfg)[j].key => i = j
<1> DEFINE T == cfg.shows \ cfg.blocked
           shows == SetToSeq(T)
           StartOf(show) == IF show \in DOMAIN cfg.starts THEN cfg.starts[show] ELSE NoStart
           AllOf(show) == Only(Episodes[show], {ep \in Range(Episodes[show]) : AtOrAfter(ep, StartOf(show))})
           ShowBucket(show) == Bucket(show, LeftOrAgain(cfg, show, AllOf(show)), WeightOf(cfg, show))
           section == Only(Shorts, IF cfg.hasItems THEN Films \ cfg.blocked ELSE {})
           films == [n \in DOMAIN section |-> Film[section[n]]]
           SectionBucket == Bucket(SectionKey, LeftOrAgain(cfg, SectionKey, films), WeightOf(cfg, SectionKey))
           first == [n \in DOMAIN shows |-> ShowBucket(shows[n])]
           list == first \o <<SectionBucket>>
           n == Len(shows)
           RB == RuleBuckets(cfg)
<1>1. /\ n \in Nat /\ DOMAIN shows = 1..n
      /\ \A k \in 1..n : shows[k] \in Shows
      /\ \A i, j \in 1..n : shows[i] = shows[j] => i = j
  <2>1. IsFiniteSet(T) /\ T \subseteq Shows
    <3>1. IsFiniteSet(cfg.shows) /\ cfg.shows \subseteq Shows
      BY RotationAssumption
    <3> QED BY <3>1, FS_Subset
  <2> HIDE DEF T
  <2>2. shows \in Seq(T) /\ \A i, j \in DOMAIN shows : shows[i] = shows[j] => i = j
    BY <2>1, SetsAreListed
  <2> HIDE DEF shows
  <2> QED BY <2>1, <2>2, LenProperties, ElementOfSeq
<1>2. RB = NonEmpty(list)
  BY DEF RuleBuckets
<1>3. ASSUME NEW show \in Shows
      PROVE  ShowBucket(show).key = show /\ ByRule(ShowBucket(show), cfg)
  <2> DEFINE items == LeftOrAgain(cfg, show, AllOf(show))
  <2>1. Episodes[show] \in Seq(AllItems) /\ ListOf(show) = Episodes[show]
    <3>1. ListsOnce(ListOf(show), {show}) /\ ListOf(show) = Episodes[show]
      BY LibraryIsListed DEF ListOf
    <3> QED BY <3>1 DEF ListsOnce
  <2>2. AllOf(show) \in Seq(AllItems) /\ InOrderOf(AllOf(show), ListOf(show))
    <3> DEFINE A == {ep \in Range(Episodes[show]) : AtOrAfter(ep, StartOf(show))}
    <3> HIDE DEF A
    <3>1. Only(Episodes[show], A) \in Seq(AllItems) /\ InOrderOf(Only(Episodes[show], A), ListOf(show))
      BY <2>1, OnlyIsAList, OnlyInOrder
    <3> QED BY <3>1 DEF A
  <2> HIDE DEF AllOf
  <2>3. /\ items \in Seq(AllItems) /\ Replays(items, show, cfg)
        /\ InOrderOf(items, ListOf(show))
    BY <2>2, LeftIsNewOrReplayed, PartOfPart
  <2>4. ShowBucket(show).key = show /\ ShowBucket(show).items = items
    BY DEF Bucket
  <2> HIDE DEF ShowBucket, items
  <2> QED BY <2>3, <2>4 DEF ByRule
<1>4. SectionBucket.key = SectionKey /\ (SectionBucket.items # << >> => ByRule(SectionBucket, cfg))
  <2> DEFINE items == LeftOrAgain(cfg, SectionKey, films)
             A == IF cfg.hasItems THEN Films \ cfg.blocked ELSE {}
  <2>1. Shorts \in Seq(Films)
    BY RotationAssumption DEF IsListing
  <2>2. section \in Seq(Films) /\ InOrderOf(section, Shorts)
    <3> HIDE DEF A
    <3>1. Only(Shorts, A) \in Seq(Films) /\ InOrderOf(Only(Shorts, A), Shorts)
      BY <2>1, OnlyIsAList, OnlyInOrder
    <3> QED BY <3>1 DEF A
  <2>3. ~cfg.hasItems => section = << >>
    <3> SUFFICES ASSUME ~cfg.hasItems PROVE section = << >>
      OBVIOUS
    <3>1. A = {} /\ Range(Shorts) \cap {} = {}
      OBVIOUS
    <3>2. Only(Shorts, {}) = << >>
      BY <2>1, <3>1, OnlyNone
    <3> QED BY <3>1, <3>2
  <2> HIDE DEF A, section
  <2>4. /\ films \in Seq(AllItems) /\ InOrderOf(films, SectionFilms)
        /\ ~cfg.hasItems => films = << >>
    <3>1. DOMAIN section = 1..Len(section) /\ Len(section) \in Nat
          /\ \A k \in 1..Len(section) : section[k] \in Films
      BY <2>2, LenProperties, ElementOfSeq
    <3>2. films \in [1..Len(section) -> AllItems]
      BY <3>1, FilmsAreItems
    <3>3. films \in Seq(AllItems)
      BY <3>1, <3>2, SeqDef
    <3>4. /\ DOMAIN SectionFilms = DOMAIN Shorts
          /\ \A k \in DOMAIN Shorts : SectionFilms[k] = Film[Shorts[k]]
          /\ DOMAIN films = DOMAIN section
          /\ \A k \in DOMAIN section : films[k] = Film[section[k]]
      BY DEF SectionFilms
    <3>5. ~cfg.hasItems => films = << >>
      BY <2>3, <3>3, <3>4, EmptySeq
    <3> HIDE DEF films
    <3>6. ASSUME NEW i \in DOMAIN films PROVE \E p \in DOMAIN SectionFilms : SectionFilms[p] = films[i]
      <4>1. \E p \in DOMAIN Shorts : Shorts[p] = section[i]
        BY <2>2, <3>4 DEF InOrderOf
      <4> QED BY <3>4, <4>1
    <3>7. ASSUME NEW i \in DOMAIN films, NEW j \in DOMAIN films, i < j
          PROVE  \E p, q \in DOMAIN SectionFilms : p < q /\ SectionFilms[p] = films[i] /\ SectionFilms[q] = films[j]
      <4>1. \E p, q \in DOMAIN Shorts : p < q /\ Shorts[p] = section[i] /\ Shorts[q] = section[j]
        BY <2>2, <3>4, <3>7 DEF InOrderOf
      <4> QED BY <3>4, <4>1
    <3> QED BY <3>3, <3>5, <3>6, <3>7 DEF InOrderOf
  <2> HIDE DEF films
  <2>5. /\ items \in Seq(AllItems) /\ Replays(items, SectionKey, cfg)
        /\ InOrderOf(items, films) /\ InOrderOf(items, SectionFilms)
    BY <2>4, LeftIsNewOrReplayed, PartOfPart
  <2>6. SectionBucket.key = SectionKey /\ SectionBucket.items = items
    BY DEF Bucket
  <2> HIDE DEF items, SectionBucket
  <2>7. ~cfg.hasItems => items = << >>
    <3>1. ASSUME ~cfg.hasItems PROVE DOMAIN items = {}
      <4>1. \A i \in DOMAIN items : \E p \in DOMAIN films : films[p] = items[i]
        BY <2>5 DEF InOrderOf
      <4>2. DOMAIN films = {}
        BY <2>4, <3>1
      <4> QED BY <4>1, <4>2
    <3>2. DOMAIN items = {} => items = << >>
      <4>1. DOMAIN items = 1..Len(items) /\ Len(items) \in Nat
        BY <2>5, LenProperties
      <4>2. DOMAIN items = {} => Len(items) = 0
        BY <4>1
      <4> QED BY <2>5, <4>2, EmptySeq
    <3> QED BY <3>1, <3>2
  <2> QED BY <2>5, <2>6, <2>7 DEF ByRule
<1>5. /\ DOMAIN list = 1..n + 1 /\ list = [k \in 1..n + 1 |-> list[k]]
      /\ \A k \in 1..n : list[k] = ShowBucket(shows[k])
      /\ list[n + 1] = SectionBucket
  <2> HIDE DEF ShowBucket, SectionBucket
  <2>1. first = [k \in 1..n |-> ShowBucket(shows[k])]
    BY <1>1
  <2>2. first \in Seq(Range(first)) /\ Len(first) = n /\ DOMAIN first = 1..n
    <3> HIDE DEF n, shows
    <3>1. DOMAIN first = 1..n /\ first = [k \in 1..n |-> first[k]]
      BY <2>1
    <3> HIDE DEF first
    <3> QED BY <1>1, <3>1, ListsByPlace
  <2> DEFINE S == Range(first) \cup {SectionBucket}
  <2>3. first \in Seq(S) /\ <<SectionBucket>> \in Seq(S) /\ Len(<<SectionBucket>>) = 1
        /\ <<SectionBucket>>[1] = SectionBucket
    <3>1. Range(first) \subseteq S /\ SectionBucket \in S
      OBVIOUS
    <3> HIDE DEF S, first
    <3>2. first \in Seq(S)
      BY <2>2, <3>1
    <3> DEFINE final == SectionBucket
    <3>3. final \in S
      BY <3>1
    <3> HIDE DEF final
    <3>4. <<final>> \in Seq(S) /\ Len(<<final>>) = 1 /\ <<final>>[1] = final
      BY <3>3
    <3> QED BY <3>2, <3>4 DEF final
  <2>4. \A k \in 1..n : first[k] = ShowBucket(shows[k])
    BY <2>1
  <2> HIDE DEF first, S, n
  <2>5. list \in Seq(S) /\ Len(list) = n + 1
        /\ (\A i \in 1..n : list[i] = first[i]) /\ list[n + 1] = SectionBucket
    <3> DEFINE final == <<SectionBucket>>
    <3>1. final \in Seq(S) /\ first \in Seq(S) /\ Len(final) = 1 /\ final[1] = SectionBucket
      BY <2>3
    <3> HIDE DEF final
    <3>2. /\ first \o final \in Seq(S) /\ Len(first \o final) = Len(first) + Len(final)
          /\ (\A i \in 1..Len(first) : (first \o final)[i] = first[i])
          /\ (\A i \in 1..Len(final) : (first \o final)[Len(first) + i] = final[i])
      BY <3>1, ConcatProperties, SMTT(20)
    <3>3. 1 \in 1..Len(final)
      BY <3>1
    <3>4. first \o final = list
      BY DEF final
    <3> HIDE DEF list
    <3> QED BY <2>2, <3>1, <3>2, <3>3, <3>4
  <2>6. DOMAIN list = 1..Len(list) /\ list = [k \in 1..Len(list) |-> list[k]]
    BY <2>5, LenProperties
  <2> HIDE DEF list
  <2> QED BY <2>4, <2>5, <2>6
<1> HIDE DEF list, ShowBucket, SectionBucket, n, shows
<1>6. n + 1 \in Nat
  BY <1>1
<1> DEFINE Drawn(part) ==
             /\ part \in Seq(Range(part))
             /\ \E from \in [DOMAIN part -> 1..n + 1] :
                  /\ \A i \in DOMAIN part : part[i] = list[from[i]] /\ part[i].items # << >>
                  /\ \A i, j \in DOMAIN part : from[i] = from[j] => i = j
<1>7. Drawn(NonEmpty(list))
  BY <1>5, <1>6, NonEmptyLeaves
<1>8. Drawn(RB)
  <2> HIDE DEF RB, Drawn
  <2> QED BY <1>2, <1>7 DEF RB
<1>9. PICK from \in [DOMAIN RB -> 1..n + 1] :
            /\ \A i \in DOMAIN RB : RB[i] = list[from[i]] /\ RB[i].items # << >>
            /\ \A i, j \in DOMAIN RB : from[i] = from[j] => i = j
  BY <1>8
<1>10. RB \in Seq(Range(RB))
  BY <1>8
<1> HIDE DEF RB
<1>11. \A k \in 1..n + 1 : k \in 1..n \/ k = n + 1
  BY <1>1
<1>12. ASSUME NEW i \in DOMAIN RB PROVE ByRule(RB[i], cfg)
  <2>1. from[i] \in 1..n + 1 /\ RB[i] = list[from[i]] /\ RB[i].items # << >>
    BY <1>9
  <2>2. CASE from[i] \in 1..n
    <3>1. shows[from[i]] \in Shows /\ RB[i] = ShowBucket(shows[from[i]])
      BY <1>1, <1>5, <2>1, <2>2
    <3> QED BY <1>3, <3>1
  <2>3. CASE from[i] = n + 1
    BY <1>4, <1>5, <2>1, <2>3
  <2> QED BY <1>11, <2>1, <2>2, <2>3
<1>13. ASSUME NEW i \in DOMAIN RB, NEW j \in DOMAIN RB, RB[i].key = RB[j].key PROVE i = j
  <2>1. /\ from[i] \in 1..n + 1 /\ RB[i] = list[from[i]]
        /\ from[j] \in 1..n + 1 /\ RB[j] = list[from[j]]
    BY <1>9
  <2>2. SectionKey \notin Shows
    BY RotationAssumption
  <2>3. ASSUME NEW k \in 1..n PROVE list[k].key = shows[k] /\ shows[k] \in Shows
    <3>1. shows[k] \in Shows /\ list[k] = ShowBucket(shows[k])
      BY <1>1, <1>5
    <3> QED BY <1>3, <3>1
  <2>4. list[n + 1].key = SectionKey
    BY <1>4, <1>5
  <2>5. from[i] = from[j]
    <3>1. from[i] \in 1..n \/ from[i] = n + 1
      BY <1>11, <2>1
    <3>2. from[j] \in 1..n \/ from[j] = n + 1
      BY <1>11, <2>1
    <3> QED BY <1>1, <1>13, <2>1, <2>2, <2>3, <2>4, <3>1, <3>2
  <2> QED BY <1>9, <2>5
<1> QED BY <1>10, <1>12, <1>13 DEF RB

\* Of which member, 0 for none, each bucket of a list is; no two are of the same, and no
\* two of the rule pool have one key.
Stand(list, src, cfg) ==
    /\ src \in [DOMAIN list -> Nat]
    /\ \A i \in DOMAIN list :
        \/ src[i] = 0 /\ ByRule(list[i], cfg) /\ (cfg.members # << >> => list[i].key \notin Taken(cfg))
        \/ /\ src[i] \in DOMAIN MembersOf(cfg)
           /\ ByMember(list[i], MembersOf(cfg)[src[i]].what, cfg)
    /\ \A i, j \in DOMAIN list : i # j /\ src[i] = src[j] => src[i] = 0 /\ list[i].key # list[j].key

LEMMA BucketsStand ==
    ASSUME NEW cfg \in Channels
    PROVE  /\ ChannelBuckets(cfg) \in Seq(Range(ChannelBuckets(cfg)))
           /\ \E src : Stand(ChannelBuckets(cfg), src, cfg)
<1> DEFINE MB == MemberBuckets(cfg)
           RB == RuleBuckets(cfg)
           A == {b \in Range(RB) : b.key \notin Taken(cfg)}
           part == Only(RB, A)
           Good(list) == list \in Seq(Range(list)) /\ \E src : Stand(list, src, cfg)
<1>1. /\ RB \in Seq(Range(RB)) /\ \A i \in DOMAIN RB : ByRule(RB[i], cfg)
      /\ \A i, j \in DOMAIN RB : RB[i].key = RB[j].key => i = j
  BY RuleFillsBuckets
<1>2. CASE cfg.members = << >>
  <2>1. ChannelBuckets(cfg) = RB
    BY <1>2 DEF ChannelBuckets
  <2> DEFINE src == [i \in DOMAIN RB |-> 0]
  <2>2. Stand(RB, src, cfg)
    BY <1>1, <1>2 DEF Stand
  <2> HIDE DEF RB, src
  <2> QED BY <1>1, <2>1, <2>2
<1>3. CASE cfg.members # << >>
  <2>1. ChannelBuckets(cfg) = MB \o part
    BY <1>3 DEF ChannelBuckets
  <2>2. PICK src \in [DOMAIN MB -> DOMAIN MembersOf(cfg)] :
            /\ \A i \in DOMAIN MB : ByMember(MB[i], MembersOf(cfg)[src[i]].what, cfg)
            /\ \A i, j \in DOMAIN MB : src[i] = src[j] => i = j
    BY MembersFillBuckets
  <2>3. MB \in Seq(Range(MB))
    BY MembersFillBuckets
  <2>4. \A b \in A : b.key \notin Taken(cfg)
    OBVIOUS
  <2> HIDE DEF A, RB, MB
  <2>5. part \in Seq(Range(RB)) /\ \E from : Leaves(part, RB, from, A)
    BY <1>1, OnlyLeaves
  <2> HIDE DEF part
  <2>6. PICK from : Leaves(part, RB, from, A)
    BY <2>5
  <2>7. /\ Len(MB) \in Nat /\ DOMAIN MB = 1..Len(MB) /\ Len(part) \in Nat /\ DOMAIN part = 1..Len(part)
        /\ DOMAIN MembersOf(cfg) \subseteq Nat \ {0}
    BY <2>3, <2>5, LenProperties, MembersAreListed
  <2>8. /\ \A i \in DOMAIN part : ByRule(part[i], cfg) /\ part[i].key \notin Taken(cfg)
        /\ \A i, j \in DOMAIN part : part[i].key = part[j].key => i = j
    <3>1. /\ \A i \in DOMAIN part : from[i] \in DOMAIN RB /\ part[i] = RB[from[i]] /\ part[i] \in A
          /\ \A i, j \in DOMAIN part : i < j => from[i] < from[j]
      BY <2>6 DEF Leaves
    <3>2. DOMAIN RB \subseteq Nat
      BY <1>1, LenProperties
    <3>3. ASSUME NEW i \in DOMAIN part, NEW j \in DOMAIN part, part[i].key = part[j].key PROVE i = j
      <4>1. from[i] = from[j]
        BY <1>1, <3>1, <3>3
      <4>2. i \in Nat /\ j \in Nat /\ from[i] \in Nat /\ from[j] \in Nat
        BY <2>7, <3>1, <3>2
      <4>3. ~(i < j) /\ ~(j < i)
        BY <3>1, <4>1, <4>2
      <4> QED BY <4>2, <4>3
    <3> QED BY <1>1, <2>4, <3>1, <3>3
  <2> DEFINE all == MB \o part
             of == [i \in 1..Len(MB) + Len(part) |-> IF i <= Len(MB) THEN src[i] ELSE 0]
  <2>9. /\ all \in Seq(Range(MB) \cup Range(RB)) /\ DOMAIN all = 1..Len(MB) + Len(part)
        /\ \A i \in 1..Len(MB) : all[i] = MB[i]
        /\ \A i \in 1..Len(part) : all[Len(MB) + i] = part[i]
    <3> DEFINE S == Range(MB) \cup Range(RB)
    <3>1. MB \in Seq(S) /\ part \in Seq(S)
      BY <2>3, <2>5
    <3> HIDE DEF S
    <3>2. all \in Seq(S) /\ Len(all) = Len(MB) + Len(part)
          /\ (\A i \in 1..Len(MB) : all[i] = MB[i])
          /\ (\A i \in 1..Len(part) : all[Len(MB) + i] = part[i])
      BY <3>1, ConcatProperties
    <3> QED BY <3>2, LenProperties DEF S
  <2> HIDE DEF all
  <2>10. \A i \in DOMAIN all : \/ i \in 1..Len(MB) /\ i <= Len(MB) /\ all[i] = MB[i]
                               \/ /\ ~(i <= Len(MB)) /\ i - Len(MB) \in 1..Len(part)
                                  /\ all[i] = part[i - Len(MB)]
    BY <2>7, <2>9
  <2>11. ASSUME NEW i \in DOMAIN all
         PROVE  \/ i \in 1..Len(MB) /\ all[i] = MB[i] /\ of[i] = src[i] /\ src[i] \in DOMAIN MembersOf(cfg)
                \/ /\ of[i] = 0 /\ i - Len(MB) \in DOMAIN part /\ all[i] = part[i - Len(MB)]
    BY <2>2, <2>7, <2>9, <2>10
  <2>12. of \in [DOMAIN all -> Nat]
    <3>1. \A i \in DOMAIN all : of[i] \in Nat
      BY <2>7, <2>11, SMTT(20)
    <3> QED BY <2>9, <3>1
  <2> HIDE DEF of
  <2>13. ASSUME NEW i \in DOMAIN all
         PROVE  \/ of[i] = 0 /\ ByRule(all[i], cfg) /\ (cfg.members # << >> => all[i].key \notin Taken(cfg))
                \/ of[i] \in DOMAIN MembersOf(cfg) /\ ByMember(all[i], MembersOf(cfg)[of[i]].what, cfg)
    BY <2>2, <2>7, <2>8, <2>11
  <2>14. ASSUME NEW i \in DOMAIN all, NEW j \in DOMAIN all, i # j, of[i] = of[j]
         PROVE  of[i] = 0 /\ all[i].key # all[j].key
    <3>1. of[i] = 0
      BY <2>2, <2>7, <2>11, <2>14
    <3>2. /\ i - Len(MB) \in DOMAIN part /\ all[i] = part[i - Len(MB)]
          /\ j - Len(MB) \in DOMAIN part /\ all[j] = part[j - Len(MB)]
      BY <2>7, <2>11, <2>14, <3>1
    <3>3. i - Len(MB) # j - Len(MB)
      BY <2>7, <2>9, <2>14
    <3> QED BY <2>8, <3>1, <3>2, <3>3
  <2>15. Stand(all, of, cfg)
    BY <2>12, <2>13, <2>14 DEF Stand
  <2>16. all \in Seq(Range(all))
    BY <2>9, ListsOfTheirOwn
  <2> QED BY <2>1, <2>15, <2>16 DEF all
<1> QED BY <1>2, <1>3

LEMMA ShuffledStand ==
    ASSUME NEW cfg \in Channels, NEW list \in Orders(ChannelBuckets(cfg))
    PROVE  list \in Seq(Range(list)) /\ \E src : Stand(list, src, cfg)
<1> DEFINE C == ChannelBuckets(cfg)
<1>1. PICK src : Stand(C, src, cfg)
  BY BucketsStand
<1>2. DOMAIN C = 1..Len(C) /\ Len(C) \in Nat
  BY BucketsStand, LenProperties
<1>3. PICK p \in [DOMAIN C -> DOMAIN C] : IsInjective(p) /\ list = [n \in DOMAIN C |-> C[p[n]]]
  BY DEF Orders
<1> HIDE DEF C
<1>4. DOMAIN list = DOMAIN C /\ \A n \in DOMAIN C : list[n] = C[p[n]] /\ p[n] \in DOMAIN C
  BY <1>3
<1>5. \A i, j \in DOMAIN C : i # j => p[i] # p[j]
  BY <1>3 DEF IsInjective
<1> DEFINE of == [n \in DOMAIN C |-> src[p[n]]]
<1>6. Stand(list, of, cfg)
  BY <1>1, <1>4, <1>5 DEF Stand
<1>7. list \in Seq(Range(list))
  <2>1. DOMAIN list = 1..Len(C) /\ list = [k \in 1..Len(C) |-> list[k]]
    BY <1>2, <1>3, <1>4
  <2> HIDE DEF of
  <2> QED BY <1>2, <2>1, ListsByPlace
<1> QED BY <1>6, <1>7

-----------------------------------------------------------------------------
(* A deal.  While nothing is watched, what stands goes on standing.        *)
LEMMA StandGoesOn ==
    ASSUME seen' = seen, channel' = channel, NEW src, Stand(order', src, channel)
    PROVE  Stand(order, src, channel)'
<1>1. Seen' = Seen
  BY DEF Seen
<1>2. MemberBuckets(channel)' = MemberBuckets(channel)
  BY <1>1 DEF MemberBuckets
<1>3. Taken(channel)' = Taken(channel)
  BY <1>2 DEF Taken
<1>4. \A b, what : ByMember(b, what, channel) => ByMember(b, what, channel)'
  BY <1>3 DEF ByMember
<1>5. \A b : ByRule(b, channel) => ByRule(b, channel)'
  BY DEF ByRule, Replays
<1> QED BY <1>3, <1>4, <1>5 DEF Stand

\* Slots of one bucket deal what is in it, one after the other.
SlotsClimb ==
    /\ \A i \in DOMAIN dealt :
        /\ dealt[i].nth \in 1..Len(order[dealt[i].bucket].items)
        /\ dealt[i].nth <= cursor[dealt[i].bucket]
    /\ \A i, j \in DOMAIN dealt :
        i < j /\ dealt[i].bucket = dealt[j].bucket => dealt[i].nth < dealt[j].nth

RotationInv ==
    /\ channel \in Channels
    /\ WalkTypes
    /\ CreditIsOwed
    /\ SlotsClimb
    /\ \E src : Stand(order, src, channel)

LEMMA NothingDealt ==
    ASSUME order \in Seq(Range(order)), credit = [n \in DOMAIN order |-> 0], cursor = credit,
           dealt = << >>
    PROVE  WalkTypes /\ CreditIsOwed /\ SlotsClimb
<1>1. WalkTypes
  BY DEF WalkTypes
<1>2. SlotsClimb
  BY DEF SlotsClimb
<1>3. CreditIsOwed
  <2> DEFINE n == Len(order)
  <2>1. n \in Nat /\ DOMAIN order = 1..n
    BY LenProperties
  <2>2. SumOf(credit) = 0
    <3>1. credit = [k \in 1..n |-> 0]
      BY <2>1
    <3>2. \A m \in Nat, x \in Int : SumOf([k \in 1..m |-> x]) = m * x
      BY SumOfSame
    <3>3. SumOf([k \in 1..n |-> 0]) = n * 0
      <4>1. 0 \in Int
        OBVIOUS
      <4> QED BY <2>1, <3>2, <4>1, Zenon
    <3>4. n * 0 = 0
      BY <2>1
    <3> QED BY <3>1, <3>3, <3>4
  <2>3. ASSUME NEW b \in DOMAIN order
        PROVE  /\ credit[b] = Len(dealt) * Weights[b] - CountOf(b) * RoundWeight
               /\ -credit[b] < RoundWeight
    <3>1. order # << >>
      OBVIOUS
    <3>2. Weights[b] \in Int /\ RoundWeight \in Int /\ RoundWeight > 0
      BY <1>1, <2>1, <3>1, RoundsHaveSlots
    <3>3. CountOf(b) = 0
      <4>1. {k \in DOMAIN dealt : dealt[k].bucket = b} = {}
        OBVIOUS
      <4> QED BY <4>1, FS_EmptySet DEF CountOf
    <3>4. Len(dealt) = 0 /\ credit[b] = 0
      OBVIOUS
    <3>5. \A x, y \in Int : 0 = 0 * x - 0 * y
      OBVIOUS
    <3> QED BY <3>2, <3>3, <3>4, <3>5
  <2> QED BY <2>2, <2>3 DEF CreditIsOwed
<1> QED BY <1>1, <1>2, <1>3

LEMMA NothingStands ==
    ASSUME order = << >>, credit = << >>, cursor = << >>, dealt = << >>
    PROVE  WalkTypes /\ CreditIsOwed /\ SlotsClimb /\ \E src : Stand(order, src, channel)
<1>1. order \in Seq(Range(order)) /\ credit = [n \in DOMAIN order |-> 0] /\ cursor = credit
  BY EmptySeq
<1>2. Stand(order, << >>, channel)
  BY DEF Stand
<1> QED BY <1>1, <1>2, NothingDealt

LEMMA SlotClimbs ==
    ASSUME WalkTypes, SlotsClimb, SlotDealt,
           \A b \in DOMAIN order : Len(order[b].items) \in Nat
    PROVE  SlotsClimb'
<1> DEFINE credited == Credited(credit, Weights, LiveNow)
           best == BestBucket(credited, LiveNow)
           new == [bucket |-> best, nth |-> cursor'[best]]
           L == Len(dealt)
<1>1. /\ cursor' = [cursor EXCEPT ![best] = @ + 1]
      /\ dealt' = Append(dealt, new) /\ order' = order
  BY DEF SlotDealt
<1>2. best \in LiveNow /\ LiveNow \subseteq DOMAIN order
  BY SlotGoesToTheLive
<1> HIDE DEF credited, best
<1>3. /\ cursor \in [DOMAIN order -> Nat] /\ cursor'[best] = cursor[best] + 1
      /\ \A b \in DOMAIN order : cursor[b] \in Nat /\ cursor'[b] >= cursor[b]
  BY <1>1, <1>2 DEF WalkTypes
<1>4. cursor[best] < Len(order[best].items)
  BY <1>2 DEF LiveNow, LiveBuckets, Sizes
<1>5. /\ new.bucket = best /\ new.nth = cursor[best] + 1
      /\ new \in [bucket : DOMAIN order, nth : Nat]
  BY <1>2, <1>3
<1> HIDE DEF new
<1>6. /\ L \in Nat /\ DOMAIN dealt = 1..L /\ DOMAIN dealt' = 1..L + 1
      /\ \A i \in 1..L : dealt'[i] = dealt[i]
      /\ dealt'[L + 1] = new
      /\ \A i \in 1..L : dealt[i].bucket \in DOMAIN order /\ dealt[i].nth \in Nat
  <2> DEFINE S == [bucket : DOMAIN order, nth : Nat]
  <2>1. dealt \in Seq(S) /\ new \in S
    BY <1>5 DEF WalkTypes
  <2>2. \A x \in S : x.bucket \in DOMAIN order /\ x.nth \in Nat
    OBVIOUS
  <2> HIDE DEF S
  <2>3. dealt' \in Seq(S) /\ Len(dealt') = L + 1
        /\ (\A i \in 1..L : dealt'[i] = dealt[i]) /\ dealt'[L + 1] = new
    BY <1>1, <2>1, AppendProperties
  <2>4. \A i \in 1..L : dealt[i] \in S
    BY <2>1, ElementOfSeq
  <2> QED BY <2>1, <2>2, <2>3, <2>4, LenProperties
<1>7. cursor[best] + 1 \in 1..Len(order[best].items)
  <2>1. cursor[best] \in Nat /\ Len(order[best].items) \in Nat
    BY <1>2, <1>3
  <2> QED BY <1>4, <2>1
<1>8. \A i \in 1..L + 1 : i = L + 1 \/ i \in 1..L
  BY <1>6
<1>9. ASSUME NEW i \in 1..L + 1
      PROVE  /\ dealt'[i].nth \in 1..Len(order[dealt'[i].bucket].items)
             /\ dealt'[i].nth <= cursor'[dealt'[i].bucket]
  <2>1. CASE i = L + 1
    BY <1>3, <1>5, <1>6, <1>7, <2>1
  <2>2. CASE i \in 1..L
    <3>1. /\ dealt[i].nth \in 1..Len(order[dealt[i].bucket].items)
          /\ dealt[i].nth <= cursor[dealt[i].bucket]
      BY <1>6, <2>2 DEF SlotsClimb
    <3>2. dealt[i].bucket \in DOMAIN order /\ dealt[i].nth \in Nat /\ dealt'[i] = dealt[i]
      BY <1>6, <2>2
    <3>3. /\ cursor[dealt[i].bucket] \in Nat /\ cursor'[dealt[i].bucket] \in Nat
          /\ cursor'[dealt[i].bucket] >= cursor[dealt[i].bucket]
      <4>1. \A b \in DOMAIN order : cursor'[b] \in Nat
        BY <1>1, <1>3
      <4> QED BY <1>3, <3>2, <4>1
    <3> QED BY <3>1, <3>2, <3>3
  <2> QED BY <1>8, <2>1, <2>2
<1>10. ASSUME NEW i \in 1..L + 1, NEW j \in 1..L + 1, i < j, dealt'[i].bucket = dealt'[j].bucket
       PROVE  dealt'[i].nth < dealt'[j].nth
  <2>1. i \in 1..L
    BY <1>6, <1>10
  <2>2. CASE j = L + 1
    <3>1. dealt[i].bucket = best /\ dealt'[i] = dealt[i] /\ dealt'[j].nth = cursor[best] + 1
      BY <1>5, <1>6, <1>10, <2>1, <2>2
    <3>2. dealt[i].nth <= cursor[best] /\ dealt[i].nth \in Nat /\ cursor[best] \in Nat
      BY <1>2, <1>3, <1>6, <2>1, <3>1 DEF SlotsClimb
    <3> QED BY <3>1, <3>2
  <2>3. CASE j \in 1..L
    <3>1. dealt'[i] = dealt[i] /\ dealt'[j] = dealt[j]
      BY <1>6, <2>1, <2>3
    <3> QED BY <1>6, <1>10, <2>1, <2>3, <3>1 DEF SlotsClimb
  <2> QED BY <1>8, <2>2, <2>3
<1> QED BY <1>1, <1>6, <1>9, <1>10 DEF SlotsClimb

\* What is in the buckets that stand.
LEMMA BucketsAreListed ==
    ASSUME channel \in Channels, NEW src, Stand(order, src, channel), NEW n \in DOMAIN order
    PROVE  /\ order[n].items \in Seq(AllItems)
           /\ \A i, j \in DOMAIN order[n].items : order[n].items[i] = order[n].items[j] => i = j
<1> DEFINE items == order[n].items
<1>1. CASE src[n] = 0 /\ ByRule(order[n], channel)
  <2>1. items \in Seq(AllItems)
    BY <1>1 DEF ByRule
  <2>2. CASE order[n].key \in Shows /\ InOrderOf(items, ListOf(order[n].key))
    <3> DEFINE list == ListOf(order[n].key)
    <3>1. list \in Seq(AllItems) /\ \A i, j \in DOMAIN list : list[i] = list[j] => i = j
      BY <2>2, LibraryIsListed DEF ListsOnce
    <3> HIDE DEF items, list
    <3>2. IsInjective(list)
      BY <3>1 DEF IsInjective
    <3>3. InOrderOf(items, list)
      BY <2>2 DEF list
    <3>4. \A i, j \in DOMAIN items : items[i] = items[j] => i = j
      BY <2>1, <3>1, <3>2, <3>3, OnceEach
    <3> QED BY <2>1, <3>4 DEF items
  <2>3. CASE InOrderOf(items, SectionFilms)
    <3>1. SectionFilms \in Seq(AllItems) /\ IsInjective(SectionFilms)
      BY SectionIsListed DEF IsInjective
    <3> HIDE DEF items
    <3>2. \A i, j \in DOMAIN items : items[i] = items[j] => i = j
      BY <2>1, <2>3, <3>1, OnceEach
    <3> QED BY <2>1, <3>2 DEF items
  <2> QED BY <1>1, <2>2, <2>3 DEF ByRule
<1>2. ASSUME NEW what, ByMember(order[n], what, channel)
      PROVE  /\ items \in Seq(AllItems)
             /\ \A i, j \in DOMAIN items : items[i] = items[j] => i = j
  <2> DEFINE list == Whole(what)
  <2>1. /\ items \in Seq(AllItems \ seen) /\ InOrderOf(items, list)
        /\ what \in Shows \cup Films \cup Collections
    BY <1>2 DEF ByMember
  <2>2. list \in Seq(AllItems) /\ \A i, j \in DOMAIN list : list[i] = list[j] => i = j
    BY <2>1, WholeIsListed DEF ListsOnce
  <2> HIDE DEF items, list
  <2>3. IsInjective(list)
    BY <2>2 DEF IsInjective
  <2>4. \A i, j \in DOMAIN items : items[i] = items[j] => i = j
    BY <2>1, <2>2, <2>3, OnceEach
  <2>5. items \in Seq(AllItems)
    BY <2>1
  <2> QED BY <2>4, <2>5 DEF items
<1>3. (src[n] = 0 /\ ByRule(order[n], channel)) \/ (\E what : ByMember(order[n], what, channel))
  BY DEF Stand
<1> QED BY <1>1, <1>2, <1>3

LEMMA RotationStarts == RotationInit => RotationInv
<1> SUFFICES ASSUME RotationInit PROVE RotationInv
  OBVIOUS
<1>1. channel \in Channels /\ order = << >> /\ credit = << >> /\ cursor = << >> /\ dealt = << >>
  BY DEF RotationInit
<1> QED BY <1>1, NothingStands DEF RotationInv

LEMMA RotationKeeps == RotationInv /\ [RotationNext]_rotationVars => RotationInv'
<1> SUFFICES ASSUME RotationInv, [RotationNext]_rotationVars PROVE RotationInv'
  OBVIOUS
<1>1. /\ channel \in Channels /\ WalkTypes /\ CreditIsOwed /\ SlotsClimb
      /\ \E src : Stand(order, src, channel)
  BY DEF RotationInv
<1>2. CASE PoolBuilt
  <2>1. /\ order' \in Orders(ChannelBuckets(channel)) /\ credit' = [n \in DOMAIN order' |-> 0]
        /\ cursor' = credit' /\ dealt' = << >> /\ channel' = channel /\ seen' = seen
    BY <1>2 DEF PoolBuilt
  <2>2. order' \in Seq(Range(order')) /\ \E src : Stand(order', src, channel)
    BY <1>1, <2>1, ShuffledStand
  <2>3. WalkTypes' /\ CreditIsOwed' /\ SlotsClimb'
    <3>1. (order \in Seq(Range(order)) /\ credit = [n \in DOMAIN order |-> 0] /\ cursor = credit
            /\ dealt = << >>)'
      BY <2>1, <2>2
    <3> QED BY <3>1, NothingDealt, PTL
  <2>4. \E src : Stand(order, src, channel)'
    BY <2>1, <2>2, StandGoesOn
  <2> QED BY <1>1, <2>1, <2>3, <2>4 DEF RotationInv
<1>3. CASE SlotDealt
  <2>1. channel' = channel /\ seen' = seen /\ order' = order
    BY <1>3 DEF SlotDealt
  <2>2. PICK src : Stand(order, src, channel)
    BY <1>1
  <2>3. Stand(order, src, channel)'
    BY <2>1, <2>2, StandGoesOn
  <2>4. \A b \in DOMAIN order : Len(order[b].items) \in Nat
    BY <1>1, <2>2, BucketsAreListed, LenProperties
  <2>5. WalkTypes' /\ CreditIsOwed' /\ SlotsClimb'
    BY <1>1, <1>3, <2>4, SlotTypes, SlotKeepsCredit, SlotClimbs
  <2> QED BY <1>1, <2>1, <2>3, <2>5 DEF RotationInv
<1>4. CASE LineupDealt \/ UNCHANGED rotationVars
  <2>1. UNCHANGED <<channel, seen, order, credit, cursor, dealt>>
    BY <1>4 DEF LineupDealt, rotationVars
  <2>2. \E src : Stand(order, src, channel)'
    BY <1>1, <2>1, StandGoesOn
  <2>3. WalkTypes' /\ SlotsClimb'
    BY <1>1, <2>1 DEF WalkTypes, SlotsClimb
  <2>4. Weights' = Weights /\ (\A b : CountOf(b)' = CountOf(b)) /\ LiveNow' = LiveNow
    BY <2>1 DEF Weights, CountOf, LiveNow, Sizes
  <2>5. RoundWeight' = RoundWeight /\ NoneRanDry' = NoneRanDry
    BY <2>1, <2>4 DEF RoundWeight, NoneRanDry
  <2>6. CreditIsOwed'
    BY <1>1, <2>1, <2>4, <2>5 DEF CreditIsOwed
  <2> QED BY <1>1, <2>1, <2>2, <2>3, <2>6 DEF RotationInv
<1>5. CASE Watches
  <2>1. (order = << >> /\ credit = << >> /\ cursor = << >> /\ dealt = << >>)' /\ channel' = channel
    BY <1>5 DEF Watches
  <2>2. (WalkTypes /\ CreditIsOwed /\ SlotsClimb /\ \E src : Stand(order, src, channel))'
    BY <2>1, NothingStands, PTL
  <2> QED BY <1>1, <2>1, <2>2 DEF RotationInv
<1> QED BY <1>2, <1>3, <1>4, <1>5 DEF RotationNext

\* What is in a bucket that stands is a member's, a show's of the rule pool, or its section's.
LEMMA WhoseItIs ==
    ASSUME channel \in Channels, NEW src, Stand(order, src, channel), NEW n \in DOMAIN order,
           NEW item \in Range(order[n].items)
    PROVE  \/ /\ src[n] \in DOMAIN MembersOf(channel) /\ channel.members # << >>
              /\ order[n].key = MembersOf(channel)[src[n]].what
              /\ item \in Range(Whole(order[n].key)) /\ item.of \in Taken(channel)
              /\ InOrderOf(order[n].items, Whole(order[n].key)) /\ item \notin seen
           \/ /\ src[n] = 0 /\ order[n].key \in Shows /\ item.of = order[n].key
              /\ channel.members # << >> => order[n].key \notin Taken(channel)
              /\ Replays(order[n].items, order[n].key, channel)
           \/ /\ src[n] = 0 /\ order[n].key = SectionKey /\ channel.hasItems
              /\ item.of \in Films \cap Range(Shorts)
              /\ Replays(order[n].items, order[n].key, channel)
<1> DEFINE b == order[n]
<1>1. PICK p \in DOMAIN b.items : b.items[p] = item
  BY DEF Range
<1> HIDE DEF b
<1>2. ASSUME src[n] \in DOMAIN MembersOf(channel), ByMember(b, MembersOf(channel)[src[n]].what, channel)
      PROVE  /\ channel.members # << >> /\ b.key = MembersOf(channel)[src[n]].what
             /\ item \in Range(Whole(b.key)) /\ item.of \in Taken(channel)
             /\ InOrderOf(b.items, Whole(b.key)) /\ item \notin seen
  <2>1. /\ channel.members # << >> /\ b.key = MembersOf(channel)[src[n]].what
        /\ b.key \in Shows \cup Films \cup Collections /\ Speaks(b.key) \subseteq Taken(channel)
        /\ b.items \in Seq(AllItems \ seen) /\ InOrderOf(b.items, Whole(b.key))
    BY <1>2 DEF ByMember
  <2>2. PICK q \in DOMAIN Whole(b.key) : Whole(b.key)[q] = item
    BY <1>1, <2>1 DEF InOrderOf
  <2>3. item \in Range(Whole(b.key)) /\ item.of \in Speaks(b.key)
    BY <2>1, <2>2, WholeIsListed DEF Range, ListsOnce
  <2>4. item \notin seen
    <3>1. DOMAIN b.items = 1..Len(b.items) /\ \A k \in 1..Len(b.items) : b.items[k] \in AllItems \ seen
      BY <2>1, LenProperties, ElementOfSeq
    <3> QED BY <1>1, <3>1
  <2> QED BY <2>1, <2>3, <2>4
<1>3. ASSUME ByRule(b, channel)
      PROVE  /\ Replays(b.items, b.key, channel)
             /\ \/ b.key \in Shows /\ item.of = b.key
                \/ b.key = SectionKey /\ channel.hasItems /\ item.of \in Films \cap Range(Shorts)
  <2>1. CASE b.key \in Shows /\ InOrderOf(b.items, ListOf(b.key))
    <3>1. PICK q \in DOMAIN ListOf(b.key) : ListOf(b.key)[q] = item
      BY <1>1, <2>1 DEF InOrderOf
    <3>2. item.of = b.key
      BY <2>1, <3>1, LibraryIsListed DEF ListsOnce
    <3> QED BY <1>3, <2>1, <3>2 DEF ByRule
  <2>2. CASE b.key = SectionKey /\ channel.hasItems /\ InOrderOf(b.items, SectionFilms)
    <3>1. PICK q \in DOMAIN SectionFilms : SectionFilms[q] = item
      BY <1>1, <2>2 DEF InOrderOf
    <3>2. item.of \in Films \cap Range(Shorts)
      BY <3>1, SectionIsListed
    <3> QED BY <1>3, <2>2, <3>2 DEF ByRule
  <2> QED BY <1>3, <2>1, <2>2 DEF ByRule
<1>4. \/ src[n] = 0 /\ ByRule(b, channel) /\ (channel.members # << >> => b.key \notin Taken(channel))
      \/ src[n] \in DOMAIN MembersOf(channel) /\ ByMember(b, MembersOf(channel)[src[n]].what, channel)
  BY DEF Stand, b
<1> QED BY <1>2, <1>3, <1>4 DEF b

LEMMA SlotsDealItems ==
    ASSUME WalkTypes, SlotsClimb, NEW i \in DOMAIN dealt
    PROVE  /\ dealt[i].bucket \in DOMAIN order /\ i \in Nat
           /\ (\A b \in DOMAIN order : order[b].items \in Seq(AllItems)) =>
                /\ dealt[i].nth \in DOMAIN order[dealt[i].bucket].items
                /\ dealt[i].nth \in Nat
                /\ ItemAt(i) \in Range(order[dealt[i].bucket].items)
<1>1. dealt[i].bucket \in DOMAIN order /\ i \in Nat
  <2> DEFINE S == [bucket : DOMAIN order, nth : Nat]
  <2>1. \A x \in S : x.bucket \in DOMAIN order
    OBVIOUS
  <2>2. dealt \in Seq(S)
    BY DEF WalkTypes
  <2> HIDE DEF S
  <2>3. dealt[i] \in S /\ i \in Nat
    BY <2>2, ElementOfSeq, LenProperties
  <2> QED BY <2>1, <2>3
<1>2. ASSUME \A b \in DOMAIN order : order[b].items \in Seq(AllItems)
      PROVE  /\ dealt[i].nth \in DOMAIN order[dealt[i].bucket].items
             /\ dealt[i].nth \in Nat
             /\ ItemAt(i) \in Range(order[dealt[i].bucket].items)
  <2> DEFINE items == order[dealt[i].bucket].items
  <2>1. items \in Seq(AllItems)
    BY <1>1, <1>2
  <2>2. dealt[i].nth \in 1..Len(items)
    BY DEF SlotsClimb
  <2>3. ItemAt(i) = items[dealt[i].nth]
    BY DEF ItemAt
  <2> HIDE DEF items
  <2>4. dealt[i].nth \in DOMAIN items /\ dealt[i].nth \in Nat
    BY <2>1, <2>2, LenProperties
  <2>5. ItemAt(i) \in Range(items)
    BY <2>3, <2>4 DEF Range
  <2> QED BY <2>4, <2>5 DEF items
<1> QED BY <1>1, <1>2

LEMMA DealsOnce == RotationInv => DealtOnce
<1> SUFFICES ASSUME RotationInv, NEW i \in DOMAIN dealt, NEW j \in DOMAIN dealt, i # j,
                    ItemAt(i) = ItemAt(j)
             PROVE  dealt[i].bucket # dealt[j].bucket /\ IsContested(ItemAt(i))
  BY DEF DealtOnce
<1>1. channel \in Channels /\ WalkTypes /\ SlotsClimb
  BY DEF RotationInv
<1>2. PICK src : Stand(order, src, channel)
  BY DEF RotationInv
<1>3. \A b \in DOMAIN order : order[b].items \in Seq(AllItems)
  BY <1>1, <1>2, BucketsAreListed
<1> DEFINE m == dealt[i].bucket
           n == dealt[j].bucket
           item == ItemAt(i)
<1>4. /\ m \in DOMAIN order /\ n \in DOMAIN order /\ i \in Nat /\ j \in Nat
      /\ dealt[i].nth \in DOMAIN order[m].items /\ dealt[j].nth \in DOMAIN order[n].items
      /\ dealt[i].nth \in Nat /\ dealt[j].nth \in Nat
      /\ item \in Range(order[m].items) /\ item \in Range(order[n].items)
  BY <1>1, <1>3, SlotsDealItems
<1>5. m # n
  <2> SUFFICES ASSUME m = n PROVE FALSE
    OBVIOUS
  <2>1. order[m].items[dealt[i].nth] = order[m].items[dealt[j].nth]
    BY DEF ItemAt
  <2>2. dealt[i].nth = dealt[j].nth
    BY <1>1, <1>2, <1>4, <2>1, BucketsAreListed
  <2>3. (i < j => dealt[i].nth < dealt[j].nth) /\ (j < i => dealt[j].nth < dealt[i].nth)
    BY <1>1 DEF SlotsClimb
  <2> QED BY <1>4, <2>2, <2>3
<1> HIDE DEF m, n, item
<1>6. IsContested(item)
  <2> DEFINE M == MembersOf(channel)
             Owned(k) == /\ src[k] \in DOMAIN M /\ channel.members # << >>
                         /\ item \in Range(Whole(M[src[k]].what)) /\ item.of \in Taken(channel)
             OfShow(k) == /\ src[k] = 0 /\ order[k].key \in Shows /\ item.of = order[k].key
                          /\ channel.members # << >> => item.of \notin Taken(channel)
             OfSection(k) == /\ src[k] = 0 /\ order[k].key = SectionKey /\ channel.hasItems
                             /\ item.of \in Films \cap Range(Shorts)
  <2>1. Owned(m) \/ OfShow(m) \/ OfSection(m)
    BY <1>1, <1>2, <1>4, WhoseItIs
  <2>2. Owned(n) \/ OfShow(n) \/ OfSection(n)
    BY <1>1, <1>2, <1>4, WhoseItIs
  <2>3. src[m] = src[n] => src[m] = 0 /\ order[m].key # order[n].key
    BY <1>2, <1>4, <1>5 DEF Stand
  <2>4. DOMAIN M \subseteq Nat \ {0}
    BY <1>1, MembersAreListed
  <2>5. Shows \cap Films = {}
    BY LibraryIsListed
  <2> DEFINE Claims(k) == item \in Range(Whole(M[k].what))
  <2>6. \E k, l \in DOMAIN M :
            /\ Claims(l)
            /\ \/ k # l /\ Claims(k)
               \/ channel.hasItems /\ item.of \in Range(Shorts)
    <3>1. CASE Owned(m) /\ Owned(n)
      <4>1. /\ src[m] \in DOMAIN M /\ src[n] \in DOMAIN M
            /\ Claims(src[m]) /\ Claims(src[n])
        BY <3>1
      <4>2. src[m] # src[n]
        BY <2>3, <2>4, <4>1
      <4> DEFINE k == src[n]
                 l == src[m]
      <4>3. k \in DOMAIN M /\ l \in DOMAIN M /\ Claims(l) /\ Claims(k) /\ k # l
        BY <4>1, <4>2
      <4> HIDE DEF k, l, M
      <4> QED BY <4>3
    <3>2. CASE Owned(m) /\ OfSection(n)
      BY <3>2
    <3>3. CASE OfSection(m) /\ Owned(n)
      BY <3>3
    <3> QED BY <2>1, <2>2, <2>3, <2>5, <3>1, <3>2, <3>3
  <2> HIDE DEF M
  <2> QED BY <2>6 DEF IsContested, M
<1> QED BY <1>5, <1>6 DEF m, n, item

LEMMA KeepsCollectionsInOrder == RotationInv => CollectionPlaysInOrder
<1> SUFFICES ASSUME RotationInv, ~channel.split, NEW c \in {d.what : d \in Range(channel.members)} \cap Collections,
                    NEW j \in DOMAIN dealt, ItemAt(j) \in Range(Whole(c)), ~IsContested(ItemAt(j))
             PROVE  /\ KeyAt(j) = c
                    /\ \A i \in DOMAIN dealt : i < j /\ dealt[i].bucket = dealt[j].bucket =>
                         \E p, q \in DOMAIN Whole(c) :
                            p < q /\ Whole(c)[p] = ItemAt(i) /\ Whole(c)[q] = ItemAt(j)
  BY DEF CollectionPlaysInOrder
<1>1. channel \in Channels /\ WalkTypes /\ SlotsClimb
  BY DEF RotationInv
<1>2. PICK src : Stand(order, src, channel)
  BY DEF RotationInv
<1>3. \A b \in DOMAIN order : order[b].items \in Seq(AllItems)
  BY <1>1, <1>2, BucketsAreListed
<1> DEFINE M == MembersOf(channel)
           item == ItemAt(j)
           n == dealt[j].bucket
           Claims(k) == item \in Range(Whole(M[k].what))
<1>4. PICK d \in Range(channel.members) : d.what = c
  OBVIOUS
<1>5. PICK k \in DOMAIN M : M[k].what = c
  BY <1>1, <1>4, MembersAreListed
<1>6. \A l \in DOMAIN M : l # k => ~Claims(l)
  BY <1>5 DEF IsContested
<1>7. ~(channel.hasItems /\ item.of \in Range(Shorts))
  BY <1>5 DEF IsContested
<1>8. item.of \in Taken(channel) /\ channel.members # << >>
  <2>1. PICK q \in DOMAIN Whole(c) : Whole(c)[q] = item
    BY DEF Range
  <2>2. item.of \in Range(Children[c])
    BY <2>1, WholeIsListed DEF ListsOnce, Speaks
  <2>3. Range(Children[d.what]) \subseteq Cover(channel)
    BY <1>4 DEF Cover
  <2>4. channel.members # << >>
    BY <1>4 DEF Range
  <2> QED BY <1>4, <2>2, <2>3, <2>4 DEF Taken
<1>9. n \in DOMAIN order /\ item \in Range(order[n].items)
  BY <1>1, <1>3, SlotsDealItems
<1>10. src[n] = k /\ order[n].key = c /\ InOrderOf(order[n].items, Whole(c))
  <2>1. /\ src[n] \in DOMAIN M /\ order[n].key = M[src[n]].what
        /\ item \in Range(Whole(order[n].key)) /\ InOrderOf(order[n].items, Whole(order[n].key))
    <3> HIDE DEF M, item, n
    <3> QED BY <1>1, <1>2, <1>7, <1>8, <1>9, WhoseItIs DEF M
  <2> QED BY <1>5, <1>6, <2>1
<1>11. ASSUME NEW i \in DOMAIN dealt, i < j, dealt[i].bucket = n
       PROVE  \E p, q \in DOMAIN Whole(c) : p < q /\ Whole(c)[p] = ItemAt(i) /\ Whole(c)[q] = item
  <2>1. dealt[i].nth < dealt[j].nth
    BY <1>1, <1>11 DEF SlotsClimb
  <2>2. dealt[i].nth \in DOMAIN order[n].items /\ dealt[j].nth \in DOMAIN order[n].items
    BY <1>1, <1>3, <1>11, SlotsDealItems
  <2>3. ItemAt(i) = order[n].items[dealt[i].nth] /\ item = order[n].items[dealt[j].nth]
    BY <1>11 DEF ItemAt
  <2> QED BY <1>10, <2>1, <2>2, <2>3 DEF InOrderOf
<1> QED BY <1>10, <1>11 DEF KeyAt

LEMMA ReplaysTheFinished == RotationInv => OnlyFinishedReplays
<1> SUFFICES ASSUME RotationInv, NEW n \in DOMAIN order, NEW item \in Range(order[n].items), item \in seen
             PROVE  /\ Range(order[n].items) \subseteq seen
                    /\ LET own == IF order[n].key \in DOMAIN channel.completes
                                  THEN channel.completes[order[n].key] ELSE "absent"
                       IN  own = "restart" \/ (own \notin {"restart", "drop"} /\ channel.restarts)
  BY DEF OnlyFinishedReplays
<1>1. PICK src : channel \in Channels /\ Stand(order, src, channel)
  BY DEF RotationInv
<1>2. Replays(order[n].items, order[n].key, channel)
  BY <1>1, WhoseItIs
<1>3. Range(order[n].items) \subseteq seen /\ Restarts(channel, order[n].key)
  BY <1>2 DEF Replays
<1> QED BY <1>3 DEF Restarts

-----------------------------------------------------------------------------
(* Whatever the library, the channel, the weights and what was watched: a   *)
(* lineup has each item once, and one that two sources have once for each;  *)
(* a collection in its order; no bucket more than its weight's share; and   *)
(* nothing again but what restarts (rotation.ts, weight.ts, select.ts).    *)
THEOREM LineupsStayFair == RotationSpec => []DealKeepsTheRules
<1>1. RotationInv => DealKeepsTheRules
  <2>1. RotationInv => SharesAreKept
    BY OwedIsInBounds DEF RotationInv
  <2> QED BY <2>1, DealsOnce, KeepsCollectionsInOrder, ReplaysTheFinished DEF DealKeepsTheRules
<1> QED BY <1>1, RotationStarts, RotationKeeps, PTL DEF RotationSpec

-----------------------------------------------------------------------------
(***************************************************************************)
(* The tiles.  What a list begins with, and what a list of lists does.     *)
LEMMA AtMostOne ==
    ASSUME NEW T, NEW s \in Seq(T)
    PROVE  AtMost(s, 1) = IF s = << >> THEN << >> ELSE <<s[1]>>
<1>1. Len(s) \in Nat /\ DOMAIN s = 1..Len(s) /\ (s # << >> => Len(s) # 0)
  BY LenProperties, EmptySeq
<1>2. CASE s = << >>
  <2>1. AtMost(s, 1) = SubSeq(s, 1, 0)
    BY <1>2 DEF AtMost
  <2>2. SubSeq(s, 1, 0) = << >>
    BY SubSeqEmpty
  <2> QED BY <1>2, <2>1, <2>2
<1>3. CASE s # << >>
  <2>1. AtMost(s, 1) = SubSeq(s, 1, 1)
    BY <1>1, <1>3 DEF AtMost
  <2>2. \A i \in 1..1 : s[i] \in T
    BY <1>1, <1>3, ElementOfSeq
  <2>3. /\ SubSeq(s, 1, 1) \in Seq(T) /\ Len(SubSeq(s, 1, 1)) = 1
        /\ SubSeq(s, 1, 1)[1] = s[1]
    <3>1. /\ SubSeq(s, 1, 1) \in Seq(T)
          /\ Len(SubSeq(s, 1, 1)) = IF 1 <= 1 THEN 1 - 1 + 1 ELSE 0
          /\ \A i \in 1..1 - 1 + 1 : SubSeq(s, 1, 1)[i] = s[1 + i - 1]
      BY <2>2, SubSeqProperties
    <3> QED BY <3>1
  <2> DEFINE t == SubSeq(s, 1, 1)
             x == s[1]
  <2> HIDE DEF t, x
  <2>4. t \in Seq(T) /\ Len(t) = 1 /\ t[1] = x
    BY <2>3 DEF t, x
  <2>5. t = <<x>>
    BY <2>4, LenProperties
  <2> QED BY <1>3, <2>1, <2>5 DEF t, x
<1> QED BY <1>2, <1>3

\* Two lists that begin with the same, or are both empty.
SameHead(s, t) == (s = << >> <=> t = << >>) /\ (s # << >> => s[1] = t[1])

LEMMA HeadsAreOne ==
    ASSUME NEW T, NEW s \in Seq(T), NEW t \in Seq(T), SameHead(s, t)
    PROVE  AtMost(s, 1) = AtMost(t, 1)
BY AtMostOne DEF SameHead

LEMMA OneIsTheHead ==
    ASSUME NEW T, NEW s \in Seq(T)
    PROVE  AtMost(s, 1) \in Seq(T) /\ SameHead(AtMost(s, 1), s)
<1> DEFINE one == AtMost(s, 1)
<1>1. one = IF s = << >> THEN << >> ELSE <<s[1]>>
  BY AtMostOne
<1> HIDE DEF one
<1>2. s # << >> => s[1] \in T
  <2>1. s # << >> => 1 \in 1..Len(s)
    BY EmptySeq
  <2> QED BY <2>1, ElementOfSeq
<1>3. one \in Seq(T)
  BY <1>1, <1>2
<1>4. SameHead(one, s)
  BY <1>1 DEF SameHead
<1> QED BY <1>3, <1>4 DEF one

LEMMA FlattenHeads ==
    ASSUME NEW T, NEW n \in Nat, NEW xs \in [1..n -> Seq(T)], NEW ys \in [1..n -> Seq(T)],
           \A k \in 1..n : SameHead(xs[k], ys[k])
    PROVE  SameHead(FlattenSeq(xs), FlattenSeq(ys))
<1> DEFINE X == FlattenSeq(xs)
           Y == FlattenSeq(ys)
<1>1. /\ X = << >> <=> \A k \in 1..n : xs[k] = << >>
      /\ \A k \in 1..n : xs[k] # << >> /\ (\A j \in 1..k - 1 : xs[j] = << >>) => X[1] = xs[k][1]
  BY FlattenHead
<1>2. /\ Y = << >> <=> \A k \in 1..n : ys[k] = << >>
      /\ \A k \in 1..n : ys[k] # << >> /\ (\A j \in 1..k - 1 : ys[j] = << >>) => Y[1] = ys[k][1]
  BY FlattenHead
<1> HIDE DEF X, Y
<1>3. \A k \in 1..n : (xs[k] = << >> <=> ys[k] = << >>) /\ (xs[k] # << >> => xs[k][1] = ys[k][1])
  BY DEF SameHead
<1>4. X = << >> <=> Y = << >>
  BY <1>1, <1>2, <1>3
<1>5. ASSUME X # << >> PROVE X[1] = Y[1]
  <2> DEFINE some == {k \in 1..n : xs[k] # << >>}
  <2>1. some # {} /\ some \subseteq Nat
    <3>1. some \subseteq Nat
      OBVIOUS
    <3>2. ~ \A k \in 1..n : xs[k] = << >>
      BY <1>1, <1>5
    <3>3. \E k : k \in some
      BY <3>2
    <3> QED BY <3>1, <3>3
  <2> HIDE DEF some
  <2>2. PICK k \in some : \A j \in some : ~(j < k)
    BY <2>1, LeastNumber
  <2>3. k \in 1..n /\ xs[k] # << >>
    BY <2>2 DEF some
  <2>4. \A j \in 1..k - 1 : j \in 1..n /\ j < k
    BY <2>3
  <2>5. \A j \in 1..k - 1 : xs[j] = << >>
    BY <2>2, <2>4 DEF some
  <2> QED BY <1>1, <1>2, <1>3, <2>3, <2>4, <2>5
<1> QED BY <1>4, <1>5 DEF SameHead, X, Y

-----------------------------------------------------------------------------
(* What an entry has left, and the batch of it.                            *)
Tiles == [item : AllItems, member : Shows \cup Films]

LEMMA TaggedIsAList ==
    ASSUME NEW items \in Seq(AllItems), NEW child \in Shows \cup Films
    PROVE  /\ Tagged(items, child) \in Seq(Tiles)
           /\ items = << >> <=> Tagged(items, child) = << >>
           /\ items # << >> => Tagged(items, child)[1] = [item |-> items[1], member |-> child]
<1>1. /\ DOMAIN items = 1..Len(items) /\ Len(items) \in Nat
      /\ \A n \in 1..Len(items) : items[n] \in AllItems
      /\ (items # << >> => Len(items) # 0) /\ (items = << >> => Len(items) = 0)
  BY LenProperties, ElementOfSeq, EmptySeq
<1>2. Tagged(items, child) \in [1..Len(items) -> Tiles]
  BY <1>1 DEF Tagged, Tiles
<1>3. Tagged(items, child) \in Seq(Tiles) /\ Len(Tagged(items, child)) = Len(items)
  <2> DEFINE t == Tagged(items, child)
  <2> HIDE DEF t
  <2>1. t \in [1..Len(items) -> Tiles]
    BY <1>2 DEF t
  <2>2. t \in Seq(Tiles)
    BY <1>1, <2>1, SeqDef
  <2>3. DOMAIN t = 1..Len(t) /\ Len(t) \in Nat /\ DOMAIN t = 1..Len(items)
    BY <2>1, <2>2, LenProperties
  <2>4. Len(t) = Len(items)
    <3>1. Len(items) \in Nat
      BY <1>1
    <3>2. 1..Len(t) = 1..Len(items)
      BY <2>3
    <3> DEFINE a == Len(t)
               b == Len(items)
    <3>3. a \in Nat /\ b \in Nat /\ 1..a = 1..b
      BY <2>3, <3>1, <3>2
    <3> HIDE DEF a, b
    <3>4. ~(a < b)
      <4>1. a < b => b \in 1..b /\ b \notin 1..a
        BY <3>3
      <4> QED BY <3>3, <4>1
    <3>5. ~(b < a)
      <4>1. b < a => a \in 1..a /\ a \notin 1..b
        BY <3>3
      <4> QED BY <3>3, <4>1
    <3> QED BY <3>3, <3>4, <3>5 DEF a, b
  <2> QED BY <2>2, <2>4 DEF t
<1>4. Tagged(items, child) # << >> => Len(Tagged(items, child)) # 0
  BY <1>3, EmptySeq
<1>5. Len(items) # 0 => 1 \in DOMAIN items
  BY <1>1
<1>6. 1 \in DOMAIN items => Tagged(items, child)[1] = [item |-> items[1], member |-> child]
  BY DEF Tagged
<1>7. Tagged(items, child) = << >> => Len(Tagged(items, child)) = 0
  OBVIOUS
<1> QED BY <1>1, <1>3, <1>4, <1>5, <1>6, <1>7

LEMMA TagsTheHead ==
    ASSUME NEW items \in Seq(AllItems), NEW child \in Shows \cup Films
    PROVE  Tagged(AtMost(items, 1), child) = AtMost(Tagged(items, child), 1)
<1> DEFINE all == Tagged(items, child)
<1>1. /\ all \in Seq(Tiles)
      /\ items = << >> <=> all = << >>
      /\ items # << >> => all[1] = [item |-> items[1], member |-> child]
  BY TaggedIsAList
<1>2. AtMost(items, 1) = IF items = << >> THEN << >> ELSE <<items[1]>>
  BY AtMostOne
<1> HIDE DEF all
<1>3. AtMost(all, 1) = IF all = << >> THEN << >> ELSE <<all[1]>>
  BY <1>1, AtMostOne
<1>4. Tagged(<< >>, child) = << >>
  BY DEF Tagged
<1>5. ASSUME NEW x PROVE Tagged(<<x>>, child) = <<[item |-> x, member |-> child]>>
  BY DEF Tagged
<1>6. Tagged(AtMost(items, 1), child) = AtMost(all, 1)
  <2>1. CASE items = << >>
    BY <1>1, <1>2, <1>3, <1>4, <2>1
  <2>2. CASE items # << >>
    <3>1. Tagged(<<items[1]>>, child) = <<[item |-> items[1], member |-> child]>>
      BY <1>5
    <3> QED BY <1>1, <1>2, <1>3, <2>2, <3>1
  <2> QED BY <2>1, <2>2
<1> QED BY <1>6 DEF all

\* What the library lists of a show begins its episodes.
AiringIsListed ==
    aired \in [Shows -> Nat] /\ \A show \in Shows : aired[show] <= Len(Episodes[show])

LEMMA ListedIsAList ==
    ASSUME AiringIsListed, NEW show \in Shows
    PROVE  /\ Listed[show] \in Seq(AllItems)
           /\ \A ep \in Range(Listed[show]) : ep.of = show /\ ep.kind \in Kinds
<1> DEFINE eps == Episodes[show]
           m == aired[show]
           T == {ep \in Range(eps) : ep.of = show /\ ep.kind \in Kinds}
           list == SubSeq(eps, 1, m)
<1>1. eps \in Seq(T)
  BY LibraryAssumption DEF IsListing
<1>2. Listed[show] = list
  BY DEF Listed
<1>3. m \in Nat /\ m <= Len(eps)
  BY DEF AiringIsListed
<1>4. \A ep \in T : ep \in AllItems /\ ep.of = show /\ ep.kind \in Kinds
  BY DEF AllItems
<1> HIDE DEF m, eps, T
<1>5. list \in Seq(T)
  <2>1. \A i \in 1..m : eps[i] \in T
    BY <1>1, <1>3, ElementOfSeq, LenProperties
  <2> QED BY <1>3, <2>1, SubSeqProperties
<1> HIDE DEF list
<1>6. \A i \in DOMAIN list : list[i] \in T
  BY <1>5, ElementOfSeq, LenProperties
<1>7. list \in Seq(AllItems)
  BY <1>4, <1>5
<1>8. \A ep \in Range(list) : ep \in T
  BY <1>6 DEF Range
<1> QED BY <1>2, <1>4, <1>7, <1>8

LEMMA ShowLeftIsAList ==
    ASSUME AiringIsListed, NEW show \in Shows, NEW start
    PROVE  ShowLeft(show, Listed, recipe, Views, start, TRUE) \in Seq(AllItems)
<1>1. Listed[show] \in Seq(AllItems)
  BY ListedIsAList
<1> QED BY <1>1, OnlyIsAList DEF ShowLeft

\* What is in progress is not what the queue's account has finished.
StartedIsUnfinished == started \cap mine = {}

LEMMA ReadsTheSame ==
    ASSUME AiringIsListed, StartedIsUnfinished, OneViewer, ~recipe.specials,
           NEW show \in Shows, ~OnlyPlaceholders(show), NEW start, IsWhole(start)
    PROVE  NextEpisode(show, start, {})
             = AtMost(Tagged(ShowLeft(show, Listed, recipe, Views, start, TRUE), show), 1)
<1> DEFINE eps == Listed[show]
           Waits(ep) == IsPlayable(eps, ep) /\ ep \notin mine /\ AtOrAfterFloor(ep, start)
           specialsOk == TRUE /\ ~HasRealSeasons(eps)
           Plays(ep) == /\ Wanted(ep, Views, TRUE)
                        /\ Keeps(ep, recipe, specialsOk) /\ AtOrAfter(ep, start)
           A == {ep \in Range(eps) : Waits(ep)}
           B == {ep \in Range(eps) : Plays(ep)}
           left == Only(eps, B)
<1>1. eps \in Seq(AllItems) /\ \A ep \in Range(eps) : ep.kind \in Kinds
  BY ListedIsAList
<1>2. ShowLeft(show, Listed, recipe, Views, start, TRUE) = left
  BY DEF ShowLeft
<1>3. NextEpisode(show, start, {}) = Tagged(AtMost(Only(eps, A), 1), show)
  BY DEF NextEpisode
<1>4. ASSUME NEW ep \in Range(eps) PROVE Waits(ep) <=> Plays(ep)
  <2>1. IsCountable(ep) <=> ep.kind = "regular"
    BY <1>1 DEF IsCountable, IsExtraOrPromo, Kinds
  <2>2. Wanted(ep, Views, TRUE) <=> ep \notin mine
    BY DEF Wanted, Views, OneViewer, StartedIsUnfinished
  <2>3. AtOrAfterFloor(ep, start) <=> AtOrAfter(ep, start)
    BY DEF AtOrAfterFloor, AtOrAfter, IsWhole
  <2>4. HasRealSeasons(eps) => \E other \in Range(eps) : IsCountable(other) /\ other.season # 0
    BY DEF OnlyPlaceholders
  <2>5. (\A other \in Range(eps) : IsCountable(other) => other.season = 0) <=> ~HasRealSeasons(eps)
    <3> HIDE DEF eps
    <3> QED BY <2>4 DEF HasRealSeasons
  <2>6. IsPlayable(eps, ep) <=> Keeps(ep, recipe, specialsOk)
    BY <2>1, <2>5 DEF IsPlayable, Keeps
  <2> QED BY <2>2, <2>3, <2>6
<1>5. A = B
  BY <1>4
<1>6. left \in Seq(AllItems)
  BY <1>1, OnlyIsAList
<1> HIDE DEF left, A, B, eps
<1>7. Tagged(AtMost(left, 1), show) = AtMost(Tagged(left, show), 1)
  BY <1>6, TagsTheHead
<1>8. NextEpisode(show, start, {}) = Tagged(AtMost(left, 1), show)
  BY <1>3, <1>5 DEF left
<1> QED BY <1>2, <1>7, <1>8

LEMMA StartIsNamed ==
    ASSUME NEW children, NEW start, NEW k \in 1..Len(children), Len(children) \in Nat,
           k = StartMember(children, start)
    PROVE  start # NoStart /\ children[k] = start.series
<1> DEFINE I == {i \in 1..Len(children) : children[i] = start.series}
<1>1. StartMember(children, start) = IF start = NoStart \/ I = {} THEN 0 ELSE Min(I)
  BY DEF StartMember, SelectInSeq
<1>2. start # NoStart /\ I # {} /\ k = Min(I)
  BY <1>1
<1>3. I \subseteq Nat
  OBVIOUS
<1> HIDE DEF I
<1>4. PICK i \in I : \A j \in I : ~(j < i)
  BY <1>2, <1>3, LeastNumber
<1>5. \A j \in I : i <= j
  BY <1>3, <1>4
<1>6. Min(I) \in I
  BY <1>5 DEF Min
<1> QED BY <1>2, <1>6 DEF I

\* What is to see of one child, and what the queue has left of it.
ShowOfChild(children, k, start) ==
    ShowLeft(children[k], Listed, recipe, Views,
             IF k = StartMember(children, start) THEN start ELSE NoStart, TRUE)
LeftOfChild(children, k, start) ==
    IF k < StartMember(children, start) THEN << >>
    ELSE IF children[k] \in Shows THEN ShowOfChild(children, k, start)
    ELSE IF Wanted(Film[children[k]], Views, TRUE) THEN <<Film[children[k]]>> ELSE << >>
NextOfChild(children, k, start) ==
    IF k < StartMember(children, start) THEN << >>
    ELSE IF children[k] \in Shows
    THEN NextEpisode(children[k], FloorOf(children, k, start), {})
    ELSE IF Film[children[k]] \in mine THEN << >>
    ELSE Tagged(<<Film[children[k]]>>, children[k])

LEMMA LeftOfChildIsAList ==
    ASSUME AiringIsListed, NEW c \in Collections, NEW start, NEW k \in 1..Len(Children[c])
    PROVE  /\ LeftOfChild(Children[c], k, start) \in Seq(AllItems)
           /\ Tagged(LeftOfChild(Children[c], k, start), Children[c][k]) \in Seq(Tiles)
<1>1. Children[c][k] \in Shows \cup Films
  BY ChildrenAreListed
<1>2. Children[c][k] \in Shows => ShowOfChild(Children[c], k, start) \in Seq(AllItems)
  BY ShowLeftIsAList DEF ShowOfChild
<1>3. Children[c][k] \in Films => <<Film[Children[c][k]]>> \in Seq(AllItems)
  <2>1. Children[c][k] \in Films => Film[Children[c][k]] \in AllItems
    BY FilmsAreItems
  <2> DEFINE reel == Film[Children[c][k]]
  <2> HIDE DEF reel
  <2>2. Children[c][k] \in Films => reel \in AllItems
    BY <2>1 DEF reel
  <2>3. Children[c][k] \in Films => <<reel>> \in Seq(AllItems)
    BY <2>2
  <2> QED BY <2>3 DEF reel
<1>4. << >> \in Seq(AllItems)
  OBVIOUS
<1>5. LeftOfChild(Children[c], k, start) \in Seq(AllItems)
  BY <1>1, <1>2, <1>3, <1>4 DEF LeftOfChild
<1> QED BY <1>1, <1>5, TaggedIsAList

LEMMA CollectionLeftIsFlat ==
    ASSUME NEW c \in Collections, NEW start
    PROVE  CollectionLeft(c, Listed, recipe, Views, start, TRUE)
             = FlattenSeq([k \in 1..Len(Children[c]) |->
                             Tagged(LeftOfChild(Children[c], k, start), Children[c][k])])
<1>1. DOMAIN Children[c] = 1..Len(Children[c])
  BY ChildrenAreListed
<1> QED BY <1>1 DEF CollectionLeft, LeftOfChild, ShowOfChild

LEMMA CollectionNextIsFlat ==
    ASSUME NEW c \in Collections, NEW start
    PROVE  CollectionNext(c, start, {})
             = AtMost(FlattenSeq([k \in 1..Len(Children[c]) |-> NextOfChild(Children[c], k, start)]), 1)
<1>1. DOMAIN Children[c] = 1..Len(Children[c])
  BY ChildrenAreListed
<1> QED BY <1>1 DEF CollectionNext, NextOfChild

LEMMA ChildReadsTheSame ==
    ASSUME AiringIsListed, StartedIsUnfinished, OneViewer, ~recipe.specials,
           NEW c \in Collections, NEW start, NEW k \in 1..Len(Children[c]),
           Children[c][k] \in Shows => ~OnlyPlaceholders(Children[c][k]),
           IsWhole(start) \/ Children[c][k] \in Films \/ start.series \notin Shows
    PROVE  NextOfChild(Children[c], k, start)
             = AtMost(Tagged(LeftOfChild(Children[c], k, start), Children[c][k]), 1)
<1> DEFINE children == Children[c]
           ch == children[k]
           left == LeftOfChild(children, k, start)
           from == IF k = StartMember(children, start) THEN start ELSE NoStart
<1>1. Len(children) \in Nat /\ ch \in Shows \cup Films /\ Shows \cap Films = {}
  BY ChildrenAreListed, LibraryIsListed
<1>2. left \in Seq(AllItems)
  BY LeftOfChildIsAList
<1>3. CASE k < StartMember(children, start)
  <2>1. left = << >> /\ NextOfChild(children, k, start) = << >>
    BY <1>3 DEF LeftOfChild, NextOfChild
  <2>2. AtMost(Tagged(<< >>, ch), 1) = << >>
    <3>1. Tagged(<< >>, ch) = << >> /\ << >> \in Seq(Tiles)
      BY DEF Tagged
    <3> QED BY <3>1, AtMostOne
  <2> QED BY <2>1, <2>2
<1>4. CASE ~(k < StartMember(children, start)) /\ ch \in Shows
  <2>1. left = ShowLeft(ch, Listed, recipe, Views, from, TRUE)
    BY <1>4 DEF LeftOfChild, ShowOfChild
  <2>2. NextOfChild(children, k, start) = NextEpisode(ch, from, {})
    BY <1>4 DEF NextOfChild, FloorOf
  <2>3. IsWhole(from)
    <3>1. CASE k = StartMember(children, start)
      <4>1. children[k] = start.series
        BY <1>1, <3>1, StartIsNamed
      <4>2. IsWhole(start)
        BY <1>1, <1>4, <4>1
      <4> QED BY <3>1, <4>2
    <3>2. CASE k # StartMember(children, start)
      BY <3>2 DEF IsWhole
    <3> QED BY <3>1, <3>2
  <2>4. ~OnlyPlaceholders(ch)
    BY <1>4
  <2> HIDE DEF from, ch
  <2>5. NextEpisode(ch, from, {}) = AtMost(Tagged(ShowLeft(ch, Listed, recipe, Views, from, TRUE), ch), 1)
    BY <1>4, <2>3, <2>4, ReadsTheSame
  <2> QED BY <2>1, <2>2, <2>5 DEF ch
<1>5. CASE ~(k < StartMember(children, start)) /\ ch \notin Shows
  <2> DEFINE reel == Film[ch]
  <2>1. Wanted(reel, Views, TRUE) <=> reel \notin mine
    BY DEF Wanted, Views, OneViewer, StartedIsUnfinished
  <2>2. left = IF reel \in mine THEN << >> ELSE <<reel>>
    BY <1>5, <2>1 DEF LeftOfChild
  <2>3. NextOfChild(children, k, start) = IF reel \in mine THEN << >> ELSE Tagged(<<reel>>, ch)
    BY <1>5 DEF NextOfChild
  <2> HIDE DEF left, reel, ch, children
  <2>4. Tagged(AtMost(left, 1), ch) = AtMost(Tagged(left, ch), 1)
    BY <1>1, <1>2, TagsTheHead
  <2>5. AtMost(left, 1) = left
    <3>1. AtMost(left, 1) = IF left = << >> THEN << >> ELSE <<left[1]>>
      BY <1>2, AtMostOne
    <3>2. left = << >> \/ left = <<left[1]>>
      BY <2>2
    <3> QED BY <3>1, <3>2
  <2>6. Tagged(<< >>, ch) = << >>
    BY DEF Tagged
  <2>7. NextOfChild(children, k, start) = AtMost(Tagged(left, ch), 1)
    BY <2>2, <2>3, <2>4, <2>5, <2>6
  <2> QED BY <2>7 DEF left, ch, children
<1> QED BY <1>3, <1>4, <1>5

LEMMA CollectionReadsTheSame ==
    ASSUME AiringIsListed, StartedIsUnfinished, OneViewer, ~recipe.specials,
           NEW c \in Collections, NEW start,
           \A show \in Range(Children[c]) \cap Shows : ~OnlyPlaceholders(show),
           IsWhole(start) \/ Range(Children[c]) \subseteq Films \/ start.series \notin Shows
    PROVE  CollectionNext(c, start, {})
             = AtMost(CollectionLeft(c, Listed, recipe, Views, start, TRUE), 1)
<1> DEFINE n == Len(Children[c])
           xs == [k \in 1..n |-> NextOfChild(Children[c], k, start)]
           ys == [k \in 1..n |-> Tagged(LeftOfChild(Children[c], k, start), Children[c][k])]
<1>1. n \in Nat /\ DOMAIN Children[c] = 1..n
  BY ChildrenAreListed
<1>2. \A k \in 1..n : Children[c][k] \in Range(Children[c])
  BY <1>1 DEF Range
<1>3. ASSUME NEW k \in 1..n
      PROVE  xs[k] = AtMost(ys[k], 1) /\ ys[k] \in Seq(Tiles)
  <2>1. Children[c][k] \in Shows => ~OnlyPlaceholders(Children[c][k])
    BY <1>2
  <2>2. IsWhole(start) \/ Children[c][k] \in Films \/ start.series \notin Shows
    BY <1>2
  <2> QED BY <2>1, <2>2, ChildReadsTheSame, LeftOfChildIsAList
<1>4. /\ CollectionNext(c, start, {}) = AtMost(FlattenSeq(xs), 1)
      /\ CollectionLeft(c, Listed, recipe, Views, start, TRUE) = FlattenSeq(ys)
  BY CollectionNextIsFlat, CollectionLeftIsFlat
<1>5. DOMAIN xs = 1..n /\ DOMAIN ys = 1..n /\ xs = [k \in 1..n |-> xs[k]] /\ ys = [k \in 1..n |-> ys[k]]
  OBVIOUS
<1> HIDE DEF n, xs, ys
<1>6. \A k \in 1..n : xs[k] \in Seq(Tiles) /\ SameHead(xs[k], ys[k])
  BY <1>3, OneIsTheHead
<1>7. xs \in [1..n -> Seq(Tiles)] /\ ys \in [1..n -> Seq(Tiles)]
  BY <1>3, <1>5, <1>6
<1>8. SameHead(FlattenSeq(xs), FlattenSeq(ys))
  BY <1>1, <1>6, <1>7, FlattenHeads
<1>9. FlattenSeq(xs) \in Seq(Tiles) /\ FlattenSeq(ys) \in Seq(Tiles)
  BY <1>1, <1>7, FlattenLays
<1>10. AtMost(FlattenSeq(xs), 1) = AtMost(FlattenSeq(ys), 1)
  BY <1>8, <1>9, HeadsAreOne
<1> QED BY <1>4, <1>10

-----------------------------------------------------------------------------
(* The queue's invariant, and what an entry's tile and its batch are.      *)
LeftOf(n) == Left(recipe.entries[n], Listed, recipe, Views, TRUE)

\* A film a scan retired has been watched, and what is watched stays watched.
RetiredFilmsAreSeen ==
    \A n \in Entries : flags[n] = "stamped" /\ IsFilm(n) => Film[recipe.entries[n].what] \in watched

QueueInv ==
    /\ recipe \in Recipes
    /\ AiringIsListed
    /\ flags \in [Entries -> {"open", "stamped", "hand"}]
    /\ StartedIsUnfinished
    /\ RetiredFilmsAreSeen

LEMMA EntriesAreMembers ==
    ASSUME recipe \in Recipes, NEW n \in Entries
    PROVE  IsMember(recipe.entries[n]) /\ recipe.episodes \in Nat
<1> DEFINE those == {d \in Range(recipe.entries) : IsMember(d)}
           list == recipe.entries
<1>1. list \in Seq(those) /\ recipe.episodes \in Nat
  BY RecipeAssumption
<1>2. \A d \in those : IsMember(d)
  OBVIOUS
<1>3. n \in DOMAIN list
  BY DEF Entries
<1> HIDE DEF those, list
<1>4. list[n] \in those
  BY <1>1, <1>3, ElementOfSeq, LenProperties
<1> QED BY <1>1, <1>2, <1>4 DEF list

LEMMA LeftIsAList ==
    ASSUME recipe \in Recipes, AiringIsListed, NEW n \in Entries
    PROVE  LeftOf(n) \in Seq(Tiles)
<1> DEFINE desc == recipe.entries[n]
           what == desc.what
<1>1. what \in Shows \cup Films \cup Collections
  BY EntriesAreMembers DEF IsMember
<1>2. Shows \cap Films = {} /\ (Shows \cup Films) \cap Collections = {}
  BY LibraryIsListed
<1>3. CASE what \in Collections
  <2> DEFINE len == Len(Children[what])
             ys == [k \in 1..len |-> Tagged(LeftOfChild(Children[what], k, desc.start), Children[what][k])]
  <2>1. LeftOf(n) = FlattenSeq(ys)
    BY <1>2, <1>3, CollectionLeftIsFlat DEF LeftOf, Left
  <2>2. len \in Nat
    BY <1>3, ChildrenAreListed
  <2>3. \A k \in 1..len : ys[k] \in Seq(Tiles)
    BY <1>3, LeftOfChildIsAList
  <2>4. ys \in [1..len -> Seq(Tiles)]
    BY <2>3
  <2> HIDE DEF ys, len
  <2> QED BY <2>1, <2>2, <2>4, FlattenLays
<1>4. CASE what \in Shows
  <2> DEFINE left == ShowLeft(what, Listed, recipe, Views, desc.start, TRUE)
  <2>1. LeftOf(n) = Tagged(left, what)
    BY <1>2, <1>4 DEF LeftOf, Left
  <2>2. left \in Seq(AllItems)
    BY <1>4, ShowLeftIsAList
  <2> HIDE DEF left
  <2> QED BY <1>4, <2>1, <2>2, TaggedIsAList
<1>5. CASE what \in Films
  <2> DEFINE reel == Film[what]
             left == IF Wanted(reel, Views, TRUE) THEN <<reel>> ELSE << >>
  <2>1. LeftOf(n) = Tagged(left, what)
    BY <1>2, <1>5 DEF LeftOf, Left
  <2>2. reel \in AllItems
    BY <1>5, FilmsAreItems
  <2> HIDE DEF reel
  <2>3. << >> \in Seq(AllItems) /\ <<reel>> \in Seq(AllItems)
    BY <2>2
  <2>4. left \in Seq(AllItems)
    BY <2>3
  <2> HIDE DEF left
  <2> QED BY <1>5, <2>1, <2>4, TaggedIsAList
<1> QED BY <1>1, <1>3, <1>4, <1>5

\* A batch begins as what is left does, and is never nothing of something.
LEMMA BatchIsTheHead ==
    ASSUME recipe \in Recipes, AiringIsListed, NEW n \in Entries
    PROVE  Batch(n) \in Seq(Tiles) /\ IsBeginning(Batch(n), LeftOf(n)) /\ SameHead(Batch(n), LeftOf(n))
<1> DEFINE desc == recipe.entries[n]
           items == LeftOf(n)
           most == IF desc.episodes # 0 THEN desc.episodes ELSE SetBatch(recipe)
           stop == BatchStop(desc, recipe)
           batch == ApplyBatch(items, most, stop)
<1>1. items \in Seq(Tiles)
  BY LeftIsAList
<1>2. most \in Int
  BY EntriesAreMembers, LibraryAssumption DEF SetBatch, IsMember
<1>3. Batch(n) = IF desc.what \in Films THEN items ELSE batch
  BY DEF Batch, ResolveMember, LeftOf
<1> HIDE DEF items, most, stop
<1>4. /\ batch \in Seq(Tiles) /\ IsBeginning(batch, items)
      /\ items # << >> => batch # << >>
  BY <1>1, <1>2, BatchBegins
<1>5. IsBeginning(items, items)
  BY <1>1, LenProperties DEF IsBeginning
<1> HIDE DEF batch
<1>6. SameHead(batch, items)
  <2>1. PICK m \in Nat : DOMAIN batch = 1..m /\ 1..m \subseteq DOMAIN items /\ \A i \in 1..m : batch[i] = items[i]
    BY <1>4 DEF IsBeginning
  <2>2. batch # << >> => 1 \in DOMAIN batch
    <3>1. DOMAIN batch = 1..Len(batch) /\ (batch # << >> => Len(batch) \in Nat \ {0})
      BY <1>4, LenProperties, EmptySeq
    <3> QED BY <3>1
  <2>3. batch # << >> => 1 \in DOMAIN items /\ batch[1] = items[1]
    BY <2>1, <2>2
  <2>4. items = << >> => DOMAIN items = {}
    OBVIOUS
  <2> QED BY <1>4, <2>3, <2>4 DEF SameHead
<1>7. SameHead(items, items)
  BY DEF SameHead
<1> QED BY <1>1, <1>3, <1>4, <1>5, <1>6, <1>7 DEF items

LEMMA FilmHasOne ==
    ASSUME recipe \in Recipes, NEW n \in Entries, IsFilm(n)
    PROVE  LET reel == Film[recipe.entries[n].what] IN
           /\ Batch(n) = << >> <=> reel \in watched \ started
           /\ Batch(n) # << >> => Batch(n)[1].item = reel
<1> DEFINE what == recipe.entries[n].what
           reel == Film[what]
           left == IF Wanted(reel, Views, TRUE) THEN <<reel>> ELSE << >>
<1>1. what \in Films /\ what \notin Shows /\ what \notin Collections
  BY LibraryIsListed DEF IsFilm
<1>2. Batch(n) = Tagged(left, what)
  BY <1>1 DEF Batch, ResolveMember, Left
<1>3. Wanted(reel, Views, TRUE) <=> reel \notin watched \ started
  BY DEF Wanted, Views
<1>4. reel \in AllItems
  BY <1>1, FilmsAreItems
<1> HIDE DEF reel, what
<1>5. left \in Seq(AllItems) /\ (left = << >> <=> reel \in watched \ started) /\ (left # << >> => left[1] = reel)
  <2>1. << >> \in Seq(AllItems) /\ <<reel>> \in Seq(AllItems) /\ <<reel>> # << >> /\ <<reel>>[1] = reel
    BY <1>4
  <2> QED BY <1>3, <2>1
<1> HIDE DEF left
<1>6. /\ left = << >> <=> Tagged(left, what) = << >>
      /\ left # << >> => Tagged(left, what)[1] = [item |-> left[1], member |-> what]
  BY <1>1, <1>5, TaggedIsAList
<1>7. /\ Batch(n) = << >> <=> reel \in watched \ started
      /\ Batch(n) # << >> => Batch(n)[1].item = reel
  BY <1>2, <1>5, <1>6
<1> QED BY <1>7 DEF reel, what

LEMMA NextUpIsTheHead ==
    ASSUME QueueInv, OneViewer, ~recipe.specials, NEW n \in Entries, ReadAlike(recipe.entries[n]),
           Found(n), ~IsFilm(n)
    PROVE  NextUp(n, {}) = AtMost(Batch(n), 1)
<1> DEFINE desc == recipe.entries[n]
           what == desc.what
<1>1. what \in Shows \cup Collections /\ what \notin Films
  BY EntriesAreMembers DEF IsMember, QueueInv, IsFilm
<1>2. Shows \cap Films = {} /\ (Shows \cup Films) \cap Collections = {}
  BY LibraryIsListed
<1>3. CASE what \in Shows
  <2>1. what \notin Collections
    BY <1>2, <1>3
  <2>2. NextUp(n, {}) = NextEpisode(what, desc.start, {})
    BY <1>1, <1>3, <2>1 DEF NextUp
  <2>3. ~OnlyPlaceholders(what) /\ IsWhole(desc.start)
    BY <1>1, <1>3, <2>1 DEF ReadAlike
  <2>4. LeftOf(n) = Tagged(ShowLeft(what, Listed, recipe, Views, desc.start, TRUE), what)
    BY <1>1, <1>3, <2>1 DEF LeftOf, Left
  <2>5. NextUp(n, {}) = AtMost(LeftOf(n), 1)
    BY <1>3, <2>2, <2>3, <2>4, ReadsTheSame DEF QueueInv
  <2> QED BY <2>5, HeadsAreOne, BatchIsTheHead, LeftIsAList DEF QueueInv
<1>4. CASE what \in Collections
  <2>1. what \notin Shows /\ what \notin Films
    BY <1>2, <1>4
  <2>2. NextUp(n, {}) = CollectionNext(what, desc.start, {})
    BY <1>4, <2>1 DEF NextUp
  <2>3. /\ \A show \in Range(Children[what]) \cap Shows : ~OnlyPlaceholders(show)
        /\ IsWhole(desc.start) \/ Range(Children[what]) \subseteq Films \/ desc.start.series \notin Shows
    BY <1>4 DEF ReadAlike
  <2>4. LeftOf(n) = CollectionLeft(what, Listed, recipe, Views, desc.start, TRUE)
    BY <1>4, <2>1 DEF LeftOf, Left
  <2>5. NextUp(n, {}) = AtMost(LeftOf(n), 1)
    BY <1>4, <2>2, <2>3, <2>4, CollectionReadsTheSame DEF QueueInv
  <2> QED BY <2>5, HeadsAreOne, BatchIsTheHead, LeftIsAList DEF QueueInv
<1> QED BY <1>1, <1>3, <1>4

\* The tile says what the batch is.
LEMMA TilesSayWhatPlays == QueueInv => TilesForetellScans
<1> SUFFICES ASSUME QueueInv, ~recipe.reel, ~recipe.specials, OneViewer,
                    NEW n \in Entries, ReadAlike(recipe.entries[n])
             PROVE  /\ SaysFinished(n, {}) = NextScanRetires(n)
                    /\ Found(n) /\ ~IsFilm(n) =>
                         [k \in DOMAIN NextUp(n, {}) |-> NextUp(n, {})[k].item]
                             = [k \in DOMAIN AtMost(Batch(n), 1) |-> Batch(n)[k].item]
  BY DEF TilesForetellScans
<1>1. recipe \in Recipes /\ AiringIsListed /\ StartedIsUnfinished /\ RetiredFilmsAreSeen
      /\ flags[n] \in {"open", "stamped", "hand"}
  BY DEF QueueInv
<1>2. NextScanRetires(n) <=>
        IF flags[n] = "open" THEN Found(n) /\ Batch(n) = << >>
        ELSE ~(Found(n) /\ Batch(n) # << >> /\ (flags[n] = "stamped" \/ Batch(n)[1].item \in started))
  BY DEF NextScanRetires, NewlyDone, IsRevived, HeadStarted
<1>3. SaysFinished(n, {}) <=>
        \/ /\ ~PartiallyWatched(n, {}) /\ ~(flags[n] = "stamped" /\ NextUp(n, {}) # << >>)
           /\ flags[n] # "open" \/ IsFinished(n)
        \/ Found(n) /\ ~IsFilm(n) /\ NextUp(n, {}) = << >>
  BY DEF SaysFinished, IsCompleted, IsRevivedTile, SaysAllWatched
<1>4. (SaysFinished(n, {}) <=> NextScanRetires(n)) => SaysFinished(n, {}) = NextScanRetires(n)
  BY DEF SaysFinished, IsCompleted, SaysAllWatched, NextScanRetires, NewlyDone, IsRevived
<1>5. CASE IsFilm(n)
  <2> DEFINE reel == Film[recipe.entries[n].what]
  <2>1. (Batch(n) = << >> <=> reel \in watched \ started) /\ (Batch(n) # << >> => Batch(n)[1].item = reel)
    BY <1>1, <1>5, FilmHasOne
  <2>2. NextUp(n, {}) = << >>
    <3>1. recipe.entries[n].what \in Films
      BY <1>5 DEF IsFilm
    <3> QED BY <3>1, LibraryIsListed DEF NextUp
  <2>3. (PartiallyWatched(n, {}) <=> Found(n) /\ reel \in started)
        /\ (IsFinished(n) <=> Found(n) /\ reel \in watched \ started)
    BY <1>5 DEF PartiallyWatched, IsFinished
  <2>4. flags[n] = "stamped" => reel \in watched
    BY <1>1, <1>5 DEF RetiredFilmsAreSeen
  <2> HIDE DEF reel
  <2>5. SaysFinished(n, {}) <=> NextScanRetires(n)
    BY <1>1, <1>2, <1>3, <1>5, <2>1, <2>2, <2>3, <2>4
  <2> QED BY <1>4, <1>5, <2>5
<1>6. CASE ~IsFilm(n) /\ ~Found(n)
  <2>1. NextUp(n, {}) = << >>
    BY <1>6 DEF NextUp
  <2>2. ~PartiallyWatched(n, {}) /\ ~IsFinished(n)
    BY <1>6, <2>1 DEF PartiallyWatched, IsFinished
  <2> QED BY <1>2, <1>3, <1>4, <1>6, <2>1, <2>2
<1>7. CASE ~IsFilm(n) /\ Found(n)
  <2> DEFINE one == AtMost(Batch(n), 1)
  <2>1. NextUp(n, {}) = one
    BY <1>7, NextUpIsTheHead
  <2>2. Batch(n) \in Seq(Tiles)
    BY <1>1, BatchIsTheHead
  <2>3. SameHead(one, Batch(n)) /\ one = IF Batch(n) = << >> THEN << >> ELSE <<Batch(n)[1]>>
    BY <2>2, OneIsTheHead, AtMostOne
  <2>4. ~IsFinished(n) /\ (PartiallyWatched(n, {}) <=> one # << >> /\ one[1].item \in started)
    BY <1>7, <2>1 DEF IsFinished, PartiallyWatched
  <2> DEFINE batch == Batch(n)
  <2> HIDE DEF one, batch
  <2>5. \A k \in DOMAIN one : one[k].item = batch[k].item
    <3>1. one = IF batch = << >> THEN << >> ELSE <<batch[1]>>
      BY <2>3 DEF batch
    <3> QED BY <3>1
  <2>6. SaysFinished(n, {}) <=> NextScanRetires(n)
    <3>1. (one = << >> <=> batch = << >>) /\ (batch # << >> => one[1] = batch[1])
      BY <2>3 DEF SameHead, batch
    <3>2. NextScanRetires(n) <=>
            IF flags[n] = "open" THEN batch = << >>
            ELSE ~(batch # << >> /\ (flags[n] = "stamped" \/ batch[1].item \in started))
      BY <1>2, <1>7 DEF batch
    <3>3. SaysFinished(n, {}) <=>
            \/ /\ ~(one # << >> /\ one[1].item \in started) /\ ~(flags[n] = "stamped" /\ one # << >>)
               /\ flags[n] # "open"
            \/ one = << >>
      BY <1>3, <1>7, <2>1, <2>4
    <3> QED BY <1>1, <3>1, <3>2, <3>3
  <2> QED BY <1>4, <2>1, <2>5, <2>6 DEF one, batch
<1> QED BY <1>5, <1>6, <1>7

-----------------------------------------------------------------------------
(* The queue's invariant is one.                                           *)
LEMMA QueueStarts == CuratedInit => QueueInv
<1> SUFFICES ASSUME CuratedInit PROVE QueueInv
  OBVIOUS
<1>1. \A show \in Shows : Len(Episodes[show]) \in Nat
  <2> SUFFICES ASSUME NEW show \in Shows PROVE Len(Episodes[show]) \in Nat
    OBVIOUS
  <2> DEFINE eps == Episodes[show]
             T == {ep \in Range(eps) : ep.of = show /\ ep.kind \in Kinds}
  <2>1. eps \in Seq(T)
    BY LibraryAssumption DEF IsListing
  <2> HIDE DEF eps, T
  <2>2. Len(eps) \in Nat
    BY <2>1, LenProperties
  <2> QED BY <2>2 DEF eps
<1>2. \A show \in Shows : Smaller(1, Len(Episodes[show])) \in Nat
                          /\ Smaller(1, Len(Episodes[show])) <= Len(Episodes[show])
  BY <1>1 DEF Smaller
<1>3. AiringIsListed
  BY <1>2 DEF CuratedInit, AiringIsListed
<1>4. flags \in [Entries -> {"open", "stamped", "hand"}] /\ \A n \in Entries : flags[n] = "open"
  BY DEF CuratedInit
<1>5. StartedIsUnfinished /\ RetiredFilmsAreSeen
  BY <1>4 DEF CuratedInit, StartedIsUnfinished, RetiredFilmsAreSeen
<1> QED BY <1>3, <1>4, <1>5 DEF CuratedInit, QueueInv

LEMMA ScanKeepsQueue ==
    ASSUME QueueInv, NEW those, Scan(those)
    PROVE  QueueInv'
<1> USE DEF QueueInv
<1>1. recipe' = recipe /\ aired' = aired /\ watched' = watched /\ mine' = mine /\ started' = started
  BY DEF Scan
<1>2. recipe' \in Recipes /\ AiringIsListed' /\ StartedIsUnfinished' /\ Entries' = Entries
  BY <1>1 DEF AiringIsListed, StartedIsUnfinished, Entries
<1>3. CASE recipe.reel
  <2>1. flags' = flags
    BY <1>3 DEF Scan
  <2> QED BY <1>1, <1>2, <2>1 DEF RetiredFilmsAreSeen, IsFilm
<1>4. CASE ~recipe.reel
  <2> DEFINE revived == Revived(those)
             done == IF recipe.keeps THEN {} ELSE NewlyDone(those)
  <2>1. flags' = [n \in Entries |-> IF n \in revived THEN "open"
                                    ELSE IF n \in done THEN "stamped" ELSE flags[n]]
    BY <1>4 DEF Scan
  <2>2. \A n \in done : Batch(n) = << >>
    BY DEF NewlyDone
  <2> HIDE DEF revived, done
  <2>3. flags' \in [Entries -> {"open", "stamped", "hand"}]
    BY <2>1
  <2>4. ASSUME NEW n \in Entries, flags'[n] = "stamped", IsFilm(n)
        PROVE  Film[recipe.entries[n].what] \in watched
    <3>1. CASE n \in done
      BY <2>2, <2>4, <3>1, FilmHasOne
    <3>2. CASE n \notin done
      <4>1. flags[n] = "stamped"
        BY <2>1, <2>4, <3>2
      <4> QED BY <2>4, <4>1 DEF RetiredFilmsAreSeen
    <3> QED BY <3>1, <3>2
  <2>5. RetiredFilmsAreSeen'
    BY <1>1, <1>2, <2>4 DEF RetiredFilmsAreSeen, IsFilm
  <2> QED BY <1>2, <2>3, <2>5
<1> QED BY <1>3, <1>4

LEMMA QueueKeeps == QueueInv /\ [CuratedNext]_curatedVars => QueueInv'
<1> SUFFICES ASSUME QueueInv, [CuratedNext]_curatedVars PROVE QueueInv'
  OBVIOUS
<1> USE DEF QueueInv, AiringIsListed, StartedIsUnfinished, RetiredFilmsAreSeen, IsFilm, Entries
<1>1. CASE ScanAll \/ ScanOne
  BY <1>1, ScanKeepsQueue DEF ScanAll, ScanOne
<1>2. CASE WatchHead
  BY <1>2 DEF WatchHead
<1>3. CASE StopMidway
  BY <1>3 DEF StopMidway
<1>4. CASE Elsewhere
  BY <1>4 DEF Elsewhere, WatchedElsewhere
<1>5. CASE Air
  <2>1. PICK show \in Shows \cap Playing : Airs(show)
    BY <1>5 DEF Air
  <2>2. Len(Episodes[show]) \in Nat
    <3> DEFINE eps == Episodes[show]
               T == {ep \in Range(eps) : ep.of = show /\ ep.kind \in Kinds}
    <3>1. eps \in Seq(T)
      BY LibraryAssumption DEF IsListing
    <3> HIDE DEF eps, T
    <3>2. Len(eps) \in Nat
      BY <3>1, LenProperties
    <3> QED BY <3>2 DEF eps
  <2>3. AiringIsListed'
    BY <2>1, <2>2 DEF Airs
  <2> QED BY <2>1, <2>3 DEF Airs
<1>6. CASE Tag
  <2>1. PICK n \in Entries : TagByHand(n)
    BY <1>6 DEF Tag
  <2>2. flags' \in [Entries -> {"open", "stamped", "hand"}]
        /\ \A m \in Entries : flags'[m] = "stamped" => flags[m] = "stamped"
    BY <2>1 DEF TagByHand
  <2> QED BY <2>1, <2>2 DEF TagByHand
<1>7. CASE Library
  BY <1>7 DEF Library, LibraryChanges
<1>8. CASE UNCHANGED curatedVars
  BY <1>8 DEF curatedVars
<1> QED BY <1>1, <1>2, <1>3, <1>4, <1>5, <1>6, <1>7, <1>8 DEF CuratedNext

(* queuesRoutes.ts: for every library, queue and history, the grid says    *)
(* between two scans what the next one will decide of an entry, and names  *)
(* the item it plays first.                                                *)
THEOREM TilesStayHonest == CuratedSpec => []TilesForetellScans
<1>1. CuratedInit => QueueInv
  BY QueueStarts
<1>2. QueueInv /\ [CuratedNext]_curatedVars => QueueInv'
  BY QueueKeeps
<1>3. QueueInv => TilesForetellScans
  BY TilesSayWhatPlays
<1> QED BY <1>1, <1>2, <1>3, PTL DEF CuratedSpec

-----------------------------------------------------------------------------
(* The rules of a scan.  What is left of an entry is what there is to see  *)
(* of it yet.                                                              *)
ItemsIn(list) == {list[k].item : k \in DOMAIN list}

\* What there is to see of one show or film, from no start on.
Wants(item) == item \notin watched \/ item \in started
ToSeeOf(what) ==
    IF what \in Films THEN {item \in {Film[what]} : Wants(item)}
    ELSE {ep \in Range(Listed[what]) :
            /\ Wants(ep) /\ ep.kind = "regular"
            /\ ep.season # 0 \/ recipe.specials \/ ~HasRealSeasons(Listed[what])}

LEMMA ItemsOfTagged ==
    ASSUME NEW items \in Seq(AllItems), NEW child
    PROVE  ItemsIn(Tagged(items, child)) = Range(items)
BY DEF ItemsIn, Tagged, Range

LEMMA ShowLeftIsToSee ==
    ASSUME AiringIsListed, NEW show \in Shows, NEW start
    PROVE  Range(ShowLeft(show, Listed, recipe, Views, start, TRUE))
             = {item \in ToSeeOf(show) : AtOrAfter(item, start)}
<1> DEFINE eps == Listed[show]
           specialsOk == TRUE /\ ~HasRealSeasons(eps)
           A == {ep \in Range(eps) : /\ Wanted(ep, Views, TRUE)
                                     /\ Keeps(ep, recipe, specialsOk) /\ AtOrAfter(ep, start)}
<1>1. ShowLeft(show, Listed, recipe, Views, start, TRUE) = Only(eps, A)
  BY DEF ShowLeft
<1>2. eps \in Seq(AllItems)
  BY ListedIsAList
<1>3. show \notin Films
  BY LibraryIsListed
<1>4. ToSeeOf(show) = {ep \in Range(eps) :
            /\ Wants(ep) /\ ep.kind = "regular"
            /\ ep.season # 0 \/ recipe.specials \/ ~HasRealSeasons(eps)}
  BY <1>3 DEF ToSeeOf
<1>5. A = {item \in ToSeeOf(show) : AtOrAfter(item, start)}
  <2> HIDE DEF eps
  <2> QED BY <1>4 DEF Wanted, Keeps, Wants, Views
<1> HIDE DEF eps, A
<1>6. Range(Only(eps, A)) = Range(eps) \cap A
  BY <1>2, OnlyRange
<1>7. A \subseteq Range(eps)
  BY DEF A
<1> QED BY <1>1, <1>5, <1>6, <1>7

LEMMA FilmLeftIsToSee ==
    ASSUME NEW film \in Films
    PROVE  Range(IF Wanted(Film[film], Views, TRUE) THEN <<Film[film]>> ELSE << >>) = ToSeeOf(film)
           /\ \A item \in ToSeeOf(film) : item.of = film
<1> DEFINE reel == Film[film]
<1>1. ToSeeOf(film) = IF Wants(reel) THEN {reel} ELSE {}
  BY DEF ToSeeOf
<1>2. reel.of = film
  BY LibraryAssumption
<1> HIDE DEF reel
<1>3. Range(IF Wanted(reel, Views, TRUE) THEN <<reel>> ELSE << >>) = IF Wants(reel) THEN {reel} ELSE {}
  BY DEF Range, Wanted, Wants, Views
<1>4. \A item \in ToSeeOf(film) : item.of = film
  BY <1>1, <1>2
<1> QED BY <1>1, <1>3, <1>4 DEF reel

LEMMA ChildLeftIsToSee ==
    ASSUME AiringIsListed, NEW c \in Collections, NEW start, NEW k \in 1..Len(Children[c])
    PROVE  Range(LeftOfChild(Children[c], k, start))
             = {item \in ToSeeOf(Children[c][k]) :
                  /\ k >= StartMember(Children[c], start)
                  /\ k = StartMember(Children[c], start) => item.of \in Films \/ AtOrAfter(item, start)}
<1> DEFINE children == Children[c]
           ch == children[k]
           floor == StartMember(children, start)
           from == IF k = floor THEN start ELSE NoStart
<1>1. ch \in Shows \cup Films /\ Shows \cap Films = {} /\ Len(children) \in Nat
  BY ChildrenAreListed, LibraryIsListed
<1>2. floor \in Nat
  <2> DEFINE I == {i \in 1..Len(children) : children[i] = start.series}
  <2>1. floor = IF start = NoStart \/ I = {} THEN 0 ELSE Min(I)
    BY DEF StartMember, SelectInSeq
  <2>2. I \subseteq Nat
    OBVIOUS
  <2> HIDE DEF I, floor
  <2>3. I # {} => Min(I) \in Nat
    <3> SUFFICES ASSUME I # {} PROVE Min(I) \in Nat
      OBVIOUS
    <3>1. PICK i \in I : \A j \in I : ~(j < i)
      BY <2>2, LeastNumber
    <3>2. \A j \in I : i <= j
      BY <2>2, <3>1
    <3>3. Min(I) \in I
      BY <3>2 DEF Min
    <3> QED BY <2>2, <3>3
  <2> QED BY <2>1, <2>3
<1>3. CASE k < floor
  <2>1. LeftOfChild(children, k, start) = << >> /\ ~(k >= floor)
    BY <1>1, <1>2, <1>3 DEF LeftOfChild
  <2> QED BY <2>1 DEF Range
<1>4. CASE ~(k < floor) /\ ch \in Shows
  <2>1. LeftOfChild(children, k, start) = ShowLeft(ch, Listed, recipe, Views, from, TRUE)
    BY <1>4 DEF LeftOfChild, ShowOfChild
  <2>2. \A item \in ToSeeOf(ch) : item.of \notin Films
    <3>1. \A ep \in Range(Listed[ch]) : ep.of = ch
      BY <1>4, ListedIsAList
    <3>2. ToSeeOf(ch) \subseteq Range(Listed[ch])
      BY <1>1, <1>4 DEF ToSeeOf
    <3> HIDE DEF ch
    <3> QED BY <1>1, <1>4, <3>1, <3>2
  <2>3. \A item : AtOrAfter(item, from) <=> (k = floor => AtOrAfter(item, start))
    BY DEF AtOrAfter
  <2>4. Range(ShowLeft(ch, Listed, recipe, Views, from, TRUE)) = {item \in ToSeeOf(ch) : AtOrAfter(item, from)}
    BY <1>4, ShowLeftIsToSee
  <2>5. k >= floor
    BY <1>1, <1>2, <1>4
  <2> HIDE DEF from, floor, ch
  <2>6. {item \in ToSeeOf(ch) : AtOrAfter(item, from)}
          = {item \in ToSeeOf(ch) : k >= floor /\ (k = floor => item.of \in Films \/ AtOrAfter(item, start))}
    BY <2>2, <2>3, <2>5
  <2> QED BY <2>1, <2>4, <2>6 DEF floor, ch
<1>5. CASE ~(k < floor) /\ ch \notin Shows
  <2>1. LeftOfChild(children, k, start) = IF Wanted(Film[ch], Views, TRUE) THEN <<Film[ch]>> ELSE << >>
    BY <1>5 DEF LeftOfChild
  <2>2. ch \in Films
    BY <1>1, <1>5
  <2>3. k >= floor
    BY <1>1, <1>2, <1>5
  <2> HIDE DEF floor, ch
  <2>4. Range(LeftOfChild(children, k, start)) = ToSeeOf(ch) /\ \A item \in ToSeeOf(ch) : item.of \in Films
    BY <2>1, <2>2, FilmLeftIsToSee
  <2>5. ToSeeOf(ch) = {item \in ToSeeOf(ch) :
                         k >= floor /\ (k = floor => item.of \in Films \/ AtOrAfter(item, start))}
    BY <2>3, <2>4
  <2> QED BY <2>4, <2>5 DEF floor, ch
<1> QED BY <1>3, <1>4, <1>5

\* What lists laid end to end have is what they have.
LEMMA FlatHasAll ==
    ASSUME NEW T, NEW n \in Nat, NEW seqs \in [1..n -> Seq(T)]
    PROVE  ItemsIn(FlattenSeq(seqs)) = UNION {ItemsIn(seqs[k]) : k \in 1..n}
<1> DEFINE flat == FlattenSeq(seqs)
<1>1. flat \in Seq(T) /\ \E row, col : Laid(flat, seqs, n, row, col)
  BY FlattenLays
<1> HIDE DEF flat
<1>2. PICK row, col : Laid(flat, seqs, n, row, col)
  BY <1>1
<1>3. \A i \in DOMAIN flat : row[i] \in 1..n /\ col[i] \in DOMAIN seqs[row[i]] /\ flat[i] = seqs[row[i]][col[i]]
  BY <1>2 DEF Laid
<1>4. \A k \in 1..n : \A p \in DOMAIN seqs[k] : \E i \in DOMAIN flat : row[i] = k /\ col[i] = p
  BY <1>2 DEF Laid
<1>5. ItemsIn(flat) \subseteq UNION {ItemsIn(seqs[k]) : k \in 1..n}
  BY <1>3 DEF ItemsIn
<1>6. \A k \in 1..n : ItemsIn(seqs[k]) \subseteq ItemsIn(flat)
  BY <1>3, <1>4 DEF ItemsIn
<1> QED BY <1>5, <1>6 DEF flat

LEMMA LeftIsToSee ==
    ASSUME recipe \in Recipes, AiringIsListed, NEW n \in Entries
    PROVE  ItemsIn(LeftOf(n)) = StillToSee(n)
<1> DEFINE desc == recipe.entries[n]
           what == desc.what
<1>1. what \in Shows \cup Films \cup Collections
  BY EntriesAreMembers DEF IsMember
<1>2. Shows \cap Films = {} /\ (Shows \cup Films) \cap Collections = {}
  BY LibraryIsListed
<1>3. CASE what \in Collections
  <2> DEFINE children == Children[what]
             len == Len(children)
             floor == StartMember(children, desc.start)
             ys == [k \in 1..len |-> Tagged(LeftOfChild(children, k, desc.start), children[k])]
             Sees(k) == {item \in ToSeeOf(children[k]) :
                          /\ k >= floor
                          /\ k = floor => item.of \in Films \/ AtOrAfter(item, desc.start)}
  <2>1. LeftOf(n) = FlattenSeq(ys)
    BY <1>2, <1>3, CollectionLeftIsFlat DEF LeftOf, Left
  <2>2. len \in Nat /\ DOMAIN children = 1..len
    BY <1>3, ChildrenAreListed
  <2>3. ASSUME NEW k \in 1..len
        PROVE  ys[k] \in Seq(Tiles) /\ ItemsIn(ys[k]) = Sees(k)
    <3> DEFINE some == LeftOfChild(children, k, desc.start)
               ch == children[k]
    <3>1. some \in Seq(AllItems) /\ Tagged(some, ch) \in Seq(Tiles)
      BY <1>3, LeftOfChildIsAList
    <3>2. Range(some) = Sees(k)
      BY <1>3, ChildLeftIsToSee
    <3>3. ys[k] = Tagged(some, ch)
      OBVIOUS
    <3> HIDE DEF ys, Sees, some, ch
    <3>4. ItemsIn(Tagged(some, ch)) = Range(some)
      BY <3>1, ItemsOfTagged
    <3> QED BY <3>1, <3>2, <3>3, <3>4
  <2>4. StillToSee(n) = UNION {Sees(k) : k \in 1..len}
    <3>1. StillToSee(n) = UNION {{item \in ToSeeOf(children[k]) :
                                    k = floor => item.of \in Films \/ AtOrAfter(item, desc.start)} :
                                    k \in {j \in 1..len : j >= floor}}
      BY <1>3, <2>2 DEF StillToSee, ToSeeOf, Wants
    <3> HIDE DEF floor, children, len
    <3> QED BY <3>1
  <2>5. ys \in [1..len -> Seq(Tiles)]
    BY <2>3
  <2> HIDE DEF ys, Sees, len, children, floor
  <2>6. ItemsIn(LeftOf(n)) = UNION {ItemsIn(ys[k]) : k \in 1..len}
    BY <2>1, <2>2, <2>5, FlatHasAll
  <2> QED BY <2>3, <2>4, <2>6
<1>4. CASE what \in Shows
  <2> DEFINE left == ShowLeft(what, Listed, recipe, Views, desc.start, TRUE)
  <2>1. LeftOf(n) = Tagged(left, what)
    BY <1>2, <1>4 DEF LeftOf, Left
  <2>2. left \in Seq(AllItems)
    BY <1>4, ShowLeftIsAList
  <2>3. Range(left) = {item \in ToSeeOf(what) : AtOrAfter(item, desc.start)}
    BY <1>4, ShowLeftIsToSee
  <2>4. \A item \in ToSeeOf(what) : item.of \notin Films
    <3>1. \A ep \in Range(Listed[what]) : ep.of = what
      BY <1>4, ListedIsAList
    <3>2. ToSeeOf(what) \subseteq Range(Listed[what])
      BY <1>2, <1>4 DEF ToSeeOf
    <3> HIDE DEF what
    <3> QED BY <1>2, <1>4, <3>1, <3>2
  <2>5. StillToSee(n) = {item \in ToSeeOf(what) : item.of \in Films \/ AtOrAfter(item, desc.start)}
    BY <1>2, <1>4 DEF StillToSee, ToSeeOf, Wants
  <2> HIDE DEF left, what, desc
  <2> QED BY <2>1, <2>2, <2>3, <2>4, <2>5, ItemsOfTagged
<1>5. CASE what \in Films
  <2> DEFINE left == IF Wanted(Film[what], Views, TRUE) THEN <<Film[what]>> ELSE << >>
  <2>1. LeftOf(n) = Tagged(left, what)
    BY <1>2, <1>5 DEF LeftOf, Left
  <2>2. left \in Seq(AllItems)
    <3> DEFINE reel == Film[what]
    <3>1. reel \in AllItems
      BY <1>5, FilmsAreItems
    <3> HIDE DEF reel
    <3>2. << >> \in Seq(AllItems) /\ <<reel>> \in Seq(AllItems)
      BY <3>1
    <3> QED BY <3>2 DEF reel
  <2>3. Range(left) = ToSeeOf(what) /\ \A item \in ToSeeOf(what) : item.of = what
    BY <1>5, FilmLeftIsToSee
  <2>4. StillToSee(n) = {item \in ToSeeOf(what) : item.of \in Films \/ AtOrAfter(item, desc.start)}
    BY <1>2, <1>5 DEF StillToSee, ToSeeOf, Wants
  <2> HIDE DEF left, what, desc
  <2> QED BY <1>5, <2>1, <2>2, <2>3, <2>4, ItemsOfTagged
<1> QED BY <1>1, <1>3, <1>4, <1>5

\* Which entries a scan retires and takes up again.
LEMMA ScanWritesFlags ==
    ASSUME QueueInv, NEW those, Scan(those), NEW n \in Entries, flags'[n] # flags[n]
    PROVE  \/ flags'[n] = "open" /\ Batch(n) # << >> /\ (flags[n] = "stamped" \/ HeadStarted(n))
           \/ flags'[n] = "stamped" /\ flags[n] = "open" /\ Found(n) /\ Batch(n) = << >>
<1>1. flags' # flags
  OBVIOUS
<1>2. ~recipe.reel
  BY <1>1 DEF Scan
<1> DEFINE revived == Revived(those)
           done == IF recipe.keeps THEN {} ELSE NewlyDone(those)
<1>3. flags' = [m \in Entries |-> IF m \in revived THEN "open"
                                  ELSE IF m \in done THEN "stamped" ELSE flags[m]]
  BY <1>2 DEF Scan
<1>4. \A m \in revived : Batch(m) # << >> /\ (flags[m] = "stamped" \/ HeadStarted(m))
  BY DEF Revived, IsRevived
<1>5. \A m \in done : flags[m] = "open" /\ Found(m) /\ Batch(m) = << >>
  BY DEF NewlyDone
<1> HIDE DEF revived, done
<1>6. flags'[n] = IF n \in revived THEN "open" ELSE IF n \in done THEN "stamped" ELSE flags[n]
  BY <1>3
<1>7. CASE n \in revived
  BY <1>4, <1>6, <1>7
<1>8. CASE n \notin revived /\ n \in done
  BY <1>5, <1>6, <1>8
<1> QED BY <1>6, <1>7, <1>8

LEMMA NothingLeftNothingToSee ==
    ASSUME QueueInv, NEW n \in Entries
    PROVE  /\ Batch(n) = << >> => StillToSee(n) = {}
           /\ Batch(n) # << >> => Batch(n)[1].item \in StillToSee(n)
<1> DEFINE left == LeftOf(n)
           batch == Batch(n)
<1>1. left \in Seq(Tiles) /\ SameHead(batch, left) /\ ItemsIn(left) = StillToSee(n)
  BY LeftIsAList, BatchIsTheHead, LeftIsToSee DEF QueueInv
<1> HIDE DEF left, batch
<1>2. DOMAIN left = 1..Len(left) /\ (left # << >> => Len(left) \in Nat \ {0})
  BY <1>1, LenProperties, EmptySeq
<1>3. left = << >> => ItemsIn(left) = {}
  BY DEF ItemsIn
<1>4. left # << >> => left[1].item \in ItemsIn(left)
  <2>1. left # << >> => 1 \in DOMAIN left
    BY <1>2
  <2> QED BY <2>1 DEF ItemsIn
<1>5. /\ batch = << >> => StillToSee(n) = {}
      /\ batch # << >> => batch[1].item \in StillToSee(n)
  BY <1>1, <1>3, <1>4 DEF SameHead
<1> QED BY <1>5 DEF batch

\* Only a scan asks for entries.
LEMMA OnlyScansAsk ==
    ASSUME [CuratedNext]_curatedVars, asked' # {}, ~UNCHANGED curatedVars
    PROVE  \E those : Scan(those) /\ those \subseteq Entries
<1> USE DEF CuratedNext
<1>1. ScanAll \/ ScanOne
  BY Zenon DEF WatchHead, StopMidway, Elsewhere, WatchedElsewhere, Air, Airs, Tag, TagByHand,
               Library, LibraryChanges
<1> QED BY <1>1 DEF ScanAll, ScanOne

LEMMA RetiresTheWatched ==
    ASSUME QueueInv, [CuratedNext]_curatedVars, NEW n \in Entries,
           flags[n] = "open", flags'[n] = "stamped"
    PROVE  StillToSee(n) = {} /\ recipe.entries[n].what \notin missing
<1>1. CASE ScanAll \/ ScanOne
  <2>1. Found(n) /\ Batch(n) = << >>
    BY <1>1, ScanWritesFlags DEF ScanAll, ScanOne
  <2> QED BY <2>1, NothingLeftNothingToSee DEF Found
<1>2. CASE Tag
  <2>1. PICK m \in Entries : TagByHand(m)
    BY <1>2 DEF Tag
  <2>2. flags \in [Entries -> {"open", "stamped", "hand"}]
    BY DEF QueueInv
  <2> QED BY <2>1, <2>2 DEF TagByHand
<1>3. ASSUME flags' = flags PROVE FALSE
  BY <1>3
<1> QED BY <1>1, <1>2, <1>3, Zenon DEF CuratedNext, curatedVars, WatchHead, StopMidway, Elsewhere,
           WatchedElsewhere, Air, Airs, Library, LibraryChanges

LEMMA KeepsHandSkips ==
    ASSUME QueueInv, [CuratedNext]_curatedVars, ~UNCHANGED curatedVars, asked' # {}, NEW n \in Entries,
           flags[n] = "hand", flags'[n] # "hand"
    PROVE  StillToSee(n) \cap started # {}
<1>1. PICK those : Scan(those)
  BY OnlyScansAsk
<1>2. Batch(n) # << >> /\ HeadStarted(n)
  BY <1>1, ScanWritesFlags
<1> QED BY <1>2, NothingLeftNothingToSee DEF HeadStarted

-----------------------------------------------------------------------------
(* A batch stays in its segment.                                           *)
LEMMA CutHasOneKey ==
    ASSUME NEW T, NEW part \in Seq(T), NEW stop \in Stops
    PROVE  \A a, b \in DOMAIN CutAtBoundary(part, stop) :
             SegmentKey(CutAtBoundary(part, stop)[a], stop) = SegmentKey(CutAtBoundary(part, stop)[b], stop)
<1> DEFINE others == {n \in DOMAIN part : SegmentKey(part[n], stop) # SegmentKey(part[1], stop)}
           first == CHOOSE n \in others : \A k \in others : n <= k
           cut == CutAtBoundary(part, stop)
<1>1. cut = IF others = {} THEN part ELSE SubSeq(part, 1, first - 1)
  BY DEF CutAtBoundary
<1>2. DOMAIN part = 1..Len(part) /\ Len(part) \in Nat /\ others \subseteq DOMAIN part
  BY LenProperties
<1>3. \A n \in DOMAIN part : n \notin others => SegmentKey(part[n], stop) = SegmentKey(part[1], stop)
  OBVIOUS
<1>4. 1 \notin others
  OBVIOUS
<1> HIDE DEF others
<1>5. ASSUME others # {} PROVE first \in others /\ \A k \in others : first <= k
  <2>1. others \subseteq Nat
    BY <1>2
  <2>2. PICK n \in others : \A k \in others : ~(k < n)
    BY <1>5, <2>1, LeastNumber
  <2>3. \A k \in others : n <= k
    BY <2>1, <2>2
  <2> QED BY <2>3
<1> HIDE DEF first, cut
<1>6. \A a \in DOMAIN cut : a \in DOMAIN part /\ cut[a] = part[a] /\ a \notin others
  <2>1. CASE others = {}
    BY <1>1, <2>1
  <2>2. CASE others # {}
    <3>1. first \in 1..Len(part)
      BY <1>2, <1>5, <2>2
    <3>2. \A i \in 1..first - 1 : i \in 1..Len(part) /\ part[i] \in T
      BY <1>2, <3>1, ElementOfSeq
    <3> DEFINE m == first - 1
    <3>3. m \in Int /\ 1 \in Int /\ \A i \in 1..m : i \in 1..Len(part) /\ part[i] \in T
      BY <1>2, <3>1, <3>2
    <3>4. m >= 0 /\ cut = SubSeq(part, 1, m)
      BY <1>1, <1>2, <2>2, <3>1
    <3>5. \A k \in others : ~(k <= m)
      <4>1. \A k \in others : first <= k /\ k \in Nat
        BY <1>2, <1>5, <2>2
      <4> QED BY <1>2, <3>1, <4>1
    <3> HIDE DEF m
    <3>6. /\ cut \in Seq(T) /\ Len(cut) = IF 1 <= m THEN m - 1 + 1 ELSE 0
          /\ \A i \in 1..m - 1 + 1 : cut[i] = part[1 + i - 1]
      BY <3>3, <3>4, SubSeqProperties
    <3>7. DOMAIN cut = 1..m /\ \A i \in 1..m : cut[i] = part[i]
      <4>1. Len(cut) = m /\ \A i \in 1..m : cut[i] = part[i]
        BY <3>3, <3>4, <3>6
      <4> QED BY <3>6, <4>1, LenProperties
    <3> QED BY <1>2, <3>3, <3>5, <3>7
  <2> QED BY <2>1, <2>2
<1>7. \A a \in DOMAIN cut : SegmentKey(cut[a], stop) = SegmentKey(part[1], stop)
  BY <1>3, <1>6
<1> QED BY <1>7 DEF cut

\* An item in what is left is of the member it is tagged with.
Owned(list) == \A k \in DOMAIN list : list[k].item.of = list[k].member

LEMMA ShowLeftIsOwned ==
    ASSUME AiringIsListed, NEW show \in Shows, NEW start
    PROVE  Owned(Tagged(ShowLeft(show, Listed, recipe, Views, start, TRUE), show))
<1> DEFINE left == ShowLeft(show, Listed, recipe, Views, start, TRUE)
<1>1. Range(left) = {item \in ToSeeOf(show) : AtOrAfter(item, start)}
  BY ShowLeftIsToSee
<1>2. \A item \in ToSeeOf(show) : item.of = show
  <2>1. ToSeeOf(show) \subseteq Range(Listed[show])
    BY LibraryIsListed DEF ToSeeOf
  <2> QED BY <2>1, ListedIsAList
<1> HIDE DEF left
<1>3. \A k \in DOMAIN left : left[k].of = show
  BY <1>1, <1>2 DEF Range
<1>4. Owned(Tagged(left, show))
  BY <1>3 DEF Owned, Tagged
<1> QED BY <1>4 DEF left

LEMMA FilmLeftIsOwned ==
    ASSUME NEW film \in Films
    PROVE  Owned(Tagged(IF Wanted(Film[film], Views, TRUE) THEN <<Film[film]>> ELSE << >>, film))
<1> DEFINE reel == Film[film]
<1>1. reel.of = film
  BY LibraryAssumption
<1> HIDE DEF reel
<1> DEFINE left == IF Wanted(reel, Views, TRUE) THEN <<reel>> ELSE << >>
<1>2. \A k \in DOMAIN left : left[k] = reel
  <2>1. \A k \in DOMAIN <<reel>> : <<reel>>[k] = reel
    OBVIOUS
  <2>2. DOMAIN << >> = {}
    OBVIOUS
  <2>3. left = << >> \/ left = <<reel>>
    OBVIOUS
  <2> HIDE DEF left
  <2> QED BY <2>1, <2>2, <2>3
<1> HIDE DEF left
<1>3. Owned(Tagged(left, film))
  BY <1>1, <1>2 DEF Owned, Tagged
<1> QED BY <1>3 DEF left, reel

LEMMA ChildLeftIsOwned ==
    ASSUME AiringIsListed, NEW c \in Collections, NEW start, NEW k \in 1..Len(Children[c])
    PROVE  Owned(Tagged(LeftOfChild(Children[c], k, start), Children[c][k]))
<1> DEFINE ch == Children[c][k]
           left == LeftOfChild(Children[c], k, start)
<1>1. ch \in Shows \cup Films
  BY ChildrenAreListed
<1>2. CASE k < StartMember(Children[c], start)
  <2>1. left = << >>
    BY <1>2 DEF LeftOfChild
  <2>2. DOMAIN Tagged(<< >>, ch) = {}
    BY DEF Tagged
  <2> QED BY <2>1, <2>2 DEF Owned
<1>3. CASE ~(k < StartMember(Children[c], start)) /\ ch \in Shows
  <2>1. left = ShowOfChild(Children[c], k, start)
    BY <1>3 DEF LeftOfChild
  <2> QED BY <1>3, <2>1, ShowLeftIsOwned DEF ShowOfChild
<1>4. CASE ~(k < StartMember(Children[c], start)) /\ ch \notin Shows
  <2>1. left = IF Wanted(Film[ch], Views, TRUE) THEN <<Film[ch]>> ELSE << >>
    BY <1>4 DEF LeftOfChild
  <2> QED BY <1>1, <1>4, <2>1, FilmLeftIsOwned
<1> QED BY <1>2, <1>3, <1>4

LEMMA LeftIsOwned ==
    ASSUME recipe \in Recipes, AiringIsListed, NEW n \in Entries
    PROVE  Owned(LeftOf(n))
<1> DEFINE desc == recipe.entries[n]
           what == desc.what
<1>1. what \in Shows \cup Films \cup Collections
  BY EntriesAreMembers DEF IsMember
<1>2. Shows \cap Films = {} /\ (Shows \cup Films) \cap Collections = {}
  BY LibraryIsListed
<1>3. CASE what \in Collections
  <2> DEFINE children == Children[what]
             len == Len(children)
             ys == [k \in 1..len |-> Tagged(LeftOfChild(children, k, desc.start), children[k])]
             flat == FlattenSeq(ys)
  <2>1. LeftOf(n) = flat
    BY <1>2, <1>3, CollectionLeftIsFlat DEF LeftOf, Left
  <2>2. len \in Nat
    BY <1>3, ChildrenAreListed
  <2>3. \A k \in 1..len : ys[k] \in Seq(Tiles) /\ Owned(ys[k])
    BY <1>3, LeftOfChildIsAList, ChildLeftIsOwned
  <2>4. ys \in [1..len -> Seq(Tiles)]
    BY <2>3
  <2> HIDE DEF ys, len, flat
  <2>5. PICK row, col : Laid(flat, ys, len, row, col)
    BY <2>2, <2>4, FlattenLays DEF flat
  <2>6. \A i \in DOMAIN flat : row[i] \in 1..len /\ col[i] \in DOMAIN ys[row[i]] /\ flat[i] = ys[row[i]][col[i]]
    BY <2>5 DEF Laid
  <2> QED BY <2>1, <2>3, <2>6 DEF Owned
<1>4. CASE what \in Shows
  <2>1. LeftOf(n) = Tagged(ShowLeft(what, Listed, recipe, Views, desc.start, TRUE), what)
    BY <1>2, <1>4 DEF LeftOf, Left
  <2> QED BY <1>4, <2>1, ShowLeftIsOwned
<1>5. CASE what \in Films
  <2>1. LeftOf(n) = Tagged(IF Wanted(Film[what], Views, TRUE) THEN <<Film[what]>> ELSE << >>, what)
    BY <1>2, <1>5 DEF LeftOf, Left
  <2> QED BY <1>5, <2>1, FilmLeftIsOwned
<1> QED BY <1>1, <1>3, <1>4, <1>5

\* Two items of one entry are of one segment, if a batch is to stop there.
OfOneSegment(n, one, other) ==
    LET desc == recipe.entries[n] IN
    desc.episodes # 0 \/ SetBatch(recipe) # 0 =>
        /\ BatchStop(desc, recipe) \in Stops => one.of = other.of
        /\ BatchStop(desc, recipe) = "season" => one.season = other.season

LEMMA BatchIsOfOneSegment ==
    ASSUME recipe \in Recipes, AiringIsListed, NEW n \in Entries
    PROVE  \A a, b \in DOMAIN Batch(n) : OfOneSegment(n, Batch(n)[a].item, Batch(n)[b].item)
<1> DEFINE desc == recipe.entries[n]
           items == LeftOf(n)
           most == IF desc.episodes # 0 THEN desc.episodes ELSE SetBatch(recipe)
           stop == BatchStop(desc, recipe)
           batch == Batch(n)
<1>1. items \in Seq(Tiles) /\ \A k \in DOMAIN items : items[k].item.of = items[k].member
  BY LeftIsAList, LeftIsOwned DEF Owned
<1>2. batch = IF desc.what \in Films THEN items ELSE ApplyBatch(items, most, stop)
  BY DEF Batch, ResolveMember, LeftOf
<1>3. IsBeginning(batch, items)
  BY BatchIsTheHead
<1>4. desc.what \in Films => \A a, b \in DOMAIN items : a = b
  <2> SUFFICES ASSUME desc.what \in Films PROVE \A a, b \in DOMAIN items : a = b
    OBVIOUS
  <2> DEFINE left == IF Wanted(Film[desc.what], Views, TRUE) THEN <<Film[desc.what]>> ELSE << >>
  <2>1. items = Tagged(left, desc.what)
    BY LibraryIsListed DEF LeftOf, Left
  <2>2. DOMAIN left \subseteq {1}
    <3> DEFINE reel == Film[desc.what]
    <3> HIDE DEF reel
    <3>1. DOMAIN <<reel>> \subseteq {1}
      OBVIOUS
    <3>2. DOMAIN << >> \subseteq {1}
      OBVIOUS
    <3>3. left = << >> \/ left = <<reel>>
      BY DEF reel
    <3> HIDE DEF left
    <3> QED BY <3>1, <3>2, <3>3
  <2> HIDE DEF left, items
  <2>3. DOMAIN items \subseteq {1}
    BY <2>1, <2>2 DEF Tagged
  <2> QED BY <2>3
<1>5. \A k \in DOMAIN batch : batch[k].item.of = batch[k].member
  <2> HIDE DEF batch, items
  <2>1. PICK m \in Nat : DOMAIN batch = 1..m /\ 1..m \subseteq DOMAIN items /\ \A i \in 1..m : batch[i] = items[i]
    BY <1>3 DEF IsBeginning
  <2> QED BY <1>1, <2>1
<1>6. ASSUME desc.what \notin Films, most # 0, stop \in Stops
      PROVE  \A a, b \in DOMAIN batch : SegmentKey(batch[a], stop) = SegmentKey(batch[b], stop)
  <2> DEFINE size == AtLeastOne(IF most < SeriesLength THEN most ELSE SeriesLength)
             part == AtMost(items, size)
  <2>1. batch = CutAtBoundary(part, stop)
    BY <1>2, <1>6 DEF ApplyBatch
  <2>2. part \in Seq(Tiles)
    <3>1. most \in Int
      BY EntriesAreMembers, LibraryAssumption DEF SetBatch, IsMember
    <3>2. size \in Nat \ {0}
      <4> HIDE DEF most
      <4> QED BY <3>1, LibraryAssumption DEF AtLeastOne
    <3> HIDE DEF size, items
    <3> DEFINE m == IF Len(items) < size THEN Len(items) ELSE size
    <3>3. part = SubSeq(items, 1, m)
      BY DEF AtMost
    <3>4. m \in Nat /\ m <= Len(items) /\ DOMAIN items = 1..Len(items) /\ Len(items) \in Nat
      BY <1>1, <3>2, LenProperties
    <3> HIDE DEF m, part
    <3>5. \A i \in 1..m : items[i] \in Tiles
      BY <1>1, <3>4, ElementOfSeq
    <3>6. SubSeq(items, 1, m) \in Seq(Tiles)
      BY <3>4, <3>5, SubSeqProperties
    <3> QED BY <3>3, <3>6
  <2> HIDE DEF part, batch, stop
  <2> QED BY <1>6, <2>1, <2>2, CutHasOneKey
<1> SUFFICES ASSUME NEW a \in DOMAIN batch, NEW b \in DOMAIN batch
             PROVE  OfOneSegment(n, batch[a].item, batch[b].item)
  OBVIOUS
<1>7. CASE desc.what \in Films
  <2>1. a = b
    BY <1>2, <1>4, <1>7
  <2> QED BY <2>1 DEF OfOneSegment
<1>8. CASE desc.what \notin Films
  <2>1. SUFFICES ASSUME most # 0, stop \in Stops
        PROVE  batch[a].item.of = batch[b].item.of /\ (stop = "season" => batch[a].item.season = batch[b].item.season)
    <3>1. "season" \in Stops
      BY DEF Stops
    <3> HIDE DEF batch
    <3> QED BY <2>1, <3>1 DEF OfOneSegment
  <2>2. SegmentKey(batch[a], stop) = SegmentKey(batch[b], stop)
    BY <1>6, <1>8, <2>1
  <2> HIDE DEF batch, stop
  <2>3. batch[a].member = batch[b].member /\ (stop = "season" => batch[a].item.season = batch[b].item.season)
    BY <2>2, Zenon DEF SegmentKey
  <2> QED BY <1>5, <2>3
<1> QED BY <1>7, <1>8

-----------------------------------------------------------------------------
(* A lineup: of which entry in the order, and where in its batch, each item *)
(* of it is.                                                               *)
LEMMA AtMostBegins ==
    ASSUME NEW T, NEW s \in Seq(T), NEW k \in Nat
    PROVE  /\ AtMost(s, k) \in Seq(T) /\ Len(AtMost(s, k)) \in 0..Len(s)
           /\ \A i \in 1..Len(AtMost(s, k)) : AtMost(s, k)[i] = s[i]
<1> DEFINE m == IF Len(s) < k THEN Len(s) ELSE k
           part == AtMost(s, k)
<1>1. Len(s) \in Nat /\ DOMAIN s = 1..Len(s) /\ m \in 0..Len(s) /\ part = SubSeq(s, 1, m)
  BY LenProperties DEF AtMost
<1> HIDE DEF m, part
<1>2. m \in Int /\ 1 \in Int /\ \A i \in 1..m : s[i] \in T
  BY <1>1, ElementOfSeq
<1>3. /\ part \in Seq(T) /\ Len(part) = IF 1 <= m THEN m - 1 + 1 ELSE 0
      /\ \A i \in 1..m - 1 + 1 : part[i] = s[1 + i - 1]
  BY <1>1, <1>2, SubSeqProperties
<1>4. Len(part) = m /\ \A i \in 1..m : part[i] = s[i]
  BY <1>1, <1>3
<1> QED BY <1>1, <1>3, <1>4 DEF part

PlayItems == [entry : Entries, item : AllItems]

LaidOut(line, ord, row, col) ==
    /\ \A i \in DOMAIN line : row[i] \in 1..Len(ord) /\ col[i] \in Nat \ {0}
    /\ \A i \in DOMAIN line :
            LET n == ord[row[i]] IN
            col[i] \in DOMAIN Batch(n) /\ line[i].entry = n /\ line[i].item = Batch(n)[col[i]].item
    /\ \A i, j \in DOMAIN line : i < j => row[i] < row[j] \/ (row[i] = row[j] /\ col[i] < col[j])
    /\ \A j \in DOMAIN line : \A p \in 1..col[j] : \E i \in DOMAIN line : row[i] = row[j] /\ col[i] = p

LEMMA FlatIsLaid ==
    ASSUME recipe \in Recipes, AiringIsListed, NEW ord \in Seq(Entries)
    PROVE  Flat(ord) \in Seq(PlayItems) /\ \E row, col : LaidOut(Flat(ord), ord, row, col)
<1> DEFINE m == Len(ord)
           seqs == [k \in 1..m |-> Items(ord[k])]
           flat == Flat(ord)
<1>1. m \in Nat /\ DOMAIN ord = 1..m /\ \A k \in 1..m : ord[k] \in Entries
  BY LenProperties, ElementOfSeq
<1>2. flat = FlattenSeq(seqs)
  BY <1>1 DEF Flat
<1>3. ASSUME NEW n \in Entries
      PROVE  /\ Items(n) \in Seq(PlayItems) /\ DOMAIN Items(n) = DOMAIN Batch(n) /\ DOMAIN Batch(n) \subseteq Nat \ {0}
             /\ DOMAIN Items(n) = 1..Len(Items(n)) /\ Len(Items(n)) \in Nat
             /\ \A k \in DOMAIN Batch(n) : Items(n)[k].entry = n /\ Items(n)[k].item = Batch(n)[k].item
  <2> DEFINE batch == Batch(n)
             items == [k \in DOMAIN batch |-> [entry |-> n, item |-> batch[k].item]]
  <2>1. Items(n) = items
    BY DEF Items
  <2>2. batch \in Seq(Tiles)
    BY BatchIsTheHead
  <2> HIDE DEF batch
  <2>3. /\ Len(batch) \in Nat /\ DOMAIN batch = 1..Len(batch)
        /\ \A k \in 1..Len(batch) : batch[k].item \in AllItems
    <3>1. Len(batch) \in Nat /\ DOMAIN batch = 1..Len(batch)
      BY <2>2, LenProperties
    <3>2. \A k \in 1..Len(batch) : batch[k] \in Tiles
      BY <2>2, ElementOfSeq
    <3> QED BY <3>1, <3>2 DEF Tiles
  <2>4. items \in [1..Len(batch) -> PlayItems]
    BY <2>3 DEF PlayItems
  <2>5. items \in Seq(PlayItems)
    <3> HIDE DEF items
    <3> QED BY <2>3, <2>4, SeqDef
  <2>6. DOMAIN items = DOMAIN batch /\ \A k \in DOMAIN batch : items[k].entry = n /\ items[k].item = batch[k].item
    OBVIOUS
  <2> HIDE DEF items
  <2>7. DOMAIN items = 1..Len(items) /\ Len(items) \in Nat
    BY <2>5, LenProperties
  <2>8. DOMAIN batch \subseteq Nat \ {0}
    BY <2>3
  <2> QED BY <2>1, <2>5, <2>6, <2>7, <2>8 DEF batch
<1>4. seqs \in [1..m -> Seq(PlayItems)] /\ \A k \in 1..m : seqs[k] = Items(ord[k])
  BY <1>1, <1>3
<1> HIDE DEF flat, seqs, m
<1>5. flat \in Seq(PlayItems) /\ \E row, col : Laid(flat, seqs, m, row, col)
  BY <1>1, <1>2, <1>4, FlattenLays
<1>6. PICK row, col : Laid(flat, seqs, m, row, col)
  BY <1>5
<1>7. \A i \in DOMAIN flat : row[i] \in 1..m /\ col[i] \in DOMAIN seqs[row[i]] /\ flat[i] = seqs[row[i]][col[i]]
  BY <1>6 DEF Laid
<1>8. \A i, j \in DOMAIN flat : i < j => row[i] < row[j] \/ (row[i] = row[j] /\ col[i] < col[j])
  BY <1>6 DEF Laid
<1>9. \A k \in 1..m : \A p \in DOMAIN seqs[k] : \E i \in DOMAIN flat : row[i] = k /\ col[i] = p
  BY <1>6 DEF Laid
<1>10. ASSUME NEW i \in DOMAIN flat
       PROVE  /\ row[i] \in 1..Len(ord) /\ col[i] \in Nat \ {0}
              /\ col[i] \in DOMAIN Batch(ord[row[i]]) /\ flat[i].entry = ord[row[i]]
              /\ flat[i].item = Batch(ord[row[i]])[col[i]].item
  <2> DEFINE n == ord[row[i]]
  <2>1. n \in Entries /\ row[i] \in 1..m /\ seqs[row[i]] = Items(n)
    BY <1>1, <1>4, <1>7
  <2> HIDE DEF n
  <2>2. col[i] \in DOMAIN Items(n) /\ flat[i] = Items(n)[col[i]]
    BY <1>7, <2>1
  <2>3. col[i] \in DOMAIN Batch(n) /\ col[i] \in Nat \ {0}
        /\ Items(n)[col[i]].entry = n /\ Items(n)[col[i]].item = Batch(n)[col[i]].item
    BY <1>3, <2>1, <2>2
  <2> QED BY <2>1, <2>2, <2>3 DEF n, m
<1>11. ASSUME NEW j \in DOMAIN flat, NEW p \in 1..col[j]
       PROVE  \E i \in DOMAIN flat : row[i] = row[j] /\ col[i] = p
  <2>1. row[j] \in 1..m /\ ord[row[j]] \in Entries /\ seqs[row[j]] = Items(ord[row[j]])
    BY <1>1, <1>4, <1>7
  <2> DEFINE items == seqs[row[j]]
  <2>2. DOMAIN items = 1..Len(items) /\ Len(items) \in Nat
    BY <1>3, <2>1
  <2>3. col[j] \in DOMAIN items
    BY <1>7
  <2> HIDE DEF items
  <2>4. p \in DOMAIN items
    BY <2>2, <2>3
  <2> QED BY <1>9, <2>1, <2>4 DEF items
<1>12. LaidOut(flat, ord, row, col)
  BY <1>8, <1>10, <1>11 DEF LaidOut
<1> QED BY <1>5, <1>12 DEF flat

LEMMA CutIsLaid ==
    ASSUME NEW line \in Seq(PlayItems), NEW ord, NEW row, NEW col, LaidOut(line, ord, row, col),
           NEW k \in Nat
    PROVE  AtMost(line, k) \in Seq(PlayItems) /\ LaidOut(AtMost(line, k), ord, row, col)
<1> DEFINE part == AtMost(line, k)
<1>1. /\ part \in Seq(PlayItems) /\ Len(part) \in 0..Len(line)
      /\ \A i \in 1..Len(part) : part[i] = line[i]
  BY AtMostBegins
<1> HIDE DEF part
<1>2. DOMAIN part = 1..Len(part) /\ DOMAIN line = 1..Len(line) /\ Len(line) \in Nat
  BY <1>1, LenProperties
<1>3. \A i \in DOMAIN part : i \in DOMAIN line /\ part[i] = line[i]
  BY <1>1, <1>2
<1>4. /\ \A i \in DOMAIN line : row[i] \in 1..Len(ord) /\ col[i] \in Nat \ {0}
      /\ \A i, j \in DOMAIN line : i < j => row[i] < row[j] \/ (row[i] = row[j] /\ col[i] < col[j])
      /\ \A j \in DOMAIN line : \A p \in 1..col[j] : \E i \in DOMAIN line : row[i] = row[j] /\ col[i] = p
  BY DEF LaidOut
<1>5. ASSUME NEW j \in DOMAIN part, NEW p \in 1..col[j]
      PROVE  \E i \in DOMAIN part : row[i] = row[j] /\ col[i] = p
  <2>1. j \in DOMAIN line
    BY <1>3
  <2>2. PICK i \in DOMAIN line : row[i] = row[j] /\ col[i] = p
    BY <1>4, <2>1
  <2>3. col[j] \in Nat /\ p <= col[j] /\ p \in Nat /\ row[j] \in 1..Len(ord)
    BY <1>4, <2>1
  <2>4. ~(j < i)
    <3> SUFFICES ASSUME j < i PROVE FALSE
      OBVIOUS
    <3>1. row[j] < row[i] \/ (row[j] = row[i] /\ col[j] < col[i])
      BY <1>4, <2>1, <2>2
    <3>2. row[j] \in Int
      BY <2>3
    <3> QED BY <2>2, <2>3, <3>1, <3>2
  <2>5. i \in DOMAIN part
    BY <1>1, <1>2, <2>1, <2>4
  <2> QED BY <2>2, <2>5
<1>6. LaidOut(part, ord, row, col)
  BY <1>3, <1>4, <1>5 DEF LaidOut
<1> QED BY <1>1, <1>6 DEF part

LEMMA CapIsANumber == recipe \in Recipes => Cap \in Nat
<1>1. Length(recipe) \in Nat \/ Length(recipe) = Infinite
  BY WindowAssumption DEF Length, LengthOr, DefaultFor, Smaller
<1>2. InitialQueueSize(Length(recipe)) \in Nat
  BY <1>1, WindowAssumption DEF InitialQueueSize, Smaller
<1> QED BY <1>2 DEF Cap

\* Who is resumed stands before who is not.
LeadersFirst(ord) ==
    \A p, q \in DOMAIN ord : q <= p /\ LeadsInProgress(ord[p]) => LeadsInProgress(ord[q])

LEMMA BatchesAreEntries ==
    ASSUME recipe \in Recipes, NEW those
    PROVE  Batches(those) \in Seq(Entries)
<1> DEFINE list == recipe.entries
           nums == [n \in Entries |-> n]
           A == {n \in those : Found(n) /\ Batch(n) # << >> /\ (flags[n] = "open" \/ IsRevived(n))}
<1>1. list \in Seq({d \in Range(list) : IsMember(d)})
  BY RecipeAssumption
<1>2. Entries = 1..Len(list) /\ Len(list) \in Nat
  BY <1>1, LenProperties DEF Entries
<1>3. nums \in [1..Len(list) -> Entries]
  BY <1>2
<1> HIDE DEF nums, list
<1>4. nums \in Seq(Entries)
  BY <1>2, <1>3, SeqDef
<1>5. Batches(those) = Only(nums, A)
  BY DEF Batches, nums
<1> HIDE DEF A
<1> QED BY <1>4, <1>5, OnlyIsAList

LEMMA PoolLeadsWithLeaders ==
    ASSUME NEW batches \in Seq(Entries), NEW ord \in PoolOrders(batches)
    PROVE  ord \in Seq(Entries) /\ LeadersFirst(ord)
<1> DEFINE leading == {n \in Range(batches) : LeadsInProgress(n)}
           rest == Only(batches, Range(batches) \ leading)
           lead == Only(batches, leading)
<1>1. PICK shuffled \in Shuffles(rest) : ord = lead \o shuffled
  BY DEF PoolOrders
<1>2. /\ rest \in Seq(Entries) /\ Range(rest) = Range(batches) \cap (Range(batches) \ leading)
      /\ lead \in Seq(Entries) /\ Range(lead) = Range(batches) \cap leading
  <2> HIDE DEF leading
  <2> QED BY OnlyIsAList, OnlyRange
<1>3. (\A n \in Range(lead) : LeadsInProgress(n)) /\ \A n \in Range(rest) : ~LeadsInProgress(n)
  BY <1>2
<1> HIDE DEF rest, lead, leading
<1>4. PICK p \in [DOMAIN rest -> DOMAIN rest] : shuffled = [k \in DOMAIN rest |-> rest[p[k]]]
  BY <1>1 DEF Shuffles
<1>5. DOMAIN rest = 1..Len(rest) /\ Len(rest) \in Nat /\ \A k \in DOMAIN rest : rest[k] \in Entries /\ rest[k] \in Range(rest)
  BY <1>2, LenProperties, ElementOfSeq DEF Range
<1>6. shuffled \in Seq(Entries) /\ Len(shuffled) \in Nat /\ DOMAIN shuffled = 1..Len(shuffled)
      /\ \A k \in DOMAIN shuffled : ~LeadsInProgress(shuffled[k])
  <2>1. DOMAIN shuffled = DOMAIN rest /\ \A k \in DOMAIN rest : p[k] \in DOMAIN rest /\ shuffled[k] = rest[p[k]]
    BY <1>4
  <2>2. shuffled \in [1..Len(rest) -> Entries]
    BY <1>4, <1>5
  <2>3. shuffled \in Seq(Entries)
    BY <1>5, <2>2, SeqDef
  <2> QED BY <1>3, <1>5, <2>1, <2>3, LenProperties
<1>7. lead \in Seq(Entries) /\ DOMAIN lead = 1..Len(lead) /\ Len(lead) \in Nat
      /\ \A k \in DOMAIN lead : LeadsInProgress(lead[k])
  BY <1>2, <1>3, LenProperties DEF Range
<1>8. /\ ord \in Seq(Entries) /\ Len(ord) = Len(lead) + Len(shuffled)
      /\ \A i \in 1..Len(lead) : ord[i] = lead[i]
      /\ \A i \in 1..Len(shuffled) : ord[Len(lead) + i] = shuffled[i]
  BY <1>1, <1>6, <1>7, ConcatProperties
<1>9. DOMAIN ord = 1..Len(lead) + Len(shuffled)
  BY <1>8, LenProperties
<1>10. \A i \in 1..Len(lead) + Len(shuffled) : LeadsInProgress(ord[i]) <=> i <= Len(lead)
  <2> SUFFICES ASSUME NEW i \in 1..Len(lead) + Len(shuffled)
               PROVE  LeadsInProgress(ord[i]) <=> i <= Len(lead)
    OBVIOUS
  <2>1. CASE i <= Len(lead)
    <3>1. i \in 1..Len(lead)
      BY <1>7, <2>1
    <3>2. LeadsInProgress(lead[i]) /\ ord[i] = lead[i]
      BY <1>7, <1>8, <3>1
    <3> QED BY <2>1, <3>2
  <2>2. CASE ~(i <= Len(lead))
    <3> DEFINE k == i - Len(lead)
    <3>1. k \in 1..Len(shuffled) /\ Len(lead) + k = i
      BY <1>6, <1>7, <2>2
    <3> HIDE DEF k
    <3>2. ~LeadsInProgress(shuffled[k]) /\ ord[i] = shuffled[k]
      BY <1>6, <1>8, <3>1
    <3> QED BY <2>2, <3>2
  <2> QED BY <2>1, <2>2
<1>11. LeadersFirst(ord)
  <2> SUFFICES ASSUME NEW i \in DOMAIN ord, NEW j \in DOMAIN ord, j <= i, LeadsInProgress(ord[i])
               PROVE  LeadsInProgress(ord[j])
    BY DEF LeadersFirst
  <2>1. i \in 1..Len(lead) + Len(shuffled) /\ j \in 1..Len(lead) + Len(shuffled) /\ i \in Nat /\ j \in Nat
    BY <1>6, <1>7, <1>9
  <2>2. i <= Len(lead)
    BY <1>10, <2>1
  <2>3. j <= Len(lead)
    BY <1>7, <2>1, <2>2
  <2> QED BY <1>10, <2>1, <2>3
<1> QED BY <1>8, <1>11

LEMMA LineupsAreLaid ==
    ASSUME recipe \in Recipes, AiringIsListed, NEW those, NEW line \in Lineups(those)
    PROVE  /\ line \in Seq(PlayItems)
           /\ \E ord \in Seq(Entries) :
                /\ \E row, col : LaidOut(line, ord, row, col)
                /\ recipe.curated => LeadersFirst(ord)
<1> DEFINE batches == Batches(those)
<1>1. batches \in Seq(Entries) /\ Cap \in Nat
  BY BatchesAreEntries, CapIsANumber
<1>2. CASE recipe.curated
  <2>1. PICK ord \in PoolOrders(batches) : line = AtMost(Flat(ord), Cap)
    BY <1>2 DEF Lineups
  <2> HIDE DEF batches
  <2>2. ord \in Seq(Entries) /\ LeadersFirst(ord)
    BY <1>1, PoolLeadsWithLeaders
  <2>3. PICK row, col : LaidOut(Flat(ord), ord, row, col)
    BY <2>2, FlatIsLaid
  <2>4. Flat(ord) \in Seq(PlayItems)
    BY <2>2, FlatIsLaid
  <2>5. line \in Seq(PlayItems) /\ LaidOut(line, ord, row, col)
    BY <1>1, <2>1, <2>3, <2>4, CutIsLaid
  <2> QED BY <2>2, <2>5
<1>3. CASE ~recipe.curated
  <2> DEFINE ord == AtMost(batches, Cap)
  <2>1. line = Flat(ord)
    BY <1>3 DEF Lineups
  <2> HIDE DEF batches
  <2>2. ord \in Seq(Entries)
    BY <1>1, AtMostBegins
  <2> HIDE DEF ord
  <2>3. line \in Seq(PlayItems) /\ \E row, col : LaidOut(line, ord, row, col)
    BY <2>1, <2>2, FlatIsLaid
  <2> QED BY <1>3, <2>2, <2>3
<1> QED BY <1>2, <1>3

\* What is queued is items of entries, each entry's of one segment.
PlayInv ==
    /\ ~recipe.reel => play \in Seq(PlayItems)
    /\ BatchWithinSegment

LEMMA LaidInSegments ==
    ASSUME recipe \in Recipes, AiringIsListed, NEW line \in Seq(PlayItems), NEW ord \in Seq(Entries),
           NEW row, NEW col, LaidOut(line, ord, row, col)
    PROVE  \A i, j \in DOMAIN line :
             line[i].entry = line[j].entry => OfOneSegment(line[i].entry, line[i].item, line[j].item)
<1> SUFFICES ASSUME NEW i \in DOMAIN line, NEW j \in DOMAIN line, line[i].entry = line[j].entry
             PROVE  OfOneSegment(line[i].entry, line[i].item, line[j].item)
  OBVIOUS
<1> DEFINE n == line[i].entry
<1>1. /\ row[i] \in 1..Len(ord) /\ row[j] \in 1..Len(ord)
      /\ ord[row[i]] = n /\ ord[row[j]] = n
      /\ col[i] \in DOMAIN Batch(n) /\ line[i].item = Batch(n)[col[i]].item
      /\ col[j] \in DOMAIN Batch(n) /\ line[j].item = Batch(n)[col[j]].item
  BY DEF LaidOut
<1> HIDE DEF n
<1>2. n \in Entries
  BY <1>1, ElementOfSeq
<1>3. OfOneSegment(n, line[i].item, line[j].item)
  BY <1>1, <1>2, BatchIsOfOneSegment
<1> QED BY <1>3 DEF n

LEMMA SegmentsSaid ==
    BatchWithinSegment <=>
        (~recipe.reel => \A i, j \in DOMAIN play :
            play[i].entry = play[j].entry => OfOneSegment(play[i].entry, play[i].item, play[j].item))
BY DEF BatchWithinSegment, OfOneSegment

LEMMA PlayStarts == CuratedInit => PlayInv
<1> SUFFICES ASSUME CuratedInit PROVE PlayInv
  OBVIOUS
<1>1. play = << >>
  BY DEF CuratedInit
<1>2. << >> \in Seq(PlayItems) /\ DOMAIN << >> = {}
  OBVIOUS
<1> QED BY <1>1, <1>2 DEF PlayInv, BatchWithinSegment

LEMMA PlayKeeps == QueueInv /\ PlayInv /\ [CuratedNext]_curatedVars => PlayInv'
<1> SUFFICES ASSUME QueueInv, PlayInv, [CuratedNext]_curatedVars PROVE PlayInv'
  OBVIOUS
<1>1. recipe' = recipe
  BY Zenon DEF CuratedNext, curatedVars, ScanAll, ScanOne, Scan, WatchHead, StopMidway, Elsewhere,
               WatchedElsewhere, Air, Airs, Tag, TagByHand, Library, LibraryChanges
<1>2. PlayItems' = PlayItems
  BY <1>1 DEF PlayItems, Entries
<1> DEFINE Good(line) == /\ line \in Seq(PlayItems)
                         /\ \A i, j \in DOMAIN line : line[i].entry = line[j].entry =>
                                OfOneSegment(line[i].entry, line[i].item, line[j].item)
<1>3. PlayInv <=> (~recipe.reel => Good(play))
  BY SegmentsSaid DEF PlayInv
<1>4. PlayInv' <=> (~recipe.reel => Good(play'))
  <2>1. BatchWithinSegment' <=>
          (~recipe.reel => \A i, j \in DOMAIN play' :
             play'[i].entry = play'[j].entry => OfOneSegment(play'[i].entry, play'[i].item, play'[j].item))
    BY <1>1 DEF BatchWithinSegment, OfOneSegment
  <2> QED BY <1>1, <1>2, <2>1 DEF PlayInv
<1> HIDE DEF Good
<1>5. ASSUME play' = play PROVE PlayInv'
  BY <1>3, <1>4, <1>5
<1>6. CASE ScanAll \/ ScanOne
  <2> SUFFICES ASSUME ~recipe.reel PROVE Good(play')
    BY <1>4
  <2>1. PICK those : play' \in Lineups(those)
    BY <1>6 DEF ScanAll, ScanOne, Scan
  <2>2. recipe \in Recipes /\ AiringIsListed
    BY DEF QueueInv
  <2>3. PICK ord \in Seq(Entries) : \E row, col : LaidOut(play', ord, row, col)
    BY <2>1, <2>2, LineupsAreLaid
  <2>4. PICK row, col : LaidOut(play', ord, row, col)
    BY <2>3
  <2>5. play' \in Seq(PlayItems)
    BY <2>1, <2>2, LineupsAreLaid
  <2> QED BY <2>2, <2>4, <2>5, LaidInSegments DEF Good
<1>7. CASE WatchHead
  <2> SUFFICES ASSUME ~recipe.reel PROVE Good(play')
    BY <1>4
  <2>1. play # << >> /\ play' = Tail(play) /\ Good(play)
    BY <1>3, <1>7 DEF WatchHead
  <2>2. play \in Seq(PlayItems)
    BY <2>1 DEF Good
  <2>3. /\ play' \in Seq(PlayItems) /\ Len(play') = Len(play) - 1
        /\ \A i \in 1..Len(play') : play'[i] = play[i + 1]
    BY <2>1, <2>2, HeadTailProperties
  <2>4. DOMAIN play = 1..Len(play) /\ Len(play) \in Nat /\ DOMAIN play' = 1..Len(play')
    BY <2>2, <2>3, LenProperties
  <2>5. \A i \in DOMAIN play' : i + 1 \in DOMAIN play /\ play'[i] = play[i + 1]
    BY <2>3, <2>4
  <2> QED BY <2>1, <2>3, <2>5 DEF Good
<1>8. CASE StopMidway
  <2>1. play' = << >>
    BY <1>8 DEF StopMidway
  <2>2. << >> \in Seq(PlayItems) /\ DOMAIN << >> = {}
    OBVIOUS
  <2> QED BY <1>4, <2>1, <2>2 DEF Good
<1> QED BY <1>5, <1>6, <1>7, <1>8, Zenon DEF CuratedNext, curatedVars, Elsewhere, WatchedElsewhere,
           Air, Airs, Tag, TagByHand, Library, LibraryChanges

\* An entry's items in a lineup begin with the head of its batch.
LEMMA BlocksBeginTheBatch ==
    ASSUME NEW line \in Seq(PlayItems), NEW ord, NEW row, NEW col, LaidOut(line, ord, row, col),
           NEW k \in DOMAIN line, k = 1 \/ line[k - 1].entry # line[k].entry
    PROVE  col[k] = 1
<1>1. DOMAIN line = 1..Len(line) /\ Len(line) \in Nat /\ k \in Nat /\ k >= 1
  <2>1. DOMAIN line = 1..Len(line) /\ Len(line) \in Nat
    BY LenProperties
  <2> QED BY <2>1
<1>2. /\ \A i \in DOMAIN line : row[i] \in 1..Len(ord) /\ col[i] \in Nat \ {0} /\ line[i].entry = ord[row[i]]
      /\ \A i, j \in DOMAIN line : i < j => row[i] < row[j] \/ (row[i] = row[j] /\ col[i] < col[j])
      /\ \A j \in DOMAIN line : \A p \in 1..col[j] : \E i \in DOMAIN line : row[i] = row[j] /\ col[i] = p
  BY DEF LaidOut
<1> SUFFICES ASSUME col[k] # 1 PROVE FALSE
  OBVIOUS
<1>3. col[k] \in Nat /\ col[k] > 1 /\ 1 \in 1..col[k]
  BY <1>2
<1>4. PICK i \in DOMAIN line : row[i] = row[k] /\ col[i] = 1
  BY <1>2, <1>3
<1>5. row[k] \in Int /\ i \in Nat /\ i >= 1
  BY <1>1, <1>2
<1>6. i < k
  <2>1. ~(k < i)
    <3> SUFFICES ASSUME k < i PROVE FALSE
      OBVIOUS
    <3>1. row[k] < row[i] \/ (row[k] = row[i] /\ col[k] < col[i])
      BY <1>2
    <3> QED BY <1>3, <1>4, <1>5, <3>1
  <2>2. k # i
    BY <1>3, <1>4
  <2> QED BY <1>1, <1>5, <2>1, <2>2
<1> DEFINE j == k - 1
<1>7. j \in DOMAIN line /\ j < k /\ i <= j /\ j \in Nat
  BY <1>1, <1>5, <1>6
<1> HIDE DEF j
<1>8. row[j] \in Int /\ row[i] \in Int
  BY <1>2, <1>7
<1>9. row[j] <= row[k]
  <2>1. row[j] < row[k] \/ (row[j] = row[k] /\ col[j] < col[k])
    BY <1>2, <1>7
  <2> QED BY <1>5, <1>8, <2>1
<1>10. row[i] <= row[j]
  <2>1. CASE i = j
    BY <1>8, <2>1
  <2>2. CASE i < j
    <3>1. row[i] < row[j] \/ (row[i] = row[j] /\ col[i] < col[j])
      BY <1>2, <1>7, <2>2
    <3> QED BY <1>8, <3>1
  <2> QED BY <1>5, <1>7, <2>1, <2>2
<1>11. row[j] = row[k]
  BY <1>4, <1>5, <1>8, <1>9, <1>10
<1>12. line[j].entry = line[k].entry
  BY <1>2, <1>7, <1>11, SMTT(20)
<1>13. k # 1
  BY <1>5, <1>6
<1> QED BY <1>12, <1>13 DEF j

\* Of a pool, who is resumed stands before who is not.
LEMMA ResumedLead ==
    ASSUME QueueInv, [CuratedNext]_curatedVars, ~UNCHANGED curatedVars, asked' # {}, recipe.curated,
           NEW k \in DOMAIN play', k = 1 \/ play'[k - 1].entry # play'[k].entry,
           play'[k].item \in started, play'[k].item.of \in Shows,
           NEW j \in 1..k, j = 1 \/ play'[j - 1].entry # play'[j].entry
    PROVE  play'[j].item \in started /\ play'[j].item.of \in Shows
<1>1. recipe \in Recipes /\ AiringIsListed
  BY DEF QueueInv
<1>2. ~recipe.reel
  BY <1>1, RecipeAssumption
<1>3. PICK those : play' \in Lineups(those)
  BY <1>2, OnlyScansAsk DEF Scan
<1>4. PICK ord \in Seq(Entries) : (\E row, col : LaidOut(play', ord, row, col)) /\ LeadersFirst(ord)
  BY <1>1, <1>3, LineupsAreLaid
<1>5. PICK row, col : LaidOut(play', ord, row, col)
  BY <1>4
<1> DEFINE line == play'
<1>6. line \in Seq(PlayItems)
  BY <1>1, <1>3, LineupsAreLaid
<1>7. LaidOut(line, ord, row, col)
  BY <1>5
<1>8. /\ k \in DOMAIN line /\ j \in 1..k
      /\ k = 1 \/ line[k - 1].entry # line[k].entry
      /\ j = 1 \/ line[j - 1].entry # line[j].entry
      /\ line[k].item \in started /\ line[k].item.of \in Shows
  OBVIOUS
<1>9. SUFFICES line[j].item \in started /\ line[j].item.of \in Shows
  OBVIOUS
<1> HIDE DEF line
<1>10. DOMAIN line = 1..Len(line) /\ Len(line) \in Nat /\ DOMAIN ord = 1..Len(ord) /\ Len(ord) \in Nat
  BY <1>6, LenProperties
<1>11. j \in DOMAIN line /\ j <= k /\ j \in Nat /\ k \in Nat
  BY <1>8, <1>10
<1>12. col[k] = 1 /\ col[j] = 1
  BY <1>6, <1>7, <1>8, <1>11, BlocksBeginTheBatch
<1>13. \A i \in {j, k} : /\ row[i] \in DOMAIN ord /\ ord[row[i]] \in Entries
                         /\ line[i].item = Batch(ord[row[i]])[1].item
  <2>1. \A i \in {j, k} : i \in DOMAIN line /\ col[i] = 1
    BY <1>8, <1>11, <1>12
  <2>2. \A i \in {j, k} : row[i] \in 1..Len(ord) /\ line[i].item = Batch(ord[row[i]])[1].item
    BY <1>7, <2>1 DEF LaidOut
  <2> QED BY <1>10, <2>2, ElementOfSeq
<1>14. LeadsInProgress(ord[row[k]])
  BY <1>8, <1>13 DEF LeadsInProgress, HeadStarted
<1>15. row[j] <= row[k]
  <2>1. row[j] \in Int /\ row[k] \in Int
    BY <1>10, <1>13
  <2>2. CASE j = k
    BY <2>1, <2>2
  <2>3. CASE j < k
    <3>1. row[j] < row[k] \/ (row[j] = row[k] /\ col[j] < col[k])
      BY <1>7, <1>8, <1>11, <2>3 DEF LaidOut
    <3> QED BY <2>1, <3>1
  <2> QED BY <1>11, <2>2, <2>3
<1>16. LeadsInProgress(ord[row[j]])
  BY <1>4, <1>13, <1>14, <1>15 DEF LeadersFirst
<1> QED BY <1>13, <1>16 DEF LeadsInProgress, HeadStarted

\* No step breaks a rule of the queue.
LEMMA StepsKeepTheRules ==
    ASSUME QueueInv, PlayInv, [CuratedNext]_curatedVars
    PROVE  /\ [play' # play => BatchWithinSegment']_curatedVars
           /\ [\A n \in Entries : flags[n] = "open" /\ flags'[n] = "stamped" =>
                   StillToSee(n) = {} /\ recipe.entries[n].what \notin missing]_curatedVars
           /\ [asked' # {} /\ recipe.curated =>
                   LET Begins(k) == k = 1 \/ play'[k - 1].entry # play'[k].entry
                       IsResumed(k) == play'[k].item \in started /\ play'[k].item.of \in Shows
                   IN  \A k \in DOMAIN play' : Begins(k) /\ IsResumed(k) =>
                           \A j \in 1..k : Begins(j) => IsResumed(j)]_curatedVars
           /\ [asked' # {} =>
                   \A n \in Entries : flags[n] = "hand" /\ flags'[n] # "hand" =>
                       StillToSee(n) \cap started # {}]_curatedVars
<1>1. BatchWithinSegment'
  BY PlayKeeps DEF PlayInv
<1>2. \A n \in Entries : flags[n] = "open" /\ flags'[n] = "stamped" =>
          StillToSee(n) = {} /\ recipe.entries[n].what \notin missing
  BY RetiresTheWatched
<1>3. ASSUME ~UNCHANGED curatedVars, asked' # {}, recipe.curated,
             NEW k \in DOMAIN play', k = 1 \/ play'[k - 1].entry # play'[k].entry,
             play'[k].item \in started, play'[k].item.of \in Shows,
             NEW j \in 1..k, j = 1 \/ play'[j - 1].entry # play'[j].entry
      PROVE  play'[j].item \in started /\ play'[j].item.of \in Shows
  BY <1>3, ResumedLead
<1>4. ASSUME ~UNCHANGED curatedVars, asked' # {}, NEW n \in Entries, flags[n] = "hand", flags'[n] # "hand"
      PROVE  StillToSee(n) \cap started # {}
  BY <1>4, KeepsHandSkips
<1> QED BY <1>1, <1>2, <1>3, <1>4

(* resolve.ts nextQueue: for every library, queue and history, a scan       *)
(* keeps the rules of the queue.                                           *)
THEOREM QueueStaysRuled == CuratedSpec => QueueKeepsItsRules
<1>1. CuratedInit => QueueInv /\ PlayInv
  BY QueueStarts, PlayStarts
<1>2. QueueInv /\ PlayInv /\ [CuratedNext]_curatedVars => QueueInv' /\ PlayInv'
  BY QueueKeeps, PlayKeeps
<1>3. QueueInv /\ PlayInv /\ [CuratedNext]_curatedVars =>
        /\ [play' # play => BatchWithinSegment']_curatedVars
        /\ [\A n \in Entries : flags[n] = "open" /\ flags'[n] = "stamped" =>
                StillToSee(n) = {} /\ recipe.entries[n].what \notin missing]_curatedVars
        /\ [asked' # {} /\ recipe.curated =>
                LET Begins(k) == k = 1 \/ play'[k - 1].entry # play'[k].entry
                    IsResumed(k) == play'[k].item \in started /\ play'[k].item.of \in Shows
                IN  \A k \in DOMAIN play' : Begins(k) /\ IsResumed(k) =>
                        \A j \in 1..k : Begins(j) => IsResumed(j)]_curatedVars
        /\ [asked' # {} =>
                \A n \in Entries : flags[n] = "hand" /\ flags'[n] # "hand" =>
                    StillToSee(n) \cap started # {}]_curatedVars
  BY StepsKeepTheRules
<1> QED BY <1>1, <1>2, <1>3, PTL DEF CuratedSpec, QueueKeepsItsRules, RetiredIsWatched, InProgressLeads, HandSkipsStay

-----------------------------------------------------------------------------
(* The registry of sets.  First what the searches of the code find.        *)

FirstOf(places) == IF places # {} THEN Min(places) ELSE 0

LEMMA FirstIsLeast ==
    ASSUME NEW I, I \subseteq Nat \ {0}
    PROVE  /\ I = {} <=> FirstOf(I) = 0
           /\ I # {} => FirstOf(I) \in I /\ \A j \in I : FirstOf(I) <= j
           /\ \A i \in I : (\A j \in I : i <= j) => FirstOf(I) = i
<1>1. CASE I = {}
  BY <1>1 DEF FirstOf
<1>2. CASE I # {}
  <2>1. PICK i \in I : \A j \in I : ~(j < i)
    BY <1>2, LeastNumber
  <2>2. \A j \in I : i <= j
    BY <2>1
  <2>3. Min(I) \in I /\ \A j \in I : Min(I) <= j
    BY <2>2 DEF Min
  <2>4. I # {} /\ FirstOf(I) = Min(I)
    BY <1>2 DEF FirstOf
  <2>5. ASSUME NEW k \in I, \A j \in I : k <= j PROVE FirstOf(I) = k
    <3>1. k <= FirstOf(I) /\ FirstOf(I) <= k /\ k \in Nat /\ FirstOf(I) \in Nat
      BY <2>3, <2>4, <2>5
    <3> QED BY <3>1
  <2> QED BY <2>3, <2>4, <2>5
<1> QED BY <1>1, <1>2

PlacesOf(file, id) == {n \in 1..Len(file) : file[n].id = id}

LEMMA AtIsFirst == \A id : At(id) = FirstOf(PlacesOf(sets, id))
BY DEF At, SelectInSeq, FirstOf, PlacesOf

(* Of a file, an id names its one place.                                   *)
LEMMA IdsHavePlaces ==
    ASSUME NEW file, IsRegistry(file)
    PROVE  /\ DOMAIN file = 1..Len(file) /\ Len(file) \in Nat
           /\ \A n \in DOMAIN file : FirstOf(PlacesOf(file, file[n].id)) = n
           /\ \A id : LET n == FirstOf(PlacesOf(file, id)) IN
                n # 0 => n \in DOMAIN file /\ file[n].id = id
           /\ \A id : (\A n \in DOMAIN file : file[n].id # id) => FirstOf(PlacesOf(file, id)) = 0
<1>1. DOMAIN file = 1..Len(file) /\ Len(file) \in Nat
  BY LenProperties DEF IsRegistry
<1>2. \A id : PlacesOf(file, id) \subseteq Nat \ {0} /\ PlacesOf(file, id) \subseteq DOMAIN file
  BY <1>1 DEF PlacesOf
<1>3. ASSUME NEW n \in DOMAIN file PROVE FirstOf(PlacesOf(file, file[n].id)) = n
  <2>1. PlacesOf(file, file[n].id) = {n}
    BY <1>1 DEF PlacesOf, IsRegistry
  <2>2. n \in Nat
    BY <1>1
  <2> QED BY <1>2, <2>1, <2>2, FirstIsLeast
<1>4. ASSUME NEW id, FirstOf(PlacesOf(file, id)) # 0
      PROVE  FirstOf(PlacesOf(file, id)) \in DOMAIN file /\ file[FirstOf(PlacesOf(file, id))].id = id
  <2>1. FirstOf(PlacesOf(file, id)) \in PlacesOf(file, id)
    BY <1>2, <1>4, FirstIsLeast
  <2> QED BY <1>1, <2>1 DEF PlacesOf
<1>5. ASSUME NEW id, \A n \in DOMAIN file : file[n].id # id PROVE FirstOf(PlacesOf(file, id)) = 0
  <2>1. PlacesOf(file, id) = {}
    BY <1>1, <1>5 DEF PlacesOf
  <2> QED BY <2>1 DEF FirstOf
<1> QED BY <1>1, <1>3, <1>4, <1>5

LEMMA SetsHavePlaces ==
    ASSUME IsRegistry(sets)
    PROVE  /\ DOMAIN sets = 1..Len(sets) /\ Len(sets) \in Nat
           /\ \A n \in DOMAIN sets : At(sets[n].id) = n /\ Get(sets[n].id) = sets[n]
           /\ \A id \in Ids : At(id) \in DOMAIN sets /\ sets[At(id)].id = id /\ Get(id) = sets[At(id)]
           /\ \A id : id \notin Ids => At(id) = 0
<1>1. \A id \in Ids : \E n \in DOMAIN sets : sets[n].id = id
  BY DEF Ids
<1>2. \A id : id \notin Ids => \A n \in DOMAIN sets : sets[n].id # id
  BY DEF Ids
<1> QED BY <1>1, <1>2, IdsHavePlaces, AtIsFirst DEF Get

-----------------------------------------------------------------------------
FilteredFrom(t, s, A, from) ==
    /\ \A i \in DOMAIN t : from[i] \in DOMAIN s /\ s[from[i]] = t[i] /\ s[from[i]] \in A
    /\ \A i, j \in DOMAIN t : i < j => from[i] < from[j]
    /\ \A p \in DOMAIN s : s[p] \in A => \E i \in DOMAIN t : from[i] = p

(* What a filter keeps stands where it stood.                              *)
LEMMA OnlyPlaces ==
    ASSUME NEW S, NEW s \in Seq(S), NEW A
    PROVE  \E from : FilteredFrom(Only(s, A), s, A, from)
<1> DEFINE P == {n \in DOMAIN s : s[n] \in A}
           t == Picked(s, P)
<1>1. t \in Seq(S) /\ t = Only(s, A)
  BY PickedPicks DEF Only
<1>2. PICK from : PicksBy(t, s, P, Len(s), from)
  BY PickedPicks
<1>3. DOMAIN t = 1..Len(t) /\ DOMAIN s = 1..Len(s) /\ Len(t) \in Nat
  BY <1>1, LenProperties
<1>4. \A i \in DOMAIN t : from[i] \in P /\ t[i] = s[from[i]]
  BY <1>2, <1>3 DEF PicksBy
<1>5. \A p \in P : p \in P \cap (1..Len(s))
  BY <1>3
<1>6. /\ \A i, j \in DOMAIN t : i < j => from[i] < from[j]
      /\ \A p \in P : \E i \in DOMAIN t : from[i] = p
  BY <1>2, <1>3, <1>5 DEF PicksBy
<1> HIDE DEF t
<1>7. FilteredFrom(t, s, A, from)
  BY <1>4, <1>6 DEF FilteredFrom
<1> QED BY <1>1, <1>7

(* The first that passes is still the first when only what passes, and     *)
(* more, is left.                                                          *)
LEMMA FirstOfTheFiltered ==
    ASSUME NEW S, NEW s \in Seq(S), NEW A, NEW T, NEW n \in DOMAIN s, s[n] \in A, s[n] \in T,
           \A j \in DOMAIN s : j < n => ~(s[j] \in A /\ s[j] \in T)
    PROVE  \E k \in DOMAIN Only(s, A) :
             /\ Only(s, A)[k] = s[n]
             /\ \A j \in DOMAIN Only(s, A) : j < k => Only(s, A)[j] \notin T
<1> DEFINE t == Only(s, A)
<1>1. PICK from : FilteredFrom(t, s, A, from)
  BY OnlyPlaces
<1> HIDE DEF t
<1>2. PICK k \in DOMAIN t : from[k] = n
  BY <1>1 DEF FilteredFrom
<1>3. \A j \in DOMAIN t : j < k => t[j] \notin T
  BY <1>1, <1>2 DEF FilteredFrom
<1>4. t[k] = s[n]
  BY <1>1, <1>2 DEF FilteredFrom
<1> QED BY <1>2, <1>3, <1>4 DEF t

(* Places that are distinct stay so.                                       *)
LEMMA OnlyIsInjective ==
    ASSUME NEW S, NEW s \in Seq(S), NEW A, \A i, j \in DOMAIN s : s[i] = s[j] => i = j
    PROVE  \A i, j \in DOMAIN Only(s, A) : Only(s, A)[i] = Only(s, A)[j] => i = j
<1> DEFINE t == Only(s, A)
<1>1. PICK from : FilteredFrom(t, s, A, from)
  BY OnlyPlaces
<1>2. DOMAIN t = 1..Len(t) /\ Len(t) \in Nat /\ DOMAIN s = 1..Len(s) /\ Len(s) \in Nat
  BY OnlyIsAList, LenProperties
<1> HIDE DEF t
<1> SUFFICES ASSUME NEW i \in DOMAIN t, NEW j \in DOMAIN t, t[i] = t[j], i # j PROVE FALSE
  BY DEF t
<1>3. from[i] = from[j]
  BY <1>1 DEF FilteredFrom
<1>4. i < j \/ j < i
  BY <1>2
<1>5. from[i] \in Int
  BY <1>1, <1>2 DEF FilteredFrom
<1> QED BY <1>1, <1>3, <1>4, <1>5 DEF FilteredFrom

-----------------------------------------------------------------------------
(* A file that stems from a registry is one.                               *)

Stems(new, old) ==
    /\ new.id = old.id /\ new.top = old.top /\ new.source = old.source
    /\ new.profiles = old.profiles /\ (old.superseded => new.superseded)

Waits(set) == \E title : AwaitsMigration(set, title)

LEMMA WaitersStem ==
    ASSUME NEW new, NEW old, IsSet(new), IsSet(old), Stems(new, old), NEW title, AwaitsMigration(new, title)
    PROVE  AwaitsMigration(old, title)
BY DEF Stems, AwaitsMigration, IsSet

UniqueIds(file) == \A m, n \in DOMAIN file : file[m].id = file[n].id => m = n

\* What a changed file has of the one before: each set stems from one there was, or waits
\* for no migration and binds no profile that does.
Follows(g, file) ==
    \A n \in DOMAIN g :
        \/ \E m \in DOMAIN file : Stems(g[n], file[m])
        \/ /\ \A title : ~AwaitsMigration(g[n], title)
           /\ \A m \in DOMAIN g, title \in DOMAIN SetForProfile :
                AwaitsMigration(g[m], title) => ~Binds(g[n], title)

LEMMA RegistriesFollow ==
    ASSUME NEW file, IsRegistry(file), NEW g, g \in Seq(Range(g)), UniqueIds(g), Follows(g, file),
           \A n \in DOMAIN g : IsSet(g[n]) /\ OfItsProfile(g[n])
    PROVE  IsRegistry(g)
<1>1. ASSUME NEW m \in DOMAIN g, NEW n \in DOMAIN g, NEW title \in DOMAIN SetForProfile,
             AwaitsMigration(g[m], title)
      PROVE  ~Binds(g[n], title)
  <2>1. PICK a \in DOMAIN file : Stems(g[m], file[a])
    BY <1>1 DEF Follows
  <2>2. AwaitsMigration(file[a], title)
    BY <1>1, <2>1, WaitersStem DEF IsRegistry
  <2>3. CASE \E b \in DOMAIN file : Stems(g[n], file[b])
    <3>1. PICK b \in DOMAIN file : Stems(g[n], file[b])
      BY <2>3
    <3>2. ~Binds(file[b], title)
      BY <2>2 DEF IsRegistry
    <3> QED BY <3>1, <3>2 DEF Stems, Binds
  <2> QED BY <1>1, <2>3 DEF Follows
<1> QED BY <1>1 DEF IsRegistry, UniqueIds

LEMMA RegistriesStem ==
    ASSUME NEW file, IsRegistry(file), NEW g, g \in Seq(Range(g)), UniqueIds(g),
           \A n \in DOMAIN g : IsSet(g[n]) /\ \E m \in DOMAIN file : Stems(g[n], file[m])
    PROVE  IsRegistry(g) /\ Follows(g, file)
<1>1. \A n \in DOMAIN g : OfItsProfile(g[n])
  BY DEF IsRegistry, OfItsProfile, Stems
<1>2. Follows(g, file)
  BY DEF Follows
<1> QED BY <1>1, <1>2, RegistriesFollow

LEMMA ListsOfThemselves ==
    ASSUME NEW S, NEW s \in Seq(S)
    PROVE  s \in Seq(Range(s))
<1>1. DOMAIN s = 1..Len(s) /\ Len(s) \in Nat /\ s = [n \in 1..Len(s) |-> s[n]]
  BY LenProperties
<1>2. \A n \in 1..Len(s) : s[n] \in Range(s)
  BY <1>1 DEF Range
<1> QED BY <1>1, <1>2, SeqDef

\* The open editor: what it shows is a length there is, and none of the profiles it binds
\* waits for the migration in another set.
FormInv ==
    form # Closed =>
        /\ form \in [id : {form.id}, source : {"queue", "rotation"}, anime : BOOLEAN,
                     behavior : {"progress", "rewatch"}, shown : (Nat \ {0}) \cup {Infinite},
                     bindings : {form.bindings}]
        /\ form.bindings \in Seq(Range(form.bindings))
        /\ \A n \in DOMAIN sets, k \in DOMAIN form.bindings :
            AwaitsMigration(sets[n], form.bindings[k].user) => sets[n].id = form.id

FileInv == IsRegistry(sets) /\ FormInv

LEMMA FormFollows ==
    ASSUME FileInv, IsRegistry(sets'), Follows(sets', sets), UNCHANGED form
    PROVE  FormInv'
<1> SUFFICES ASSUME form # Closed PROVE FormInv'
  BY DEF FormInv
<1>1. ASSUME NEW n \in DOMAIN sets', NEW k \in DOMAIN form.bindings,
             AwaitsMigration(sets'[n], form.bindings[k].user)
      PROVE  sets'[n].id = form.id
  <2>1. PICK m \in DOMAIN sets : Stems(sets'[n], sets[m])
    BY <1>1 DEF Follows
  <2>2. AwaitsMigration(sets[m], form.bindings[k].user)
    BY <1>1, <2>1, WaitersStem DEF IsRegistry, FileInv
  <2>3. sets[m].id = form.id
    BY <2>2 DEF FileInv, FormInv
  <2> QED BY <2>1, <2>3 DEF Stems
<1> QED BY <1>1 DEF FileInv, FormInv

-----------------------------------------------------------------------------
(* How long a set plays, and what its editor says of it.                   *)

LEMMA DefaultsAreShown ==
    ASSUME NEW set, IsSet(set)
    PROVE  /\ KindDefault(set) \in Nat \ {0} /\ KindDefault(set) # Infinite
           /\ Smaller(KindDefault(set), RotationLengthMax) = KindDefault(set)
BY WindowAssumption, SentinelAssumption DEF KindDefault, DefaultFor, Smaller

\* An editor opens on the length the set plays by.
LEMMA OpensOnTheLength ==
    ASSUME NEW set, IsSet(set)
    PROVE  /\ Prefilled(set).shown \in (Nat \ {0}) \cup {Infinite}
           /\ Shown(Prefilled(set).shown) = Length(AsPlayed(set))
<1> DEFINE shown == IF Reported(set) # Unset THEN Reported(set) ELSE KindDefault(set)
<1>1. Prefilled(set).shown = shown
  BY DEF Prefilled
<1>2. AsPlayed(set).length = set.length /\ AsPlayed(set).refill = set.refill
  BY DEF AsPlayed
<1>3. set.length \in Int \cup {Infinite, Unset} /\ set.refill \in BOOLEAN
  BY DEF IsSet
<1>4. KindDefault(set) = DefaultFor(AsPlayed(set))
  BY DEF KindDefault
<1>5. CASE set.length = Infinite \/ set.refill
  <2>1. Reported(set) = Infinite /\ Length(AsPlayed(set)) = Infinite
    BY <1>2, <1>5 DEF Reported, Length, LengthOr
  <2> QED BY <1>1, <2>1, SentinelAssumption DEF Shown
<1>6. CASE ~(set.length = Infinite \/ set.refill) /\ set.length \in Nat \ {0}
  <2>1. Reported(set) = set.length /\ Length(AsPlayed(set)) = Smaller(set.length, RotationLengthMax)
    BY <1>2, <1>6 DEF Reported, Length, LengthOr
  <2>2. set.length # Unset /\ set.length # Infinite
    BY <1>6, SentinelAssumption
  <2> QED BY <1>1, <1>6, <2>1, <2>2 DEF Shown
<1>7. CASE ~(set.length = Infinite \/ set.refill) /\ set.length \notin Nat \ {0}
  <2>1. Reported(set) = Unset /\ Length(AsPlayed(set)) = KindDefault(set)
    BY <1>2, <1>4, <1>7 DEF Reported, Length, LengthOr
  <2> QED BY <1>1, <2>1, DefaultsAreShown DEF Shown
<1> QED BY <1>5, <1>6, <1>7

\* What a save stores plays as the editor shows.
LEMMA StoredPlaysAsShown ==
    ASSUME NEW set, IsSet(set), NEW shown \in (Nat \ {0}) \cup {Infinite}, NEW new,
           new.source = set.source, new.anime = set.anime, new.behavior = set.behavior,
           new.mode = set.mode, new.length = Stored(shown, set), new.refill = FALSE
    PROVE  Length(AsPlayed(new)) = Shown(shown)
<1>1. AsPlayed(new).source = AsPlayed(set).source /\ AsPlayed(new).curated = AsPlayed(set).curated
  BY DEF AsPlayed, IsRewatch, Behavior
<1>2. DefaultFor(AsPlayed(new)) = KindDefault(set)
  BY <1>1 DEF KindDefault, DefaultFor
<1>3. AsPlayed(new).length = Stored(shown, set) /\ AsPlayed(new).refill = FALSE
  BY DEF AsPlayed
<1>4. Clamped(shown) = Shown(shown)
  BY DEF Clamped, Shown
<1>5. Shown(shown) = Infinite \/ (Shown(shown) \in Nat \ {0} /\ Smaller(Shown(shown), RotationLengthMax) = Shown(shown))
  BY WindowAssumption DEF Shown, Smaller
<1>6. CASE Shown(shown) = KindDefault(set)
  <2>1. Stored(shown, set) = Unset
    BY <1>4, <1>6 DEF Stored
  <2>2. Length(AsPlayed(new)) = KindDefault(set)
    BY <1>2, <1>3, <2>1, SentinelAssumption DEF Length, LengthOr
  <2> QED BY <1>6, <2>2
<1>7. CASE Shown(shown) # KindDefault(set) /\ Shown(shown) = Infinite
  <2>1. Stored(shown, set) = Infinite
    BY <1>4, <1>7 DEF Stored
  <2> QED BY <1>3, <1>7, <2>1 DEF Length, LengthOr
<1>8. CASE Shown(shown) # KindDefault(set) /\ Shown(shown) # Infinite
  <2>1. Stored(shown, set) = Shown(shown) /\ Shown(shown) \in Nat \ {0}
    BY <1>4, <1>5, <1>8 DEF Stored
  <2> QED BY <1>3, <1>5, <1>8, <2>1, SentinelAssumption DEF Length, LengthOr
<1> QED BY <1>6, <1>7, <1>8

LEMMA StoredIsALength ==
    ASSUME NEW shown, NEW set
    PROVE  Stored(shown, set) \in Int \cup {Infinite, Unset}
BY WindowAssumption DEF Stored, Clamped, Smaller

\* The fields the length leaves alone.
SameButLength(new, set) ==
    /\ new.id = set.id /\ new.source = set.source /\ new.anime = set.anime
    /\ new.behavior = set.behavior /\ new.mode = set.mode /\ new.profiles = set.profiles
    /\ new.top = set.top /\ new.superseded = set.superseded /\ new.enabled = set.enabled

LEMMA PatchesTheLength ==
    ASSUME NEW set, NEW patched, IsSet(patched)
    PROVE  LET new == LengthPatched(set, patched) IN
           /\ IsSet(new) /\ SameButLength(new, patched)
           /\ new.length = Stored(form.shown, patched)
           /\ ~patched.refill => new.refill = FALSE
<1> DEFINE l == Stored(form.shown, patched)
           r == IF form.shown = Infinite THEN FALSE ELSE patched.refill
           new == [patched EXCEPT !.length = l, !.refill = r]
<1>1. LengthPatched(set, patched) = new
  BY DEF LengthPatched, IsSet
<1>2. l \in Int \cup {Infinite, Unset}
  BY StoredIsALength
<1>3. r \in BOOLEAN /\ (~patched.refill => r = FALSE)
  BY DEF IsSet
<1> HIDE DEF l, r
<1>4. IsSet(new) /\ SameButLength(new, patched) /\ new.length = l /\ new.refill = r
  BY <1>2, <1>3 DEF IsSet, SameButLength
<1> HIDE DEF new
<1> QED BY <1>1, <1>3, <1>4 DEF l

-----------------------------------------------------------------------------
(* The bindings an editor saves.                                           *)

LEMMA TellingBindings ==
    ASSUME NEW list, list \in Seq(Range(list))
    PROVE  /\ Telling(list) \in Seq(Range(Telling(list)))
           /\ \A n \in DOMAIN Telling(list) :
                HasData(Telling(list)[n]) /\ \E k \in DOMAIN list : Telling(list)[n] = list[k]
           /\ \A k \in DOMAIN list : HasData(list[k]) =>
                \E n \in DOMAIN Telling(list) : Telling(list)[n] = list[k]
<1> DEFINE A == {b \in Range(list) : HasData(b)}
           t == Only(list, A)
<1>1. t \in Seq(Range(list)) /\ Range(t) = Range(list) \cap A
  BY OnlyIsAList, OnlyRange
<1>2. t \in Seq(Range(t))
  BY <1>1, ListsOfThemselves
<1>3. Telling(list) = t
  BY DEF Telling
<1>4. Range(t) = A
  BY <1>1
<1> HIDE DEF t
<1>5. \A n \in DOMAIN t : t[n] \in A
  BY <1>4 DEF Range
<1>6. \A k \in DOMAIN list : HasData(list[k]) => \E n \in DOMAIN t : t[n] = list[k]
  BY <1>4 DEF Range
<1>7. \A n \in DOMAIN t : HasData(t[n]) /\ \E k \in DOMAIN list : t[n] = list[k]
  BY <1>5 DEF Range
<1> QED BY <1>2, <1>3, <1>6, <1>7

LEMMA BindingsBind ==
    ASSUME NEW set, IsSet(set)
    PROVE  /\ Bindings(set) \in Seq(Range(Bindings(set))) /\ Bindings(set) # << >>
           /\ DOMAIN Bindings(set) = 1..Len(Bindings(set)) /\ 1 \in DOMAIN Bindings(set)
           /\ Len(Bindings(set)) \in Nat
           /\ set.profiles # << >> => Bindings(set) = set.profiles
           /\ set.profiles = << >> =>
                Bindings(set)[1] = set.top /\ \A k \in DOMAIN Bindings(set) : k = 1
<1>1. CASE set.profiles # << >>
  <2>1. Bindings(set) = set.profiles /\ set.profiles \in Seq(Range(set.profiles))
    BY <1>1 DEF Bindings, IsSet
  <2>2. Len(set.profiles) \in Nat \ {0} /\ DOMAIN set.profiles = 1..Len(set.profiles)
    BY <1>1, <2>1, EmptySeq, LenProperties
  <2> QED BY <1>1, <2>1, <2>2
<1>2. CASE set.profiles = << >>
  <2>1. Bindings(set) = <<set.top>>
    BY <1>2 DEF Bindings
  <2>2. <<set.top>> \in Seq({set.top})
    OBVIOUS
  <2>3. <<set.top>> \in Seq(Range(<<set.top>>))
    BY <2>2, ListsOfThemselves
  <2>4. Len(<<set.top>>) = 1 /\ DOMAIN <<set.top>> = 1..1 /\ <<set.top>>[1] = set.top /\ <<set.top>> # << >>
    OBVIOUS
  <2> HIDE DEF Bindings
  <2>5. \A k \in DOMAIN Bindings(set) : k = 1
    BY <2>1, <2>4
  <2> QED BY <1>2, <2>1, <2>3, <2>4, <2>5
<1> QED BY <1>1, <1>2

-----------------------------------------------------------------------------
(* What a save makes of a set.                                             *)

KeepsBindings(new, old) == new.profiles = old.profiles /\ new.top = old.top

TakesBindings(new, old) ==
    /\ old.source = "rotation"
    /\ new.profiles = Telling(form.bindings) /\ new.profiles # << >> /\ new.top.user = Nobody

SavedFrom(new, old) ==
    /\ IsSet(new) /\ new.id = old.id /\ new.source = old.source
    /\ new.superseded = old.superseded /\ new.enabled = old.enabled
    /\ KeepsBindings(new, old) \/ TakesBindings(new, old)
    /\ IsRewatch(new) = IF old.source = "rotation" THEN form.behavior = "rewatch" ELSE IsRewatch(old)
    /\ ~old.refill => Length(AsPlayed(new)) = Shown(form.shown)

LEMMA PoolIsPatched ==
    ASSUME NEW set, IsSet(set), set.source = "rotation", form # Closed, FormInv
    PROVE  LET new == PoolPatched(set) IN
           /\ IsSet(new) /\ new.id = set.id /\ new.source = set.source /\ new.superseded = set.superseded
           /\ new.enabled = set.enabled /\ new.behavior = form.behavior /\ new.refill = set.refill
           /\ KeepsBindings(new, set) \/ TakesBindings(new, set)
<1> DEFINE told == Telling(form.bindings)
           kept == [set EXCEPT !.behavior = form.behavior]
           nobody == [user |-> Nobody, cap |-> Nobody]
           taken == [set EXCEPT !.behavior = form.behavior, !.profiles = told, !.top = nobody]
<1>1. form.behavior \in {"progress", "rewatch"} /\ told \in Seq(Range(told))
  BY TellingBindings DEF FormInv
<1>2. nobody.user = Nobody
  OBVIOUS
<1>3. PoolPatched(set) = IF told = << >> THEN kept ELSE taken
  BY DEF PoolPatched
<1> HIDE DEF told, nobody
<1>4. /\ IsSet(kept) /\ kept.id = set.id /\ kept.source = set.source /\ kept.superseded = set.superseded
      /\ kept.enabled = set.enabled /\ kept.behavior = form.behavior /\ kept.refill = set.refill
      /\ KeepsBindings(kept, set)
  BY <1>1 DEF IsSet, KeepsBindings
<1>5. /\ IsSet(taken) /\ taken.id = set.id /\ taken.source = set.source
      /\ taken.superseded = set.superseded /\ taken.enabled = set.enabled
      /\ taken.behavior = form.behavior /\ taken.refill = set.refill
      /\ taken.profiles = told /\ taken.top = nobody
  BY <1>1 DEF IsSet
<1> HIDE DEF kept, taken
<1>6. told # << >> => TakesBindings(taken, set)
  BY <1>2, <1>5 DEF TakesBindings, told
<1> QED BY <1>3, <1>4, <1>5, <1>6

LEMMA SetIsSaved ==
    ASSUME NEW set, IsSet(set), form # Closed, FormInv
    PROVE  SavedFrom(LengthPatched(set, IF set.source = "rotation" THEN PoolPatched(set)
                                        ELSE [set EXCEPT !.anime = form.anime]), set)
<1> DEFINE curated == [set EXCEPT !.anime = form.anime]
           patched == IF set.source = "rotation" THEN PoolPatched(set) ELSE curated
           new == LengthPatched(set, patched)
<1>1. CASE set.source = "rotation"
  <2>1. patched = PoolPatched(set)
    BY <1>1
  <2>2. /\ IsSet(patched) /\ patched.id = set.id /\ patched.source = set.source
        /\ patched.superseded = set.superseded /\ patched.enabled = set.enabled
        /\ patched.behavior = form.behavior /\ patched.refill = set.refill
        /\ KeepsBindings(patched, set) \/ TakesBindings(patched, set)
    BY <1>1, <2>1, PoolIsPatched
  <2>3. form.behavior \in {"progress", "rewatch"} /\ form.shown \in (Nat \ {0}) \cup {Infinite}
    BY DEF FormInv
  <2> HIDE DEF patched
  <2>4. /\ IsSet(new) /\ SameButLength(new, patched) /\ new.length = Stored(form.shown, patched)
        /\ ~patched.refill => new.refill = FALSE
    BY <2>2, PatchesTheLength
  <2> HIDE DEF new
  <2>5. ~set.refill => Length(AsPlayed(new)) = Shown(form.shown)
    BY <2>2, <2>3, <2>4, StoredPlaysAsShown DEF SameButLength
  <2>6. IsRewatch(new) = (form.behavior = "rewatch")
    BY <2>2, <2>3, <2>4 DEF SameButLength, IsRewatch, Behavior
  <2>7. KeepsBindings(new, set) \/ TakesBindings(new, set)
    BY <2>2, <2>4 DEF SameButLength, KeepsBindings, TakesBindings
  <2>8. SavedFrom(new, set)
    BY <1>1, <2>2, <2>4, <2>5, <2>6, <2>7 DEF SavedFrom, SameButLength
  <2> QED BY <2>8 DEF new, patched
<1>2. CASE set.source # "rotation"
  <2>1. patched = curated
    BY <1>2
  <2>2. form.anime \in BOOLEAN /\ form.shown \in (Nat \ {0}) \cup {Infinite}
    BY DEF FormInv
  <2>3. /\ IsSet(curated) /\ curated.id = set.id /\ curated.source = set.source
        /\ curated.superseded = set.superseded /\ curated.enabled = set.enabled
        /\ curated.behavior = set.behavior /\ curated.mode = set.mode /\ curated.refill = set.refill
        /\ KeepsBindings(curated, set)
    BY <2>2 DEF IsSet, KeepsBindings
  <2> HIDE DEF patched, curated
  <2>4. /\ IsSet(new) /\ SameButLength(new, curated) /\ new.length = Stored(form.shown, curated)
        /\ ~curated.refill => new.refill = FALSE
    BY <2>1, <2>3, PatchesTheLength
  <2> HIDE DEF new
  <2>5. ~set.refill => Length(AsPlayed(new)) = Shown(form.shown)
    BY <2>2, <2>3, <2>4, StoredPlaysAsShown DEF SameButLength
  <2>6. IsRewatch(new) = IsRewatch(set)
    BY <2>3, <2>4 DEF SameButLength, IsRewatch, Behavior
  <2>7. KeepsBindings(new, set)
    BY <2>3, <2>4 DEF SameButLength, KeepsBindings
  <2>8. SavedFrom(new, set)
    BY <1>2, <2>3, <2>4, <2>5, <2>6, <2>7 DEF SavedFrom, SameButLength
  <2> QED BY <2>8 DEF new, patched, curated
<1> QED BY <1>1, <1>2

\* A save changes the one set, as above.
LEMMA SaveIsOfOne ==
    ASSUME FileInv, SavesOld
    PROVE  /\ At(form.id) \in DOMAIN sets /\ sets[At(form.id)].id = form.id
           /\ Get(form.id) = sets[At(form.id)]
           /\ sets' \in Seq(Range(sets')) /\ DOMAIN sets' = DOMAIN sets
           /\ SavedFrom(sets'[At(form.id)], sets[At(form.id)])
           /\ \A n \in DOMAIN sets : n # At(form.id) => sets'[n] = sets[n]
<1> DEFINE p == At(form.id)
           old == sets[p]
           new == LengthPatched(old, IF old.source = "rotation" THEN PoolPatched(old)
                                     ELSE [old EXCEPT !.anime = form.anime])
<1>1. p \in DOMAIN sets /\ old.id = form.id /\ Get(form.id) = old
  BY SetsHavePlaces DEF SavesOld, FileInv
<1>2. sets' = [sets EXCEPT ![p] = new]
  BY <1>1 DEF SavesOld
<1>3. SavedFrom(new, old)
  BY <1>1, SetIsSaved DEF FileInv, IsRegistry, SavesOld
<1> HIDE DEF new
<1>4. sets \in Seq(Range(sets) \cup {new}) /\ DOMAIN sets = 1..Len(sets)
  BY LenProperties, SeqMonotonic DEF FileInv, IsRegistry
<1>5. sets' \in Seq(Range(sets) \cup {new})
  BY <1>1, <1>2, <1>4, ExceptSeq
<1>6. sets' \in Seq(Range(sets'))
  BY <1>5, ListsOfThemselves
<1>7. DOMAIN sets' = DOMAIN sets /\ sets'[p] = new /\ \A n \in DOMAIN sets : n # p => sets'[n] = sets[n]
  BY <1>1, <1>2
<1> QED BY <1>1, <1>3, <1>6, <1>7

LEMMA SavesKeepTheRegistry ==
    ASSUME FileInv, SavesOld
    PROVE  FileInv'
<1> DEFINE p == At(form.id)
<1>1. /\ p \in DOMAIN sets /\ sets[p].id = form.id /\ sets' \in Seq(Range(sets'))
      /\ DOMAIN sets' = DOMAIN sets /\ SavedFrom(sets'[p], sets[p])
      /\ \A n \in DOMAIN sets : n # p => sets'[n] = sets[n]
  BY SaveIsOfOne
<1>2. form # Closed /\ form' = Closed
  BY DEF SavesOld
<1> HIDE DEF p
<1>3. \A n \in DOMAIN sets' : IsSet(sets'[n]) /\ sets'[n].id = sets[n].id
  BY <1>1 DEF SavedFrom, FileInv, IsRegistry
<1>4. UniqueIds(sets')
  BY <1>1, <1>3 DEF UniqueIds, FileInv, IsRegistry
<1>5. \A n \in DOMAIN sets' : OfItsProfile(sets'[n])
  <2>1. OfItsProfile(sets'[p])
    BY <1>1, RegistryAssumption DEF SavedFrom, KeepsBindings, TakesBindings, OfItsProfile, FileInv, IsRegistry
  <2> QED BY <1>1, <2>1 DEF FileInv, IsRegistry
<1>6. \A n \in DOMAIN sets' : n # p => Stems(sets'[n], sets[n])
  BY <1>1 DEF Stems
<1>7. CASE KeepsBindings(sets'[p], sets[p])
  <2>1. Stems(sets'[p], sets[p])
    BY <1>1, <1>7 DEF SavedFrom, KeepsBindings, Stems
  <2>2. Follows(sets', sets)
    BY <1>1, <1>6, <2>1 DEF Follows
  <2> QED BY <1>1, <1>2, <1>3, <1>4, <1>5, <2>2, RegistriesFollow DEF FileInv, FormInv
<1>8. CASE TakesBindings(sets'[p], sets[p])
  <2>1. \A title : ~AwaitsMigration(sets'[p], title)
    BY <1>8 DEF TakesBindings, AwaitsMigration
  <2>2. ASSUME NEW m \in DOMAIN sets', NEW title \in DOMAIN SetForProfile, AwaitsMigration(sets'[m], title),
               Binds(sets'[p], title)
        PROVE  FALSE
    <3>1. m # p /\ sets'[m] = sets[m]
      BY <1>1, <2>1, <2>2
    <3>2. PICK i \in DOMAIN Telling(form.bindings) : Telling(form.bindings)[i].user = title
      BY <1>8, <2>2 DEF TakesBindings, Binds
    <3>3. PICK k \in DOMAIN form.bindings : form.bindings[k] = Telling(form.bindings)[i]
      BY <1>2, TellingBindings DEF FileInv, FormInv
    <3>4. sets[m].id = form.id
      BY <1>1, <1>2, <2>2, <3>1, <3>2, <3>3 DEF FileInv, FormInv
    <3> QED BY <1>1, <3>1, <3>4 DEF FileInv, IsRegistry
  <2>3. Follows(sets', sets)
    BY <1>1, <1>6, <2>1, <2>2 DEF Follows
  <2> QED BY <1>1, <1>2, <1>3, <1>4, <1>5, <2>3, RegistriesFollow DEF FileInv, FormInv
<1> QED BY <1>1, <1>7, <1>8 DEF SavedFrom

-----------------------------------------------------------------------------
(* A new set, one less, another order.                                     *)

LEMMA InsertedPlaces ==
    ASSUME NEW S, NEW s \in Seq(S), NEW k \in 1..Len(s) + 1, NEW e
    PROVE  LET g == InsertAt(s, k, e) IN
           /\ g \in Seq(Range(g)) /\ DOMAIN g = 1..Len(s) + 1
           /\ \A n \in 1..Len(s) + 1 : g[n] = IF n = k THEN e ELSE IF n < k THEN s[n] ELSE s[n - 1]
<1> DEFINE T == S \cup {e}
           a == SubSeq(s, 1, k - 1)
           b == SubSeq(s, k, Len(s))
           g == InsertAt(s, k, e)
<1>0. s \in Seq(T) /\ Len(s) \in Nat /\ k \in Int /\ k - 1 \in Int /\ Len(s) \in Int /\ 1 \in Int
  BY LenProperties, SeqMonotonic
<1>1. \A i \in 1..Len(s) : s[i] \in T
  BY <1>0, ElementOfSeq
<1>2. a \in Seq(T) /\ Len(a) = k - 1 /\ \A i \in 1..k - 1 : a[i] = s[i]
  <2>1. \A i \in 1..k - 1 : s[i] \in T
    BY <1>0, <1>1
  <2>2. /\ a \in Seq(T) /\ Len(a) = IF 1 <= k - 1 THEN (k - 1) - 1 + 1 ELSE 0
        /\ \A i \in 1..(k - 1) - 1 + 1 : a[i] = s[1 + i - 1]
    BY <1>0, <2>1, SubSeqProperties
  <2> HIDE DEF a
  <2> QED BY <1>0, <2>2
<1>3. b \in Seq(T) /\ Len(b) = Len(s) - k + 1 /\ \A i \in 1..Len(s) - k + 1 : b[i] = s[k + i - 1]
  <2>1. \A i \in k..Len(s) : s[i] \in T
    BY <1>0, <1>1
  <2>2. /\ b \in Seq(T) /\ Len(b) = IF k <= Len(s) THEN Len(s) - k + 1 ELSE 0
        /\ \A i \in 1..Len(s) - k + 1 : b[i] = s[k + i - 1]
    BY <1>0, <2>1, SubSeqProperties
  <2> HIDE DEF b
  <2> QED BY <1>0, <2>2
<1>4. <<e>> \in Seq(T) /\ Len(<<e>>) = 1 /\ <<e>>[1] = e
  OBVIOUS
<1> DEFINE one == <<e>>
           c == a \o one
<1>5. g = c \o b
  BY DEF InsertAt
<1> HIDE DEF a, b, one, g
<1>6. /\ c \in Seq(T) /\ Len(c) = k
      /\ \A i \in 1..k : c[i] = IF i <= k - 1 THEN a[i] ELSE one[i - (k - 1)]
  <2>1. one \in Seq(T) /\ Len(one) = 1
    BY <1>4 DEF one
  <2>2. /\ c \in Seq(T) /\ Len(c) = Len(a) + Len(one)
        /\ \A i \in 1..Len(a) + Len(one) : c[i] = IF i <= Len(a) THEN a[i] ELSE one[i - Len(a)]
    BY <1>2, <2>1, ConcatProperties
  <2> QED BY <1>0, <1>2, <2>1, <2>2
<1>7. /\ \A i \in 1..k : c[i] = IF i = k THEN e ELSE s[i]
  <2>1. one[1] = e
    BY <1>4 DEF one
  <2> QED BY <1>0, <1>2, <1>6, <2>1
<1> HIDE DEF c
<1>8. /\ g \in Seq(T) /\ Len(g) = Len(s) + 1
      /\ \A i \in 1..Len(s) + 1 : g[i] = IF i <= k THEN c[i] ELSE b[i - k]
  <2>1. /\ g \in Seq(T) /\ Len(g) = Len(c) + Len(b)
        /\ \A i \in 1..Len(c) + Len(b) : g[i] = IF i <= Len(c) THEN c[i] ELSE b[i - Len(c)]
    BY <1>3, <1>5, <1>6, ConcatProperties
  <2> QED BY <1>0, <1>3, <1>6, <2>1
<1>9. \A n \in 1..Len(s) + 1 : g[n] = IF n = k THEN e ELSE IF n < k THEN s[n] ELSE s[n - 1]
  <2> SUFFICES ASSUME NEW n \in 1..Len(s) + 1
               PROVE  g[n] = IF n = k THEN e ELSE IF n < k THEN s[n] ELSE s[n - 1]
    OBVIOUS
  <2>1. CASE n <= k
    <3>1. n \in 1..k
      BY <1>0, <2>1
    <3> QED BY <1>0, <1>7, <1>8, <2>1, <3>1
  <2>2. CASE n > k
    <3>1. n - k \in 1..Len(s) - k + 1 /\ k + (n - k) - 1 = n - 1
      BY <1>0, <2>2
    <3>2. b[n - k] = s[n - 1]
      BY <1>3, <3>1
    <3> QED BY <1>0, <1>8, <2>2, <3>2
  <2> QED BY <1>0, <2>1, <2>2
<1>10. g \in Seq(Range(g)) /\ DOMAIN g = 1..Len(g)
  BY <1>8, ListsOfThemselves, LenProperties
<1> QED BY <1>8, <1>9, <1>10 DEF g

LEMMA RemovedPlaces ==
    ASSUME NEW S, NEW s \in Seq(S), NEW k \in 1..Len(s)
    PROVE  LET g == RemoveAt(s, k) IN
           /\ g \in Seq(Range(g)) /\ DOMAIN g = 1..Len(s) - 1
           /\ \A n \in 1..Len(s) - 1 : g[n] = IF n < k THEN s[n] ELSE s[n + 1]
<1> DEFINE a == SubSeq(s, 1, k - 1)
           b == SubSeq(s, k + 1, Len(s))
           g == RemoveAt(s, k)
<1>0. Len(s) \in Nat /\ k \in Int /\ k - 1 \in Int /\ k + 1 \in Int /\ Len(s) \in Int /\ 1 \in Int
  BY LenProperties
<1>1. \A i \in 1..Len(s) : s[i] \in S
  BY ElementOfSeq
<1>2. a \in Seq(S) /\ Len(a) = k - 1 /\ \A i \in 1..k - 1 : a[i] = s[i]
  <2>1. \A i \in 1..k - 1 : s[i] \in S
    BY <1>0, <1>1
  <2>2. /\ a \in Seq(S) /\ Len(a) = IF 1 <= k - 1 THEN (k - 1) - 1 + 1 ELSE 0
        /\ \A i \in 1..(k - 1) - 1 + 1 : a[i] = s[1 + i - 1]
    BY <1>0, <2>1, SubSeqProperties
  <2> HIDE DEF a
  <2> QED BY <1>0, <2>2
<1>3. b \in Seq(S) /\ Len(b) = Len(s) - k /\ \A i \in 1..Len(s) - k : b[i] = s[k + i]
  <2>1. \A i \in k + 1..Len(s) : s[i] \in S
    BY <1>0, <1>1
  <2>2. /\ b \in Seq(S) /\ Len(b) = IF k + 1 <= Len(s) THEN Len(s) - (k + 1) + 1 ELSE 0
        /\ \A i \in 1..Len(s) - (k + 1) + 1 : b[i] = s[(k + 1) + i - 1]
    BY <1>0, <2>1, SubSeqProperties
  <2> HIDE DEF b
  <2> QED BY <1>0, <2>2
<1>4. g = a \o b
  BY DEF RemoveAt
<1> HIDE DEF a, b, g
<1>5. /\ g \in Seq(S) /\ Len(g) = Len(a) + Len(b)
      /\ \A i \in 1..Len(a) + Len(b) : g[i] = IF i <= Len(a) THEN a[i] ELSE b[i - Len(a)]
  BY <1>2, <1>3, <1>4, ConcatProperties
<1>6. /\ Len(g) = Len(s) - 1
      /\ \A i \in 1..Len(s) - 1 : g[i] = IF i <= k - 1 THEN a[i] ELSE b[i - (k - 1)]
  <2>1. Len(a) + Len(b) = Len(s) - 1 /\ Len(a) = k - 1
    BY <1>0, <1>2, <1>3
  <2> QED BY <1>5, <2>1
<1>7. ASSUME NEW n \in 1..Len(s) - 1 PROVE g[n] = IF n < k THEN s[n] ELSE s[n + 1]
  <2>1. CASE n < k
    <3>1. n \in 1..k - 1 /\ n <= k - 1
      BY <1>0, <2>1
    <3>2. a[n] = s[n] /\ g[n] = a[n]
      BY <1>2, <1>6, <3>1
    <3> QED BY <2>1, <3>2
  <2>2. CASE n >= k
    <3>1. n - (k - 1) \in 1..Len(s) - k /\ k + (n - (k - 1)) = n + 1
      BY <1>0, <2>2
    <3>2. b[n - (k - 1)] = s[n + 1]
      BY <1>3, <3>1
    <3> QED BY <1>0, <1>6, <2>2, <3>2
  <2> QED BY <1>0, <2>1, <2>2
<1>8. g \in Seq(Range(g)) /\ DOMAIN g = 1..Len(g)
  BY <1>5, ListsOfThemselves, LenProperties
<1> QED BY <1>6, <1>7, <1>8 DEF g

LEMMA ReflexivelyStems == \A set : Stems(set, set)
BY DEF Stems

LEMMA DeletesKeepTheRegistry ==
    ASSUME FileInv, DeleteSet
    PROVE  FileInv'
<1>1. PICK k \in DOMAIN sets : sets' = RemoveAt(sets, k)
  BY DEF DeleteSet
<1>2. sets \in Seq(Range(sets)) /\ DOMAIN sets = 1..Len(sets) /\ Len(sets) \in Nat
  BY SetsHavePlaces DEF FileInv, IsRegistry
<1>3. /\ sets' \in Seq(Range(sets')) /\ DOMAIN sets' = 1..Len(sets) - 1
      /\ \A n \in 1..Len(sets) - 1 : sets'[n] = IF n < k THEN sets[n] ELSE sets[n + 1]
  BY <1>1, <1>2, RemovedPlaces
<1> DEFINE src(n) == IF n < k THEN n ELSE n + 1
<1>4. \A n \in DOMAIN sets' : src(n) \in DOMAIN sets /\ sets'[n] = sets[src(n)]
  BY <1>2, <1>3
<1>5. \A m, n \in DOMAIN sets' : src(m) = src(n) => m = n
  BY <1>2, <1>3
<1> HIDE DEF src
<1>6. UniqueIds(sets')
  BY <1>4, <1>5 DEF UniqueIds, FileInv, IsRegistry
<1>7. \A n \in DOMAIN sets' : IsSet(sets'[n]) /\ \E m \in DOMAIN sets : Stems(sets'[n], sets[m])
  BY <1>4, ReflexivelyStems DEF FileInv, IsRegistry
<1>8. IsRegistry(sets') /\ Follows(sets', sets)
  BY <1>3, <1>6, <1>7, RegistriesStem DEF FileInv
<1> QED BY <1>8, FormFollows DEF FileInv, DeleteSet

LEMMA FreshIds ==
    ASSUME FileInv, NEW label
    PROVE  \E n \in Nat \ {0} : FreshId(label) = <<label, n>> /\ <<label, n>> \notin Ids
<1> DEFINE L == Len(sets)
           T == {n \in 1..L + 1 : <<label, n>> \notin Ids}
           list == [n \in 1..L |-> sets[n].id]
<1>1. DOMAIN sets = 1..L /\ L \in Nat
  BY SetsHavePlaces DEF FileInv
<1>2. IsFiniteSet(Ids) /\ Cardinality(Ids) \in Nat /\ Cardinality(Ids) <= L
  <2>1. \A n \in 1..L : sets[n].id \in Ids
    BY <1>1 DEF Ids
  <2>2. list \in Seq(Ids) /\ Len(list) = L /\ Range(list) = Ids
    BY <1>1, <2>1 DEF Range, Ids
  <2> HIDE DEF list
  <2> QED BY <2>2, RangesAreFinite
<1>3. T # {}
  <2> SUFFICES ASSUME T = {} PROVE FALSE
    OBVIOUS
  <2> DEFINE f == [n \in 1..L + 1 |-> <<label, n>>]
  <2>1. f \in [1..L + 1 -> Ids]
    OBVIOUS
  <2>2. IsFiniteSet(1..L + 1) /\ Cardinality(1..L + 1) = L + 1
    BY <1>1, FS_Interval
  <2>3. Cardinality(Ids) < Cardinality(1..L + 1)
    BY <1>1, <1>2, <2>2
  <2> HIDE DEF f
  <2>4. PICK x, y \in 1..L + 1 : x # y /\ f[x] = f[y]
    BY <1>2, <2>1, <2>2, <2>3, FS_PigeonHole
  <2> QED BY <2>4 DEF f
<1>4. PICK n \in T : \A k \in T : ~(k < n)
  <2>1. T \subseteq Nat
    BY <1>1
  <2> HIDE DEF T
  <2> QED BY <1>3, <2>1, LeastNumber
<1> DEFINE P(m) == <<label, m>> \notin Ids /\ \A k \in 1..(m - 1) : <<label, k>> \in Ids
<1>5. n \in 1..L + 1 /\ P(n)
  <2>1. n \in 1..L + 1 /\ <<label, n>> \notin Ids
    OBVIOUS
  <2>2. ASSUME NEW k \in 1..(n - 1), <<label, k>> \notin Ids PROVE FALSE
    <3>1. k \in 1..L + 1 /\ k < n
      BY <1>1, <2>1
    <3> QED BY <1>4, <2>2, <3>1
  <2> QED BY <2>1, <2>2
<1>6. FreshId(label) = <<label, CHOOSE m \in 1..L + 1 : P(m)>>
  BY DEF FreshId
<1> HIDE DEF P
<1>7. PICK m \in 1..L + 1 : P(m) /\ FreshId(label) = <<label, m>>
  BY <1>5, <1>6
<1>8. m \in Nat \ {0}
  BY <1>1
<1> QED BY <1>7, <1>8 DEF P

\* What a save of a new set adds.
LEMMA SetIsCreated ==
    ASSUME FileInv, form # Closed, NEW label
    PROVE  LET new == Created(label) IN
           /\ IsSet(new) /\ new.id \notin Ids /\ new.profiles = Telling(form.bindings)
           /\ new.top.user = Nobody
           /\ Length(AsPlayed(new)) = Shown(form.shown)
<1> DEFINE told == Telling(form.bindings)
           id == FreshId(label)
           nobody == [user |-> Nobody, cap |-> Nobody]
           behavior == IF form.source = "rotation" THEN form.behavior ELSE "absent"
           plain == [id |-> id, source |-> form.source, anime |-> form.anime,
                     behavior |-> behavior,
                     mode |-> "absent", length |-> Unset, refill |-> FALSE, profiles |-> told,
                     top |-> nobody, superseded |-> FALSE, enabled |-> TRUE]
           l == Stored(form.shown, plain)
           new == [plain EXCEPT !.length = l]
<1>1. Created(label) = new
  BY DEF Created
<1>2. id \notin Ids /\ id # NewSet
  <2>1. PICK n \in Nat \ {0} : id = <<label, n>> /\ <<label, n>> \notin Ids
    BY FreshIds
  <2> HIDE DEF id
  <2>2. <<label, n>> # NewSet
    BY DEF NewSet
  <2> QED BY <2>1, <2>2
<1>3. told \in Seq(Range(told))
  BY TellingBindings DEF FileInv, FormInv
<1>4. /\ form.source \in {"queue", "rotation"} /\ form.anime \in BOOLEAN
      /\ behavior \in {"absent", "progress", "rewatch"} /\ form.shown \in (Nat \ {0}) \cup {Infinite}
  BY DEF FileInv, FormInv
<1>5. nobody.user = Nobody
  OBVIOUS
<1>6. l \in Int \cup {Infinite, Unset}
  BY StoredIsALength
<1> HIDE DEF told, id, nobody, behavior
<1>7. IsSet(plain)
  BY <1>2, <1>3, <1>4 DEF IsSet
<1> HIDE DEF l
<1>8. /\ IsSet(new) /\ new.id = id /\ new.profiles = told /\ new.top = nobody /\ new.length = l
      /\ new.refill = FALSE /\ new.source = plain.source /\ new.anime = plain.anime
      /\ new.behavior = plain.behavior /\ new.mode = plain.mode
  BY <1>2, <1>3, <1>4, <1>6 DEF IsSet
<1> HIDE DEF new
<1>9. Length(AsPlayed(new)) = Shown(form.shown)
  <2> HIDE DEF plain
  <2> QED BY <1>4, <1>7, <1>8, StoredPlaysAsShown DEF l
<1> QED BY <1>1, <1>2, <1>5, <1>8, <1>9 DEF told

\* A save of a new set adds that one.
LEMMA SaveAddsOne ==
    ASSUME FileInv, SavesNew
    PROVE  \E new, k :
             /\ IsSet(new) /\ new.id \notin Ids /\ new.profiles = Telling(form.bindings)
             /\ new.top.user = Nobody /\ Length(AsPlayed(new)) = Shown(form.shown)
             /\ k \in 1..Len(sets) + 1 /\ sets' \in Seq(Range(sets')) /\ DOMAIN sets' = 1..Len(sets) + 1
             /\ \A n \in 1..Len(sets) + 1 :
                  sets'[n] = IF n = k THEN new ELSE IF n < k THEN sets[n] ELSE sets[n - 1]
<1> DEFINE pools == {n \in 1..Len(sets) : sets[n].source = "rotation"}
           k == IF form.source = "queue" /\ FirstOf(pools) # 0 THEN FirstOf(pools) ELSE Len(sets) + 1
<1>1. PICK label \in Labels : sets' = InsertAt(sets, k, Created(label))
  BY DEF SavesNew, SelectInSeq, FirstOf
<1>2. sets \in Seq(Range(sets)) /\ Len(sets) \in Nat
  BY SetsHavePlaces DEF FileInv, IsRegistry
<1>3. k \in 1..Len(sets) + 1
  <2>1. pools \subseteq Nat \ {0} /\ pools \subseteq 1..Len(sets)
    BY <1>2
  <2> HIDE DEF pools
  <2>2. FirstOf(pools) # 0 => FirstOf(pools) \in pools
    BY <2>1, FirstIsLeast
  <2>3. CASE form.source = "queue" /\ FirstOf(pools) # 0
    <3>1. k = FirstOf(pools)
      BY <2>3
    <3>2. FirstOf(pools) \in 1..Len(sets)
      BY <2>1, <2>2, <2>3
    <3> HIDE DEF k
    <3> QED BY <1>2, <3>1, <3>2
  <2>4. CASE ~(form.source = "queue" /\ FirstOf(pools) # 0)
    <3>1. k = Len(sets) + 1
      BY <2>4
    <3> QED BY <1>2, <3>1
  <2> QED BY <2>3, <2>4
<1> HIDE DEF k
<1> DEFINE new == Created(label)
<1>4. /\ IsSet(new) /\ new.id \notin Ids /\ new.profiles = Telling(form.bindings)
      /\ new.top.user = Nobody /\ Length(AsPlayed(new)) = Shown(form.shown)
  BY SetIsCreated DEF SavesNew
<1>5. sets' = InsertAt(sets, k, new)
  BY <1>1
<1> HIDE DEF new
<1>6. /\ sets' \in Seq(Range(sets')) /\ DOMAIN sets' = 1..Len(sets) + 1
      /\ \A n \in 1..Len(sets) + 1 :
           sets'[n] = IF n = k THEN new ELSE IF n < k THEN sets[n] ELSE sets[n - 1]
  BY <1>2, <1>3, <1>5, InsertedPlaces
<1> QED BY <1>3, <1>4, <1>6

LEMMA NewSetsKeepTheRegistry ==
    ASSUME FileInv, SavesNew
    PROVE  FileInv'
<1>1. PICK new, k :
        /\ IsSet(new) /\ new.id \notin Ids /\ new.profiles = Telling(form.bindings)
        /\ new.top.user = Nobody
        /\ k \in 1..Len(sets) + 1 /\ sets' \in Seq(Range(sets')) /\ DOMAIN sets' = 1..Len(sets) + 1
        /\ \A n \in 1..Len(sets) + 1 :
             sets'[n] = IF n = k THEN new ELSE IF n < k THEN sets[n] ELSE sets[n - 1]
  BY SaveAddsOne
<1>2. DOMAIN sets = 1..Len(sets) /\ Len(sets) \in Nat
  BY SetsHavePlaces DEF FileInv
<1>3. form # Closed /\ form' = Closed /\ form.id = NewSet
  BY DEF SavesNew
<1> DEFINE src(n) == IF n < k THEN n ELSE n - 1
<1>4. \A n \in DOMAIN sets' : n # k => src(n) \in DOMAIN sets /\ sets'[n] = sets[src(n)]
  BY <1>1, <1>2
<1>5. \A m, n \in DOMAIN sets' : m # k /\ n # k /\ src(m) = src(n) => m = n
  BY <1>1, <1>2
<1> HIDE DEF src
<1>6. k \in DOMAIN sets' /\ sets'[k] = new
  BY <1>1
<1>7. \A m \in DOMAIN sets : sets[m].id # new.id
  BY <1>1 DEF Ids
<1>8. UniqueIds(sets')
  BY <1>4, <1>5, <1>6, <1>7 DEF UniqueIds, FileInv, IsRegistry
<1>9. \A n \in DOMAIN sets' : IsSet(sets'[n]) /\ OfItsProfile(sets'[n])
  <2>1. OfItsProfile(new)
    BY <1>1, RegistryAssumption DEF OfItsProfile
  <2> QED BY <1>1, <1>4, <1>6, <2>1 DEF FileInv, IsRegistry
<1>10. \A title : ~AwaitsMigration(new, title)
  BY <1>1, RegistryAssumption DEF AwaitsMigration
<1>11. ASSUME NEW m \in DOMAIN sets', NEW title \in DOMAIN SetForProfile, AwaitsMigration(sets'[m], title),
              Binds(new, title)
       PROVE  FALSE
  <2>1. m # k /\ src(m) \in DOMAIN sets /\ sets'[m] = sets[src(m)]
    BY <1>4, <1>6, <1>10, <1>11
  <2>2. PICK i \in DOMAIN Telling(form.bindings) : Telling(form.bindings)[i].user = title
    BY <1>1, <1>11 DEF Binds
  <2>3. PICK j \in DOMAIN form.bindings : form.bindings[j] = Telling(form.bindings)[i]
    BY <1>3, TellingBindings DEF FileInv, FormInv
  <2>4. sets[src(m)].id = NewSet
    BY <1>3, <1>11, <2>1, <2>2, <2>3 DEF FileInv, FormInv
  <2> QED BY <2>1, <2>4 DEF FileInv, IsRegistry, IsSet
<1>12. Follows(sets', sets)
  BY <1>4, <1>6, <1>10, <1>11, ReflexivelyStems DEF Follows
<1> QED BY <1>1, <1>3, <1>8, <1>9, <1>12, RegistriesFollow DEF FileInv, FormInv

LEMMA OrdersKeepTheRegistry ==
    ASSUME FileInv, NEW ids \in Seq(Ids), \A i, j \in DOMAIN ids : ids[i] = ids[j] => i = j
    PROVE  IsRegistry(Reordered(ids)) /\ Follows(Reordered(ids), sets)
<1> DEFINE a == [n \in DOMAIN ids |-> Get(ids[n])]
           A == {set \in Range(sets) : set.id \notin Range(ids)}
           b == Only(sets, A)
           g == Reordered(ids)
<1>1. sets \in Seq(Range(sets)) /\ DOMAIN sets = 1..Len(sets) /\ Len(sets) \in Nat
  BY SetsHavePlaces DEF FileInv, IsRegistry
<1>2. DOMAIN ids = 1..Len(ids) /\ Len(ids) \in Nat /\ \A n \in DOMAIN ids : ids[n] \in Ids
  BY LenProperties, ElementOfSeq
<1>3. \A n \in DOMAIN ids : Get(ids[n]) \in Range(sets) /\ Get(ids[n]).id = ids[n]
  BY <1>2, SetsHavePlaces DEF FileInv, Range
<1>4. /\ a \in Seq(Range(sets)) /\ DOMAIN a = DOMAIN ids /\ Len(a) = Len(ids)
      /\ \A n \in DOMAIN a : a[n].id = ids[n]
  BY <1>2, <1>3
<1>5. /\ b \in Seq(Range(sets)) /\ DOMAIN b = 1..Len(b) /\ Len(b) \in Nat
      /\ \A n \in DOMAIN b : b[n] \in A
  <2>1. b \in Seq(Range(sets)) /\ Range(b) = Range(sets) \cap A
    BY <1>1, OnlyIsAList, OnlyRange
  <2> HIDE DEF A, b
  <2>2. DOMAIN b = 1..Len(b) /\ Len(b) \in Nat
    BY <2>1, LenProperties
  <2> QED BY <2>1, <2>2 DEF Range
<1>6. \A i, j \in DOMAIN sets : sets[i] = sets[j] => i = j
  BY DEF FileInv, IsRegistry
<1>7. \A i, j \in DOMAIN b : b[i] = b[j] => i = j
  <2> HIDE DEF A
  <2> QED BY <1>1, <1>6, OnlyIsInjective
<1>8. g = a \o b
  <2>1. Range(ids) \subseteq Ids
    BY <1>2 DEF Range
  <2>2. Only(ids, Ids) = ids
    BY <2>1, OnlyAll
  <2> QED BY <2>2 DEF Reordered
<1>9. \A set \in Range(sets) : IsSet(set) /\ \E m \in DOMAIN sets : Stems(set, sets[m])
  BY ReflexivelyStems DEF FileInv, IsRegistry, Range
<1>10. \A x, y \in Range(sets) : x.id = y.id => x = y
  BY DEF FileInv, IsRegistry, Range
<1>11. \A n \in DOMAIN b : b[n] \in Range(sets) /\ b[n].id \notin Range(ids)
  BY <1>5
<1>12. \A n \in DOMAIN a : a[n] \in Range(sets) /\ a[n].id \in Range(ids)
  BY <1>3, <1>4 DEF Range
<1> HIDE DEF a, A, b, g
<1>13. /\ g \in Seq(Range(sets)) /\ Len(g) = Len(a) + Len(b)
       /\ \A n \in 1..Len(a) + Len(b) : g[n] = IF n <= Len(a) THEN a[n] ELSE b[n - Len(a)]
  BY <1>4, <1>5, <1>8, ConcatProperties
<1>14. g \in Seq(Range(g)) /\ DOMAIN g = 1..Len(a) + Len(b)
  BY <1>13, ListsOfThemselves, LenProperties
<1>15. \A n \in DOMAIN g :
         \/ n \in DOMAIN a /\ g[n] = a[n]
         \/ n - Len(a) \in DOMAIN b /\ g[n] = b[n - Len(a)] /\ n \notin DOMAIN a
  <2> TAKE n \in DOMAIN g
  <2>1. n \in 1..Len(a) + Len(b) /\ Len(a) \in Nat /\ DOMAIN a = 1..Len(a) /\ DOMAIN b = 1..Len(b)
    BY <1>2, <1>4, <1>5, <1>14
  <2>2. g[n] = IF n <= Len(a) THEN a[n] ELSE b[n - Len(a)]
    BY <1>13, <2>1
  <2>3. CASE n <= Len(a)
    <3>1. n \in DOMAIN a
      <4>1. n \in 1..Len(a)
        BY <2>1, <2>3
      <4> QED BY <2>1, <4>1
    <3>2. g[n] = a[n]
      BY <2>2, <2>3
    <3> QED BY <3>1, <3>2
  <2>4. CASE n > Len(a)
    <3>1. n - Len(a) \in 1..Len(b) /\ n \notin 1..Len(a) /\ ~(n <= Len(a))
      BY <1>5, <2>1, <2>4
    <3> QED BY <2>1, <2>2, <3>1
  <2> QED BY <2>1, <2>3, <2>4
<1>16. UniqueIds(g)
  <2> SUFFICES ASSUME NEW m \in DOMAIN g, NEW n \in DOMAIN g, g[m].id = g[n].id PROVE m = n
    BY DEF UniqueIds
  <2>1. CASE m \in DOMAIN a /\ g[m] = a[m] /\ n \in DOMAIN a /\ g[n] = a[n]
    BY <1>4, <2>1
  <2>2. CASE /\ m - Len(a) \in DOMAIN b /\ g[m] = b[m - Len(a)]
             /\ n - Len(a) \in DOMAIN b /\ g[n] = b[n - Len(a)]
    <3>1. b[m - Len(a)] = b[n - Len(a)]
      BY <1>10, <1>11, <2>2
    <3>2. m - Len(a) = n - Len(a)
      BY <1>7, <2>2, <3>1
    <3> QED BY <1>2, <1>4, <1>5, <1>14, <3>2
  <2> QED BY <1>11, <1>12, <1>15, <2>1, <2>2
<1>17. \A n \in DOMAIN g : g[n] \in Range(sets)
  BY <1>11, <1>12, <1>15
<1> QED BY <1>9, <1>14, <1>16, <1>17, RegistriesStem DEF FileInv, g

LEMMA ReordersKeepTheRegistry ==
    ASSUME FileInv, ReorderSets
    PROVE  FileInv'
<1>1. PICK id \in Ids, also \in Ids : sets' = Reordered(IF id = also THEN <<id>> ELSE <<id, also>>)
  BY DEF ReorderSets
<1> DEFINE ids == IF id = also THEN <<id>> ELSE <<id, also>>
<1>2. ids \in Seq(Ids) /\ \A i, j \in DOMAIN ids : ids[i] = ids[j] => i = j
  <2>1. CASE id = also
    <3>1. ids = <<id>> /\ <<id>> \in Seq(Ids) /\ DOMAIN <<id>> = 1..1
      BY <2>1
    <3> HIDE DEF ids
    <3> QED BY <3>1
  <2>2. CASE id # also
    <3>1. ids = <<id, also>> /\ <<id, also>> \in Seq(Ids) /\ DOMAIN <<id, also>> = 1..2
      BY <2>2
    <3>2. <<id, also>>[1] = id /\ <<id, also>>[2] = also
      OBVIOUS
    <3> HIDE DEF ids
    <3> QED BY <2>2, <3>1, <3>2
  <2> QED BY <2>1, <2>2
<1>3. sets' = Reordered(ids)
  BY <1>1
<1> HIDE DEF ids
<1>4. IsRegistry(sets') /\ Follows(sets', sets)
  BY <1>2, <1>3, OrdersKeepTheRegistry
<1> QED BY <1>4, FormFollows DEF FileInv, ReorderSets

LEMMA EditsKeepTheRegistry ==
    ASSUME FileInv, HandEdits
    PROVE  FileInv'
<1>1. PICK n \in DOMAIN sets :
        \/ \E pick \in Picks \cup {Infinite, Unset} : sets' = [sets EXCEPT ![n].length = pick]
        \/ sets[n].source = "rotation" /\ sets' = [sets EXCEPT ![n].refill = ~@]
        \/ /\ sets[n].source = "rotation"
           /\ \E mode \in {"rewatch", "both", "absent"} : sets' = [sets EXCEPT ![n].mode = mode]
        \/ sets' = [sets EXCEPT ![n].enabled = ~@]
  BY DEF HandEdits
<1> DEFINE old == sets[n]
<1>2. IsSet(old)
  BY DEF FileInv, IsRegistry
<1>3. \E new : IsSet(new) /\ Stems(new, old) /\ sets' = [sets EXCEPT ![n] = new]
  <2>1. ASSUME NEW pick \in Picks \cup {Infinite, Unset}, sets' = [sets EXCEPT ![n].length = pick]
        PROVE  \E new : IsSet(new) /\ Stems(new, old) /\ sets' = [sets EXCEPT ![n] = new]
    <3> DEFINE new == [old EXCEPT !.length = pick]
    <3>1. sets' = [sets EXCEPT ![n] = new]
      BY <2>1
    <3>2. pick \in Int \cup {Infinite, Unset}
      BY RegistryAssumption
    <3> HIDE DEF old
    <3>3. IsSet(new) /\ Stems(new, old)
      BY <1>2, <3>2 DEF IsSet, Stems
    <3> QED BY <3>1, <3>3
  <2>2. ASSUME sets' = [sets EXCEPT ![n].refill = ~@]
        PROVE  \E new : IsSet(new) /\ Stems(new, old) /\ sets' = [sets EXCEPT ![n] = new]
    <3> DEFINE new == [old EXCEPT !.refill = ~old.refill]
    <3>1. sets' = [sets EXCEPT ![n] = new]
      BY <2>2
    <3> HIDE DEF old
    <3>3. IsSet(new) /\ Stems(new, old)
      BY <1>2 DEF IsSet, Stems
    <3> QED BY <3>1, <3>3
  <2>3. ASSUME NEW mode \in {"rewatch", "both", "absent"}, sets' = [sets EXCEPT ![n].mode = mode]
        PROVE  \E new : IsSet(new) /\ Stems(new, old) /\ sets' = [sets EXCEPT ![n] = new]
    <3> DEFINE new == [old EXCEPT !.mode = mode]
    <3>1. sets' = [sets EXCEPT ![n] = new]
      BY <2>3
    <3> HIDE DEF old
    <3>3. IsSet(new) /\ Stems(new, old)
      BY <1>2 DEF IsSet, Stems
    <3> QED BY <3>1, <3>3
  <2>4. ASSUME sets' = [sets EXCEPT ![n].enabled = ~@]
        PROVE  \E new : IsSet(new) /\ Stems(new, old) /\ sets' = [sets EXCEPT ![n] = new]
    <3> DEFINE new == [old EXCEPT !.enabled = ~old.enabled]
    <3>1. sets' = [sets EXCEPT ![n] = new]
      BY <2>4
    <3> HIDE DEF old
    <3>3. IsSet(new) /\ Stems(new, old)
      BY <1>2 DEF IsSet, Stems
    <3> QED BY <3>1, <3>3
  <2> QED BY <1>1, <2>1, <2>2, <2>3, <2>4
<1>4. PICK new : IsSet(new) /\ Stems(new, old) /\ sets' = [sets EXCEPT ![n] = new]
  BY <1>3
<1>5. sets \in Seq(Range(sets) \cup {new}) /\ DOMAIN sets = 1..Len(sets)
  BY LenProperties, SeqMonotonic DEF FileInv, IsRegistry
<1>6. sets' \in Seq(Range(sets) \cup {new})
  BY <1>4, <1>5, ExceptSeq
<1>7. sets' \in Seq(Range(sets'))
  BY <1>6, ListsOfThemselves
<1>8. DOMAIN sets' = DOMAIN sets /\ \A m \in DOMAIN sets : sets'[m] = IF m = n THEN new ELSE sets[m]
  BY <1>4
<1>9. \A m \in DOMAIN sets' : IsSet(sets'[m]) /\ Stems(sets'[m], sets[m])
  BY <1>4, <1>8, ReflexivelyStems DEF FileInv, IsRegistry
<1>10. UniqueIds(sets')
  BY <1>8, <1>9 DEF UniqueIds, Stems, FileInv, IsRegistry
<1>11. IsRegistry(sets') /\ Follows(sets', sets)
  BY <1>7, <1>8, <1>9, <1>10, RegistriesStem DEF FileInv
<1> QED BY <1>11, FormFollows DEF FileInv, HandEdits

-----------------------------------------------------------------------------
(* The migration.                                                          *)

LEMMA TiersAreSets ==
    ASSUME FileInv
    PROVE  /\ Tiers \in Seq(Range(Tiers)) /\ DOMAIN Tiers = 1..Len(Tiers) /\ Len(Tiers) \in Nat
           /\ \A n \in DOMAIN Tiers :
                /\ Tiers[n] \in Range(Tiers)
                /\ \E m \in DOMAIN sets : Tiers[n] = sets[m]
                /\ Tiers[n].source = "rotation" /\ Tiers[n].profiles = << >>
<1> DEFINE plain == {old \in Range(sets) : old.source = "rotation" /\ old.profiles = << >>}
           X == {set.id : set \in plain}
           ids == Only(TierIds, X)
<1>1. Tiers = [n \in DOMAIN ids |-> Get(ids[n])]
  BY DEF Tiers
<1>2. ids \in Seq(Range(TierIds)) /\ Range(ids) = Range(TierIds) \cap X
  <2> HIDE DEF X
  <2> QED BY RegistryAssumption, OnlyIsAList, OnlyRange
<1> HIDE DEF ids
<1>3. DOMAIN ids = 1..Len(ids) /\ Len(ids) \in Nat /\ \A n \in DOMAIN ids : ids[n] \in X
  BY <1>2, LenProperties DEF Range
<1>4. ASSUME NEW n \in DOMAIN ids
      PROVE  \E m \in DOMAIN sets : /\ Get(ids[n]) = sets[m] /\ sets[m].source = "rotation"
                                   /\ sets[m].profiles = << >>
  <2>1. PICK old \in plain : old.id = ids[n]
    BY <1>3
  <2>2. PICK m \in DOMAIN sets : sets[m] = old
    BY DEF Range
  <2>3. Get(ids[n]) = sets[m]
    BY <2>1, <2>2, SetsHavePlaces DEF FileInv
  <2> QED BY <2>1, <2>2, <2>3
<1>5. /\ Tiers \in Seq(Range(sets)) /\ DOMAIN Tiers = DOMAIN ids
      /\ \A n \in DOMAIN Tiers : Tiers[n] = Get(ids[n])
  <2>1. \A n \in 1..Len(ids) : Get(ids[n]) \in Range(sets)
    BY <1>3, <1>4 DEF Range
  <2> QED BY <1>1, <1>3, <2>1
<1>6. Tiers \in Seq(Range(Tiers)) /\ DOMAIN Tiers = 1..Len(Tiers) /\ Len(Tiers) \in Nat
  BY <1>5, ListsOfThemselves, LenProperties
<1>7. \A n \in DOMAIN Tiers : Tiers[n] \in Range(Tiers)
  BY DEF Range
<1> QED BY <1>4, <1>5, <1>6, <1>7

\* A set of the file, when the tiers have been migrated.
Retired(set) == IF set \in Range(Tiers) THEN [set EXCEPT !.superseded = TRUE] ELSE set

LEMMA RetiredSets ==
    ASSUME NEW set, IsSet(set)
    PROVE  /\ IsSet(Retired(set)) /\ Stems(Retired(set), set) /\ Retired(set).enabled = set.enabled
           /\ set \in Range(Tiers) => Retired(set).superseded
BY ZenonT(40) DEF Retired, IsSet, Stems

\* A channel of the migration, and who is bound by it.
LEMMA ChannelsOfTheMigration ==
    ASSUME FileInv, Tiers # << >>, NEW id, id # NewSet, NEW behavior \in {"progress", "rewatch"}
    PROVE  LET new == Channel(id, behavior, Tiers) IN
           /\ IsSet(new) /\ new.id = id /\ new.source = "rotation" /\ new.enabled /\ ~new.superseded
           /\ IsRewatch(new) = (behavior = "rewatch")
           /\ new.top.user = Nobody /\ new.profiles # << >>
           /\ DOMAIN new.profiles = DOMAIN Tiers
           /\ \A n \in DOMAIN Tiers : new.profiles[n] = Tiers[n].top
<1> DEFINE tops == [n \in DOMAIN Tiers |-> Tiers[n].top]
           nobody == [user |-> Nobody, cap |-> Nobody]
           new == Channel(id, behavior, Tiers)
<1>1. DOMAIN Tiers = 1..Len(Tiers) /\ Len(Tiers) \in Nat /\ Tiers \in Seq(Range(Tiers))
  BY TiersAreSets
<1>2. Len(Tiers) # 0
  BY <1>1, EmptySeq
<1>3. /\ tops \in Seq(Range(tops)) /\ tops # << >> /\ DOMAIN tops = DOMAIN Tiers
      /\ \A n \in DOMAIN Tiers : tops[n] = Tiers[n].top
  <2>1. DOMAIN tops = 1..Len(Tiers) /\ \A n \in 1..Len(Tiers) : tops[n] \in Range(tops)
    BY <1>1 DEF Range
  <2>2. tops \in Seq(Range(tops)) /\ Len(tops) = Len(Tiers)
    <3> DEFINE R == Range(tops)
    <3>1. tops \in [1..Len(Tiers) -> R]
      BY <2>1
    <3> HIDE DEF R, tops
    <3>2. tops \in Seq(R) /\ Len(tops) = Len(Tiers)
      BY <1>1, <3>1
    <3> QED BY <3>2 DEF R
  <2> QED BY <1>2, <2>1, <2>2
<1>4. new = [id |-> id, source |-> "rotation", anime |-> FALSE, behavior |-> behavior, mode |-> "absent",
             length |-> Unset, refill |-> FALSE, profiles |-> tops, top |-> nobody,
             superseded |-> FALSE, enabled |-> TRUE]
  BY DEF Channel
<1>5. nobody.user = Nobody
  OBVIOUS
<1> HIDE DEF tops, nobody, new
<1>6. /\ IsSet(new) /\ new.id = id /\ new.source = "rotation" /\ new.enabled /\ ~new.superseded
      /\ new.behavior = behavior /\ new.profiles = tops /\ new.top = nobody
  BY <1>3, <1>4 DEF IsSet
<1>7. IsRewatch(new) = (behavior = "rewatch")
  BY <1>6 DEF IsRewatch, Behavior
<1> QED BY <1>3, <1>5, <1>6, <1>7 DEF new

\* What the file is after the migration.
LEMMA MigratedFile ==
    ASSUME FileInv, MigrateLegacyTiers
    PROVE  /\ sets' \in Seq(Range(sets')) /\ DOMAIN sets' = 1..Len(sets) + 2
           /\ \A n \in DOMAIN sets : sets'[n] = Retired(sets[n])
           /\ sets'[Len(sets) + 1] = Channel(ShowsShorts, "progress", Tiers)
           /\ sets'[Len(sets) + 2] = Channel(Movies, "rewatch", Tiers)
<1> DEFINE L == Len(sets)
           a == [n \in DOMAIN sets |-> Retired(sets[n])]
           c == Channel(ShowsShorts, "progress", Tiers)
           d == Channel(Movies, "rewatch", Tiers)
           T == Range(a) \cup {c, d}
<1>1. DOMAIN sets = 1..L /\ L \in Nat
  BY SetsHavePlaces DEF FileInv
<1>2. sets' = a \o <<c, d>>
  BY DEF MigrateLegacyTiers, Retired
<1> HIDE DEF c, d
<1>3. a \in Seq(T) /\ Len(a) = L /\ \A n \in DOMAIN sets : a[n] = Retired(sets[n])
  <2>1. \A n \in 1..L : Retired(sets[n]) \in T
    BY <1>1 DEF Range
  <2> HIDE DEF T
  <2> QED BY <1>1, <2>1
<1> DEFINE two == <<c, d>>
<1>4. two \in Seq(T) /\ Len(two) = 2 /\ two[1] = c /\ two[2] = d
  <2>1. c \in T /\ d \in T
    OBVIOUS
  <2> HIDE DEF T
  <2> QED BY <2>1
<1> HIDE DEF a, T, two
<1>5. /\ sets' \in Seq(T) /\ Len(sets') = L + 2
      /\ \A i \in 1..L + 2 : sets'[i] = IF i <= L THEN a[i] ELSE two[i - L]
  <2>1. sets' = a \o two
    BY <1>2 DEF two
  <2> DEFINE g == a \o two
  <2>2. a \in Seq(T) /\ two \in Seq(T)
    BY <1>3, <1>4
  <2>3. /\ g \in Seq(T) /\ Len(g) = Len(a) + Len(two)
        /\ \A i \in 1..Len(a) + Len(two) : g[i] = IF i <= Len(a) THEN a[i] ELSE two[i - Len(a)]
    BY <2>2, ConcatProperties
  <2> HIDE DEF g
  <2>4. /\ sets' \in Seq(T) /\ Len(sets') = Len(a) + Len(two)
        /\ \A i \in 1..Len(a) + Len(two) : sets'[i] = IF i <= Len(a) THEN a[i] ELSE two[i - Len(a)]
    BY <2>1, <2>3 DEF g
  <2> QED BY <1>3, <1>4, <2>4
<1>6. sets' \in Seq(Range(sets')) /\ DOMAIN sets' = 1..L + 2
  BY <1>5, ListsOfThemselves, LenProperties
<1>7. \A n \in DOMAIN sets : sets'[n] = Retired(sets[n])
  BY <1>1, <1>3, <1>5
<1>8. sets'[L + 1] = c /\ sets'[L + 2] = d
  <2>1. /\ L + 1 \in 1..L + 2 /\ L + 2 \in 1..L + 2 /\ ~(L + 1 <= L) /\ ~(L + 2 <= L)
        /\ (L + 1) - L = 1 /\ (L + 2) - L = 2
    BY <1>1
  <2> QED BY <1>4, <1>5, <2>1
<1> QED BY <1>6, <1>7, <1>8 DEF c, d

\* A tier that binds a mapped profile is the set the map names.
LEMMA TiersOfProfiles ==
    ASSUME FileInv, NEW n \in DOMAIN Tiers, NEW title \in DOMAIN SetForProfile, Tiers[n].top.user = title,
           NEW m \in DOMAIN sets, sets[m].id = SetForProfile[title]
    PROVE  Tiers[n] = sets[m]
<1>1. PICK k \in DOMAIN sets : Tiers[n] = sets[k]
  BY TiersAreSets
<1>2. sets[k].id = SetForProfile[title]
  BY <1>1 DEF FileInv, IsRegistry, OfItsProfile
<1> QED BY <1>1, <1>2 DEF FileInv, IsRegistry

LEMMA MigrationKeepsTheRegistry ==
    ASSUME FileInv, MigrateLegacyTiers
    PROVE  FileInv'
<1> DEFINE L == Len(sets)
           c == Channel(ShowsShorts, "progress", Tiers)
           d == Channel(Movies, "rewatch", Tiers)
<1>1. DOMAIN sets = 1..L /\ L \in Nat
  BY SetsHavePlaces DEF FileInv
<1>2. /\ sets' \in Seq(Range(sets')) /\ DOMAIN sets' = 1..L + 2
      /\ \A n \in DOMAIN sets : sets'[n] = Retired(sets[n])
      /\ sets'[L + 1] = c /\ sets'[L + 2] = d
  BY MigratedFile
<1>3. Tiers # << >> /\ ShowsShorts \notin Ids /\ Movies \notin Ids /\ UNCHANGED form
  BY DEF MigrateLegacyTiers
<1>4. ShowsShorts # NewSet /\ Movies # NewSet /\ ShowsShorts # Movies
  BY DEF ShowsShorts, Movies, NewSet
<1>5. \A new \in {c, d} :
        /\ IsSet(new) /\ new.top.user = Nobody /\ new.profiles # << >>
        /\ DOMAIN new.profiles = DOMAIN Tiers /\ \A n \in DOMAIN Tiers : new.profiles[n] = Tiers[n].top
  BY <1>3, <1>4, ChannelsOfTheMigration
<1>6. c.id = ShowsShorts /\ d.id = Movies
  BY <1>3, <1>4, ChannelsOfTheMigration
<1> HIDE DEF c, d
<1>7. \A n \in DOMAIN sets' : n \in DOMAIN sets \/ n = L + 1 \/ n = L + 2
  BY <1>1, <1>2
<1>8. /\ \A n \in DOMAIN sets : IsSet(sets'[n]) /\ Stems(sets'[n], sets[n])
      /\ \A n \in DOMAIN sets : sets[n] \in Range(Tiers) => sets'[n].superseded
  BY <1>2, RetiredSets DEF FileInv, IsRegistry
<1>9. \A n \in DOMAIN sets : sets'[n].id = sets[n].id /\ sets[n].id \in Ids
  BY <1>8 DEF Stems, Ids
<1>10. UniqueIds(sets')
  BY <1>2, <1>3, <1>4, <1>6, <1>7, <1>9 DEF UniqueIds, FileInv, IsRegistry
<1>11. \A n \in DOMAIN sets' : IsSet(sets'[n]) /\ OfItsProfile(sets'[n])
  <2>1. \A n \in DOMAIN sets : OfItsProfile(sets'[n])
    BY <1>8 DEF Stems, OfItsProfile, FileInv, IsRegistry
  <2>2. OfItsProfile(c) /\ OfItsProfile(d)
    BY <1>5, RegistryAssumption DEF OfItsProfile
  <2> QED BY <1>2, <1>5, <1>7, <1>8, <2>1, <2>2
<1>12. \A new \in {c, d} : \A title : ~AwaitsMigration(new, title)
  BY <1>5 DEF AwaitsMigration
<1>13. ASSUME NEW new \in {c, d}, NEW m \in DOMAIN sets', NEW title \in DOMAIN SetForProfile,
              AwaitsMigration(sets'[m], title), Binds(new, title)
       PROVE  FALSE
  <2>1. m \in DOMAIN sets
    BY <1>2, <1>7, <1>12, <1>13
  <2>2. PICK n \in DOMAIN Tiers : Tiers[n].top.user = title
    BY <1>5, <1>13 DEF Binds
  <2>3. sets[m].top.user = title
    BY <1>8, <1>13, <2>1 DEF AwaitsMigration, Stems
  <2>4. sets[m].id = SetForProfile[title]
    BY <2>1, <2>3 DEF FileInv, IsRegistry, OfItsProfile
  <2>5. Tiers[n] = sets[m] /\ Tiers[n] \in Range(Tiers)
    BY <2>1, <2>2, <2>4, TiersOfProfiles, TiersAreSets
  <2> QED BY <1>8, <1>13, <2>1, <2>5 DEF AwaitsMigration
<1>14. Follows(sets', sets)
  BY <1>2, <1>7, <1>8, <1>12, <1>13 DEF Follows
<1>15. IsRegistry(sets')
  BY <1>2, <1>10, <1>11, <1>14, RegistriesFollow DEF FileInv
<1> QED BY <1>3, <1>14, <1>15, FormFollows DEF FileInv

-----------------------------------------------------------------------------
(* The editors.                                                            *)

LEMMA OpensOnItsBindings ==
    ASSUME FileInv, NEW n \in DOMAIN sets, NEW m \in DOMAIN sets, NEW k \in DOMAIN Bindings(sets[n]),
           AwaitsMigration(sets[m], Bindings(sets[n])[k].user)
    PROVE  sets[m].id = sets[n].id
<1> DEFINE title == Bindings(sets[n])[k].user
<1>1. title \in DOMAIN SetForProfile /\ sets[m].top.user = title
  BY DEF AwaitsMigration
<1>2. IsSet(sets[n])
  BY DEF FileInv, IsRegistry
<1>3. CASE sets[n].profiles # << >>
  <2>1. Bindings(sets[n]) = sets[n].profiles
    BY <1>2, <1>3, BindingsBind
  <2>2. Binds(sets[n], title)
    BY <2>1 DEF Binds
  <2> QED BY <1>1, <2>2 DEF FileInv, IsRegistry
<1>4. CASE sets[n].profiles = << >>
  <2>1. sets[n].top.user = title
    BY <1>2, <1>4, BindingsBind
  <2> QED BY <1>1, <2>1 DEF FileInv, IsRegistry, OfItsProfile
<1> QED BY <1>3, <1>4

LEMMA OpeningKeepsTheRegistry ==
    ASSUME FileInv, OpensOld \/ OpensNew
    PROVE  FileInv'
<1>1. CASE OpensOld
  <2>1. PICK n \in DOMAIN sets : form' = Prefilled(sets[n])
    BY <1>1 DEF OpensOld
  <2> DEFINE old == sets[n]
             behavior == IF IsRewatch(old) THEN "rewatch" ELSE "progress"
             shown == IF Reported(old) # Unset THEN Reported(old) ELSE KindDefault(old)
             bindings == Bindings(old)
  <2>2. IsSet(old) /\ sets' = sets
    BY <1>1 DEF OpensOld, FileInv, IsRegistry
  <2>3. form' = [id |-> old.id, source |-> old.source, anime |-> old.anime, behavior |-> behavior,
                 shown |-> shown, bindings |-> bindings]
    BY <2>1 DEF Prefilled
  <2>4. behavior \in {"progress", "rewatch"} /\ bindings \in Seq(Range(bindings))
    BY <2>2, BindingsBind
  <2>5. shown \in (Nat \ {0}) \cup {Infinite}
    BY <2>2, OpensOnTheLength DEF Prefilled
  <2>6. old.source \in {"queue", "rotation"} /\ old.anime \in BOOLEAN
    BY <2>2 DEF IsSet
  <2>7. \A m \in DOMAIN sets, k \in DOMAIN bindings :
          AwaitsMigration(sets[m], bindings[k].user) => sets[m].id = old.id
    BY OpensOnItsBindings
  <2> HIDE DEF old, behavior, shown, bindings
  <2> QED BY <2>2, <2>3, <2>4, <2>5, <2>6, <2>7 DEF FileInv, FormInv
<1>2. CASE OpensNew
  <2> DEFINE none == <<[user |-> Nobody, cap |-> Nobody]>>
  <2>1. PICK source \in {"queue", "rotation"} :
          form' = [id |-> NewSet, source |-> source, anime |-> FALSE, behavior |-> "progress",
                   shown |-> IF source = "rotation" THEN RotationLength ELSE 1, bindings |-> none]
    BY <1>2 DEF OpensNew
  <2>2. none \in Seq(Range(none)) /\ \A k \in DOMAIN none : none[k].user = Nobody
    <3>1. none \in Seq({[user |-> Nobody, cap |-> Nobody]}) /\ DOMAIN none = 1..1
      OBVIOUS
    <3>2. none[1].user = Nobody
      OBVIOUS
    <3> HIDE DEF none
    <3> QED BY <3>1, <3>2, ListsOfThemselves
  <2> HIDE DEF none
  <2>3. \A set : \A k \in DOMAIN none : ~AwaitsMigration(set, none[k].user)
    BY <2>2, RegistryAssumption DEF AwaitsMigration
  <2>4. RotationLength \in Nat \ {0}
    BY WindowAssumption
  <2>5. sets' = sets
    BY <1>2 DEF OpensNew
  <2> DEFINE shown == IF source = "rotation" THEN RotationLength ELSE 1
  <2>6. shown \in (Nat \ {0}) \cup {Infinite}
    BY <2>4
  <2> HIDE DEF shown
  <2>7. form' = [id |-> NewSet, source |-> source, anime |-> FALSE, behavior |-> "progress",
                 shown |-> shown, bindings |-> none]
    BY <2>1 DEF shown
  <2>8. /\ form' \in [id : {form'.id}, source : {"queue", "rotation"}, anime : BOOLEAN,
                     behavior : {"progress", "rewatch"}, shown : (Nat \ {0}) \cup {Infinite},
                     bindings : {form'.bindings}]
        /\ form'.bindings = none
    BY <2>6, <2>7
  <2>9. form'.bindings \in Seq(Range(form'.bindings))
    BY <2>2, <2>8
  <2>10. \A n \in DOMAIN sets', k \in DOMAIN form'.bindings :
            ~AwaitsMigration(sets'[n], form'.bindings[k].user)
    BY <2>3, <2>8
  <2> QED BY <2>5, <2>8, <2>9, <2>10 DEF FileInv, FormInv
<1> QED BY <1>1, <1>2

LEMMA ControlsKeepTheRegistry ==
    ASSUME FileInv, PicksControl
    PROVE  FileInv'
<1>1. form # Closed /\ sets' = sets
  BY DEF PicksControl
<1>2. \E shown \in (Nat \ {0}) \cup {Infinite}, behavior \in {"progress", "rewatch"}, anime \in BOOLEAN :
        form' = [form EXCEPT !.shown = shown, !.behavior = behavior, !.anime = anime]
  <2>1. form = [form EXCEPT !.shown = form.shown, !.behavior = form.behavior, !.anime = form.anime]
    BY <1>1 DEF FileInv, FormInv
  <2>2. CASE \E pick \in (Picks \ {0}) \cup {Infinite} : form' = [form EXCEPT !.shown = pick]
    <3>1. PICK pick \in (Picks \ {0}) \cup {Infinite} : form' = [form EXCEPT !.shown = pick]
      BY <2>2
    <3>2. pick \in (Nat \ {0}) \cup {Infinite}
      BY RegistryAssumption
    <3>3. form' = [form EXCEPT !.shown = pick, !.behavior = form.behavior, !.anime = form.anime]
      BY <1>1, <3>1 DEF FileInv, FormInv
    <3> QED BY <1>1, <3>2, <3>3 DEF FileInv, FormInv
  <2>3. CASE \E behavior \in {"progress", "rewatch"} : form' = [form EXCEPT !.behavior = behavior]
    <3>1. PICK behavior \in {"progress", "rewatch"} : form' = [form EXCEPT !.behavior = behavior]
      BY <2>3
    <3>3. form' = [form EXCEPT !.shown = form.shown, !.behavior = behavior, !.anime = form.anime]
      BY <1>1, <3>1 DEF FileInv, FormInv
    <3> QED BY <1>1, <3>3 DEF FileInv, FormInv
  <2>4. CASE form' = [form EXCEPT !.anime = ~@]
    <3> DEFINE other == ~form.anime
    <3>1. form' = [form EXCEPT !.anime = other] /\ other \in BOOLEAN
      BY <2>4
    <3> HIDE DEF other
    <3>3. form' = [form EXCEPT !.shown = form.shown, !.behavior = form.behavior, !.anime = other]
      BY <1>1, <3>1 DEF FileInv, FormInv
    <3> QED BY <1>1, <3>1, <3>3 DEF FileInv, FormInv
  <2> QED BY <2>2, <2>3, <2>4 DEF PicksControl
<1>3. PICK shown \in (Nat \ {0}) \cup {Infinite}, behavior \in {"progress", "rewatch"}, anime \in BOOLEAN :
        form' = [form EXCEPT !.shown = shown, !.behavior = behavior, !.anime = anime]
  BY <1>2
<1>4. /\ form' \in [id : {form'.id}, source : {"queue", "rotation"}, anime : BOOLEAN,
                    behavior : {"progress", "rewatch"}, shown : (Nat \ {0}) \cup {Infinite},
                    bindings : {form'.bindings}]
      /\ form'.id = form.id /\ form'.bindings = form.bindings
  BY <1>1, <1>3 DEF FileInv, FormInv
<1> QED BY <1>1, <1>4 DEF FileInv, FormInv

LEMMA RegistryHolds ==
    ASSUME FileInv, [RegistryNext]_registryVars
    PROVE  FileInv'
<1>1. CASE OpensOld \/ OpensNew
  BY <1>1, OpeningKeepsTheRegistry
<1>2. CASE PicksControl
  BY <1>2, ControlsKeepTheRegistry
<1>3. CASE Dismisses
  BY <1>3 DEF Dismisses, FileInv, FormInv
<1>4. CASE SavesOld
  BY <1>4, SavesKeepTheRegistry
<1>5. CASE SavesNew
  BY <1>5, NewSetsKeepTheRegistry
<1>6. CASE SaveRefused \/ UNCHANGED registryVars
  BY <1>6 DEF SaveRefused, registryVars, FileInv, FormInv
<1>7. CASE DeleteSet
  BY <1>7, DeletesKeepTheRegistry
<1>8. CASE ReorderSets
  BY <1>8, ReordersKeepTheRegistry
<1>9. CASE HandEdits
  BY <1>9, EditsKeepTheRegistry
<1>10. CASE MigrateLegacyTiers
  BY <1>10, MigrationKeepsTheRegistry
<1> QED BY <1>1, <1>2, <1>3, <1>4, <1>5, <1>6, <1>7, <1>8, <1>9, <1>10 DEF RegistryNext

LEMMA RegistryStarts == RegistryInit => FileInv
BY RegistryAssumption DEF RegistryInit, FileInv, FormInv

-----------------------------------------------------------------------------
(* What an editor says is what plays.                                      *)

LEMMA OnlySavesAreSaved ==
    ASSUME RegistryNext, last' = "saved"
    PROVE  SavesOld \/ SavesNew
BY DEF RegistryNext, OpensOld, OpensNew, PicksControl, Dismisses, SaveRefused, DeleteSet, ReorderSets,
       HandEdits, MigrateLegacyTiers, Changes

LEMMA OnlyOpeningsAreOpened ==
    ASSUME RegistryNext, last' = "opened"
    PROVE  OpensOld \/ OpensNew
BY DEF RegistryNext, SavesOld, SavesNew, PicksControl, Dismisses, SaveRefused, DeleteSet, ReorderSets,
       HandEdits, MigrateLegacyTiers, Changes

LEMMA OpensAsItPlays ==
    ASSUME FileInv, OpensOld \/ OpensNew, form'.id # NewSet
    PROVE  Shown(form'.shown) = Length(AsPlayed(Get(form'.id)))
<1>1. CASE OpensOld
  <2>1. PICK n \in DOMAIN sets : form' = Prefilled(sets[n])
    BY <1>1 DEF OpensOld
  <2>2. form'.id = sets[n].id
    BY <2>1 DEF Prefilled
  <2>3. Get(form'.id) = sets[n] /\ IsSet(sets[n])
    BY <2>2, SetsHavePlaces DEF FileInv, IsRegistry
  <2> QED BY <2>1, <2>3, OpensOnTheLength
<1>2. CASE OpensNew
  BY <1>2 DEF OpensNew
<1> QED BY <1>1, <1>2

LEMMA SavedSetPlaysAsShown ==
    ASSUME FileInv, SavesOld \/ SavesNew, form.id # NewSet => ~Get(form.id).refill
    PROVE  PlaysAsShown
<1>1. CASE SavesOld
  <2> DEFINE p == At(form.id)
  <2>1. /\ p \in DOMAIN sets /\ sets[p].id = form.id /\ Get(form.id) = sets[p]
        /\ DOMAIN sets' = DOMAIN sets /\ SavedFrom(sets'[p], sets[p])
        /\ \A n \in DOMAIN sets : n # p => sets'[n] = sets[n]
    BY <1>1, SaveIsOfOne
  <2> HIDE DEF p
  <2>2. form.id # NewSet
    BY <2>1 DEF FileInv, IsRegistry, IsSet
  <2>3. sets'[p] \in Range(sets') /\ sets'[p].id = form.id
    BY <2>1 DEF Range, SavedFrom
  <2>4. \A set \in Range(sets') : set.id = form.id => set = sets'[p]
    BY <2>1 DEF Range, FileInv, IsRegistry
  <2>5. SavedSet = sets'[p]
    BY <2>2, <2>3, <2>4 DEF SavedSet
  <2> QED BY <2>1, <2>2, <2>5 DEF PlaysAsShown, SavedFrom
<1>2. CASE SavesNew
  <2>1. PICK new, k :
          /\ new.id \notin Ids /\ Length(AsPlayed(new)) = Shown(form.shown)
          /\ k \in 1..Len(sets) + 1 /\ DOMAIN sets' = 1..Len(sets) + 1
          /\ \A n \in 1..Len(sets) + 1 :
               sets'[n] = IF n = k THEN new ELSE IF n < k THEN sets[n] ELSE sets[n - 1]
    BY <1>2, SaveAddsOne
  <2>2. DOMAIN sets = 1..Len(sets) /\ Len(sets) \in Nat
    BY SetsHavePlaces DEF FileInv
  <2>3. new \in Range(sets')
    BY <2>1 DEF Range
  <2>4. \A set \in Range(sets') : set = new \/ \E n \in DOMAIN sets : set = sets[n]
    <3> SUFFICES ASSUME NEW n \in DOMAIN sets', sets'[n] # new PROVE \E m \in DOMAIN sets : sets'[n] = sets[m]
      BY DEF Range
    <3>1. CASE n < k
      <4>1. n \in DOMAIN sets /\ sets'[n] = sets[n]
        BY <2>1, <2>2, <3>1
      <4> QED BY <4>1
    <3>2. CASE n > k
      <4>1. n - 1 \in DOMAIN sets /\ sets'[n] = sets[n - 1]
        BY <2>1, <2>2, <3>2
      <4> QED BY <4>1
    <3> QED BY <2>1, <2>2, <3>1, <3>2
  <2>5. \A set \in Range(sets') : set.id \notin Ids => set = new
    BY <2>4 DEF Ids
  <2>6. form.id = NewSet
    BY <1>2 DEF SavesNew
  <2>7. SavedSet = new
    BY <2>1, <2>3, <2>5, <2>6 DEF SavedSet
  <2> QED BY <2>1, <2>7 DEF PlaysAsShown
<1> QED BY <1>1, <1>2

-----------------------------------------------------------------------------
(* Who plays: the set a card is routed to, and its binding.                *)

IsRouted(set, isMovie, title) ==
    /\ set.source = "rotation" /\ set.enabled /\ ~set.superseded
    /\ set.profiles # << >>
    /\ IsRewatch(set) = isMovie
    /\ Binds(set, title)

RoutedPlaces(file, isMovie, title) == {n \in 1..Len(file) : IsRouted(file[n], isMovie, title)}

RouteOf(file, isMovie, title) ==
    IF FirstOf(RoutedPlaces(file, isMovie, title)) # 0 THEN FirstOf(RoutedPlaces(file, isMovie, title))
    ELSE IF title \in DOMAIN SetForProfile THEN FirstOf(PlacesOf(file, SetForProfile[title])) ELSE 0

PlayerOf(file, isMovie, title) ==
    LET n == RouteOf(file, isMovie, title)
    IN  IF n = 0 \/ ~file[n].enabled THEN [user |-> Nobody, cap |-> Nobody]
        ELSE BindingFor(file[n], title)

LEMMA ThePlayerOfTheFile ==
    ASSUME NEW isMovie, NEW title
    PROVE  /\ WhoPlays(isMovie, title) = PlayerOf(sets, isMovie, title)
           /\ WhoPlays(isMovie, title)' = PlayerOf(sets', isMovie, title)
<1>1. /\ ChannelFor(isMovie, title) = FirstOf(RoutedPlaces(sets, isMovie, title))
      /\ ChannelFor(isMovie, title)' = FirstOf(RoutedPlaces(sets', isMovie, title))
  BY DEF ChannelFor, SelectInSeq, FirstOf, RoutedPlaces, IsRouted
<1>2. \A id : At(id) = FirstOf(PlacesOf(sets, id)) /\ At(id)' = FirstOf(PlacesOf(sets', id))
  BY DEF At, SelectInSeq, FirstOf, PlacesOf
<1>3. Route(isMovie, title) = RouteOf(sets, isMovie, title)
  BY <1>1, <1>2 DEF Route, RouteOf
<1>4. Route(isMovie, title)' = RouteOf(sets', isMovie, title)
  BY <1>1, <1>2 DEF Route, RouteOf
<1> QED BY <1>3, <1>4 DEF WhoPlays, PlayerOf

\* The n-th set is the one a card is routed to, by a channel or by the map.
PlaysFrom(file, n, isMovie, title) ==
    /\ n \in DOMAIN file /\ file[n].enabled
    /\ \/ /\ IsRouted(file[n], isMovie, title)
          /\ \A j \in DOMAIN file : j < n => ~IsRouted(file[j], isMovie, title)
       \/ /\ \A j \in DOMAIN file : ~IsRouted(file[j], isMovie, title)
          /\ file[n].id = SetForProfile[title]

LEMMA RoutesHavePlaces ==
    ASSUME NEW file, IsRegistry(file), NEW isMovie, NEW title
    PROVE  LET I == RoutedPlaces(file, isMovie, title) IN
           /\ \A n \in DOMAIN file : IsRouted(file[n], isMovie, title) <=> n \in I
           /\ I = {} <=> FirstOf(I) = 0
           /\ I # {} => FirstOf(I) \in I /\ \A j \in I : FirstOf(I) <= j
           /\ \A i \in I : (\A j \in I : i <= j) => FirstOf(I) = i
           /\ I \subseteq DOMAIN file
<1> DEFINE I == RoutedPlaces(file, isMovie, title)
<1>1. DOMAIN file = 1..Len(file) /\ Len(file) \in Nat
  BY IdsHavePlaces
<1>2. I \subseteq Nat \ {0} /\ I \subseteq DOMAIN file
      /\ \A n \in DOMAIN file : IsRouted(file[n], isMovie, title) <=> n \in I
  BY <1>1 DEF RoutedPlaces
<1> HIDE DEF I
<1> QED BY <1>2, FirstIsLeast DEF I

LEMMA ItPlaysThere ==
    ASSUME NEW file, IsRegistry(file), NEW isMovie, NEW title \in DOMAIN SetForProfile, NEW n,
           PlaysFrom(file, n, isMovie, title)
    PROVE  PlayerOf(file, isMovie, title) = BindingFor(file[n], title)
<1> DEFINE I == RoutedPlaces(file, isMovie, title)
<1>1. /\ \A j \in DOMAIN file : IsRouted(file[j], isMovie, title) <=> j \in I
      /\ I \subseteq DOMAIN file
      /\ \A i \in I : (\A j \in I : i <= j) => FirstOf(I) = i
  BY RoutesHavePlaces
<1>2. DOMAIN file = 1..Len(file) /\ Len(file) \in Nat /\ n \in DOMAIN file /\ n # 0
  BY IdsHavePlaces DEF PlaysFrom
<1>3. RouteOf(file, isMovie, title) =
        IF FirstOf(I) # 0 THEN FirstOf(I) ELSE FirstOf(PlacesOf(file, SetForProfile[title]))
  BY DEF RouteOf
<1> HIDE DEF I
<1>4. RouteOf(file, isMovie, title) = n
  <2>1. CASE IsRouted(file[n], isMovie, title)
    <3>1. \A j \in DOMAIN file : j < n => j \notin I
      BY <1>1, <1>2, <2>1 DEF PlaysFrom
    <3>2. \A j \in I : n <= j
      BY <1>1, <1>2, <3>1
    <3>3. FirstOf(I) = n
      BY <1>1, <1>2, <2>1, <3>2
    <3> QED BY <1>2, <1>3, <3>3
  <2>2. CASE ~IsRouted(file[n], isMovie, title)
    <3>1. I = {} /\ file[n].id = SetForProfile[title]
      BY <1>1, <1>2, <2>2 DEF PlaysFrom
    <3>2. FirstOf(PlacesOf(file, SetForProfile[title])) = n
      BY <1>2, <3>1, IdsHavePlaces
    <3>3. FirstOf(I) = 0
      BY <3>1 DEF FirstOf
    <3> QED BY <1>3, <3>2, <3>3
  <2> QED BY <2>1, <2>2
<1> QED BY <1>2, <1>4 DEF PlayerOf, PlaysFrom

LEMMA ItPlaysSomewhere ==
    ASSUME NEW file, IsRegistry(file), NEW isMovie, NEW title \in DOMAIN SetForProfile,
           HasData(PlayerOf(file, isMovie, title))
    PROVE  \E n \in DOMAIN file : PlaysFrom(file, n, isMovie, title)
<1> DEFINE I == RoutedPlaces(file, isMovie, title)
           n == RouteOf(file, isMovie, title)
<1>1. n # 0 /\ file[n].enabled
  <2>1. ~HasData([user |-> Nobody, cap |-> Nobody])
    BY DEF HasData
  <2> QED BY <2>1 DEF PlayerOf
<1>2. /\ \A j \in DOMAIN file : IsRouted(file[j], isMovie, title) <=> j \in I
      /\ I # {} => FirstOf(I) \in I /\ \A j \in I : FirstOf(I) <= j
      /\ I = {} <=> FirstOf(I) = 0
      /\ I \subseteq DOMAIN file
  BY RoutesHavePlaces
<1>3. CASE I # {}
  <2>1. n = FirstOf(I)
    BY <1>2, <1>3 DEF RouteOf
  <2>2. n \in I /\ n \in DOMAIN file /\ \A j \in I : n <= j
    BY <1>2, <1>3, <2>1
  <2>3. DOMAIN file = 1..Len(file) /\ Len(file) \in Nat
    BY IdsHavePlaces
  <2> HIDE DEF n, I
  <2>4. \A j \in DOMAIN file : j < n => j \notin I
    BY <2>2, <2>3
  <2> QED BY <1>1, <1>2, <2>2, <2>4 DEF PlaysFrom
<1>4. CASE I = {}
  <2>1. n = FirstOf(PlacesOf(file, SetForProfile[title]))
    BY <1>2, <1>4 DEF RouteOf
  <2>2. n \in DOMAIN file /\ file[n].id = SetForProfile[title]
    BY <1>1, <2>1, IdsHavePlaces
  <2> HIDE DEF n, I
  <2> QED BY <1>1, <1>2, <1>4, <2>2 DEF PlaysFrom
<1> QED BY <1>3, <1>4

\* The k-th of the bindings is the one a profile plays by: its own, or the first.
PlaysBy(list, k, title) ==
    /\ k \in DOMAIN list
    /\ \/ list[k].user = title /\ \A j \in DOMAIN list : j < k => list[j].user # title
       \/ k = 1 /\ \A j \in DOMAIN list : list[j].user # title

LEMMA BindingsAreFound ==
    ASSUME NEW set, IsSet(set), NEW title
    PROVE  /\ \A k : PlaysBy(Bindings(set), k, title) => BindingFor(set, title) = Bindings(set)[k]
           /\ \E k \in DOMAIN Bindings(set) : PlaysBy(Bindings(set), k, title)
<1> DEFINE list == Bindings(set)
           I == {k \in 1..Len(list) : list[k].user = title}
<1>1. DOMAIN list = 1..Len(list) /\ 1 \in DOMAIN list /\ Len(list) \in Nat
  BY BindingsBind
<1>2. BindingFor(set, title) = list[IF FirstOf(I) = 0 THEN 1 ELSE FirstOf(I)]
  BY DEF BindingFor, SelectInSeq, FirstOf
<1> HIDE DEF list
<1>3. I \subseteq Nat \ {0} /\ I \subseteq DOMAIN list /\ \A k \in DOMAIN list : k \in I <=> list[k].user = title
  BY <1>1
<1> HIDE DEF I
<1>4. /\ I = {} <=> FirstOf(I) = 0
      /\ I # {} => FirstOf(I) \in I /\ \A j \in I : FirstOf(I) <= j
      /\ \A i \in I : (\A j \in I : i <= j) => FirstOf(I) = i
  BY <1>3, FirstIsLeast
<1>5. ASSUME NEW k, PlaysBy(list, k, title) PROVE BindingFor(set, title) = list[k]
  <2>1. CASE list[k].user = title
    <3>1. k \in I /\ \A j \in I : k <= j
      BY <1>1, <1>3, <1>5, <2>1 DEF PlaysBy
    <3>2. FirstOf(I) = k /\ k # 0
      BY <1>3, <1>4, <3>1
    <3> QED BY <1>2, <3>2
  <2>2. CASE list[k].user # title
    <3>1. k = 1 /\ I = {}
      BY <1>3, <1>5, <2>2 DEF PlaysBy
    <3> QED BY <1>2, <1>4, <3>1
  <2> QED BY <2>1, <2>2
<1>6. \E k \in DOMAIN list : PlaysBy(list, k, title)
  <2>1. CASE I = {}
    BY <1>1, <1>3, <2>1 DEF PlaysBy
  <2>2. CASE I # {}
    <3>1. FirstOf(I) \in DOMAIN list /\ list[FirstOf(I)].user = title
      BY <1>3, <1>4, <2>2
    <3>2. \A j \in DOMAIN list : j < FirstOf(I) => j \notin I
      BY <1>1, <1>4, <2>2, <3>1
    <3> QED BY <1>3, <3>1, <3>2 DEF PlaysBy
  <2> QED BY <2>1, <2>2
<1> QED BY <1>5, <1>6 DEF list

\* Writing the bindings that say anything leaves who plays by them.
LEMMA TellingKeepsThePlayer ==
    ASSUME NEW old, NEW new, IsSet(old), IsSet(new), new.profiles = Telling(Bindings(old)),
           new.profiles # << >>, NEW title, title # Nobody, HasData(BindingFor(old, title))
    PROVE  BindingFor(new, title) = BindingFor(old, title)
<1> DEFINE list == Bindings(old)
           A == {b \in Range(list) : HasData(b)}
           t == Only(list, A)
<1>1. PICK k \in DOMAIN list : PlaysBy(list, k, title)
  BY BindingsAreFound
<1>2. BindingFor(old, title) = list[k]
  BY <1>1, BindingsAreFound
<1>3. Bindings(new) = t
  BY BindingsBind DEF Telling
<1>4. list \in Seq(Range(list)) /\ DOMAIN list = 1..Len(list) /\ Len(list) \in Nat
  BY BindingsBind
<1>5. DOMAIN t = 1..Len(t) /\ Len(t) \in Nat /\ 1 \in DOMAIN t
  BY <1>3, BindingsBind
<1>6. list[k] \in A
  BY <1>2 DEF Range
<1>7. \A j \in DOMAIN t : \E i \in DOMAIN list : t[j] = list[i]
  BY <1>4, TellingBindings DEF Telling
<1> HIDE DEF list, A, t
<1>8. CASE list[k].user = title
  <2> DEFINE T == {b \in Range(list) : b.user = title}
  <2>1. list[k] \in T
    BY <1>8 DEF Range
  <2>2. \A j \in DOMAIN list : j < k => list[j] \notin T
    BY <1>1, <1>8 DEF PlaysBy
  <2>3. \A b \in Range(list) : b.user = title => b \in T
    OBVIOUS
  <2> HIDE DEF T
  <2>4. PICK i \in DOMAIN t : t[i] = list[k] /\ \A j \in DOMAIN t : j < i => t[j] \notin T
    BY <1>4, <1>6, <2>1, <2>2, FirstOfTheFiltered DEF t
  <2>5. \A j \in DOMAIN t : j < i => t[j].user # title
    BY <1>7, <2>3, <2>4 DEF Range
  <2>6. PlaysBy(t, i, title)
    BY <1>8, <2>4, <2>5 DEF PlaysBy
  <2> QED BY <1>2, <1>3, <2>4, <2>6, BindingsAreFound
<1>9. CASE list[k].user # title
  <2>1. k = 1 /\ \A j \in DOMAIN list : list[j].user # title
    BY <1>1, <1>9 DEF PlaysBy
  <2> DEFINE T == Range(list)
  <2>2. list[k] \in T /\ \A j \in DOMAIN list : ~(j < k)
    BY <1>4, <2>1 DEF Range
  <2>3. \A j \in DOMAIN t : t[j] \in T
    BY <1>7 DEF Range
  <2> HIDE DEF T
  <2>4. PICK i \in DOMAIN t : t[i] = list[k] /\ \A j \in DOMAIN t : j < i => t[j] \notin T
    BY <1>4, <1>6, <2>2, FirstOfTheFiltered DEF t
  <2>5. i = 1
    BY <1>5, <2>3, <2>4
  <2>6. \A j \in DOMAIN t : t[j].user # title
    BY <1>7, <2>1
  <2>7. PlaysBy(t, 1, title)
    BY <1>5, <2>6 DEF PlaysBy
  <2> QED BY <1>2, <1>3, <2>4, <2>5, <2>7, BindingsAreFound
<1> QED BY <1>8, <1>9

-----------------------------------------------------------------------------
(* Neither the migration nor a save that is not about it reroutes.         *)

LEMMA MigrationKeepsTheRoute ==
    ASSUME FileInv, FileInv', MigrateLegacyTiers, NEW isMovie \in BOOLEAN,
           NEW title \in DOMAIN SetForProfile, NEW n, PlaysFrom(sets, n, isMovie, title)
    PROVE  PlayerOf(sets', isMovie, title) = BindingFor(sets[n], title)
<1> DEFINE L == Len(sets)
           c == Channel(ShowsShorts, "progress", Tiers)
           d == Channel(Movies, "rewatch", Tiers)
           p == IF isMovie THEN L + 2 ELSE L + 1
<1>1. DOMAIN sets = 1..L /\ L \in Nat /\ n \in DOMAIN sets
  BY SetsHavePlaces DEF FileInv, PlaysFrom
<1>2. /\ DOMAIN sets' = 1..L + 2
      /\ \A j \in DOMAIN sets : sets'[j] = Retired(sets[j])
      /\ sets'[L + 1] = c /\ sets'[L + 2] = d
  BY MigratedFile
<1>3. Tiers # << >> /\ ShowsShorts # NewSet /\ Movies # NewSet
  BY DEF MigrateLegacyTiers, ShowsShorts, Movies, NewSet
<1>4. \A new \in {c, d} :
        /\ IsSet(new) /\ new.source = "rotation" /\ new.enabled /\ ~new.superseded
        /\ new.profiles # << >> /\ DOMAIN new.profiles = DOMAIN Tiers
        /\ \A k \in DOMAIN Tiers : new.profiles[k] = Tiers[k].top
  BY <1>3, ChannelsOfTheMigration
<1>5. IsRewatch(c) = FALSE /\ IsRewatch(d) = TRUE
  BY <1>3, ChannelsOfTheMigration
<1> HIDE DEF c, d
<1>6. \A set \in Range(Tiers) : set.profiles = << >>
  BY TiersAreSets DEF Range
<1>7. \A j \in DOMAIN sets : IsSet(sets[j])
  BY DEF FileInv, IsRegistry
<1>8. ASSUME NEW j \in DOMAIN sets
      PROVE  /\ IsRouted(sets'[j], isMovie, title) <=> IsRouted(sets[j], isMovie, title)
             /\ sets'[j].id = sets[j].id /\ sets'[j].enabled = sets[j].enabled
             /\ Bindings(sets'[j]) = Bindings(sets[j])
  <2>1. CASE sets[j] \in Range(Tiers)
    <3>1. sets'[j].profiles = << >> /\ sets[j].profiles = << >>
      BY <1>2, <1>6, <1>7, <2>1, RetiredSets DEF Stems
    <3>2. sets'[j].top = sets[j].top /\ sets'[j].id = sets[j].id /\ sets'[j].enabled = sets[j].enabled
      BY <1>2, <1>7, RetiredSets DEF Stems
    <3> QED BY <3>1, <3>2 DEF IsRouted, Bindings
  <2>2. CASE sets[j] \notin Range(Tiers)
    BY <1>2, <2>2 DEF Retired
  <2> QED BY <2>1, <2>2
<1>9. \A j \in DOMAIN sets : BindingFor(sets'[j], title) = BindingFor(sets[j], title)
  BY <1>8 DEF BindingFor
<1>10. p \in DOMAIN sets' /\ p \notin DOMAIN sets /\ n < p
  BY <1>1, <1>2
<1>11. \A j \in DOMAIN sets' : j < p => j \in DOMAIN sets \/ (isMovie = TRUE /\ sets'[j] = c)
  BY <1>1, <1>2
<1>12. \A j \in DOMAIN sets' : j \in DOMAIN sets \/ sets'[j] = c \/ sets'[j] = d
  <2>1. \A j \in 1..L + 2 : j \in 1..L \/ j = L + 1 \/ j = L + 2
    BY <1>1
  <2> QED BY <1>1, <1>2, <2>1
<1>13. sets'[p] \in {c, d} /\ IsRewatch(sets'[p]) = isMovie
  BY <1>2, <1>5
<1> HIDE DEF p
<1>14. CASE IsRouted(sets[n], isMovie, title)
  <2>1. \A j \in DOMAIN sets' : j < n => ~IsRouted(sets'[j], isMovie, title)
    <3>1. \A j \in DOMAIN sets' : j < n => j \in DOMAIN sets
      BY <1>1, <1>2
    <3> QED BY <1>8, <1>14, <3>1 DEF PlaysFrom
  <2>2. PlaysFrom(sets', n, isMovie, title)
    BY <1>1, <1>2, <1>8, <1>14, <2>1 DEF PlaysFrom
  <2> QED BY <1>1, <1>9, <2>2, ItPlaysThere DEF FileInv
<1>15. CASE ~IsRouted(sets[n], isMovie, title)
  <2>1. (\A j \in DOMAIN sets : ~IsRouted(sets[j], isMovie, title)) /\ sets[n].id = SetForProfile[title]
    BY <1>15 DEF PlaysFrom
  <2>2. CASE \A k \in DOMAIN Tiers : Tiers[k].top.user # title
    <3>1. ~Binds(c, title) /\ ~Binds(d, title)
      BY <1>4, <2>2 DEF Binds
    <3>2. \A j \in DOMAIN sets' : ~IsRouted(sets'[j], isMovie, title)
      BY <1>8, <1>12, <2>1, <3>1 DEF IsRouted
    <3>3. PlaysFrom(sets', n, isMovie, title)
      BY <1>1, <1>2, <1>8, <2>1, <3>2 DEF PlaysFrom
    <3> QED BY <1>1, <1>9, <3>3, ItPlaysThere DEF FileInv
  <2>3. CASE \E k \in DOMAIN Tiers : Tiers[k].top.user = title
    <3>1. DOMAIN Tiers = 1..Len(Tiers) /\ Len(Tiers) \in Nat
      BY TiersAreSets
    <3> DEFINE K == {k \in DOMAIN Tiers : Tiers[k].top.user = title}
    <3>2. PICK k \in K : \A j \in K : ~(j < k)
      <4>1. K # {} /\ K \subseteq Nat
        BY <2>3, <3>1
      <4> HIDE DEF K
      <4> QED BY <4>1, LeastNumber
    <3>3. k \in DOMAIN Tiers /\ Tiers[k].top.user = title
          /\ \A j \in DOMAIN Tiers : j < k => Tiers[j].top.user # title
      BY <3>2
    <3> HIDE DEF K
    <3>4. Tiers[k] = sets[n]
      BY <1>1, <2>1, <3>3, TiersOfProfiles
    <3> DEFINE new == sets'[p]
    <3>5. /\ IsSet(new) /\ new.source = "rotation" /\ new.enabled /\ ~new.superseded
          /\ new.profiles # << >> /\ DOMAIN new.profiles = DOMAIN Tiers
          /\ \A j \in DOMAIN Tiers : new.profiles[j] = Tiers[j].top
      BY <1>4, <1>13
    <3>6. Binds(new, title)
      BY <3>3, <3>5 DEF Binds
    <3>7. IsRouted(new, isMovie, title)
      BY <1>13, <3>5, <3>6 DEF IsRouted
    <3>8. \A j \in DOMAIN sets' : j < p => ~IsRouted(sets'[j], isMovie, title)
      BY <1>5, <1>8, <1>11, <2>1 DEF IsRouted
    <3>9. PlaysFrom(sets', p, isMovie, title)
      BY <1>10, <3>5, <3>7, <3>8 DEF PlaysFrom
    <3>10. Bindings(new) = new.profiles
      BY <3>5, BindingsBind
    <3>11. PlaysBy(Bindings(new), k, title)
      BY <3>3, <3>5, <3>10 DEF PlaysBy
    <3>12. BindingFor(new, title) = sets[n].top
      BY <3>3, <3>4, <3>5, <3>10, <3>11, BindingsAreFound
    <3>13. BindingFor(sets[n], title) = sets[n].top
      <4>1. sets[n].profiles = << >>
        BY <3>3, <3>4, TiersAreSets
      <4>2. PICK i \in DOMAIN Bindings(sets[n]) : PlaysBy(Bindings(sets[n]), i, title)
        BY <1>1, <1>7, BindingsAreFound
      <4>3. Bindings(sets[n])[i] = sets[n].top
        BY <1>1, <1>7, <4>1, BindingsBind
      <4> QED BY <1>1, <1>7, <4>2, <4>3, BindingsAreFound
    <3> HIDE DEF new
    <3>14. PlayerOf(sets', isMovie, title) = BindingFor(new, title)
      BY <3>9, ItPlaysThere DEF FileInv, new
    <3> QED BY <3>12, <3>13, <3>14
  <2> QED BY <2>2, <2>3
<1> QED BY <1>14, <1>15

LEMMA SaveKeepsTheRoute ==
    ASSUME FileInv, FileInv', SavesOld,
           form.source = "rotation", (form.behavior = "rewatch") = IsRewatch(Get(form.id)),
           form.bindings = Bindings(Get(form.id)),
           NEW isMovie \in BOOLEAN, NEW title \in DOMAIN SetForProfile,
           NEW n, PlaysFrom(sets, n, isMovie, title), HasData(BindingFor(sets[n], title))
    PROVE  PlayerOf(sets', isMovie, title) = BindingFor(sets[n], title)
<1> DEFINE p == At(form.id)
           old == sets[p]
           new == sets'[p]
<1>1. /\ p \in DOMAIN sets /\ Get(form.id) = old
      /\ DOMAIN sets' = DOMAIN sets /\ SavedFrom(new, old)
      /\ \A j \in DOMAIN sets : j # p => sets'[j] = sets[j]
  BY SaveIsOfOne
<1>2. IsSet(old) /\ IsSet(new) /\ n \in DOMAIN sets
  BY <1>1 DEF FileInv, IsRegistry, SavedFrom, PlaysFrom
<1>3. form.bindings = Bindings(old)
  BY <1>1
<1>4. /\ new.id = old.id /\ new.source = old.source /\ new.superseded = old.superseded
      /\ new.enabled = old.enabled /\ IsRewatch(new) = IsRewatch(old)
      /\ KeepsBindings(new, old) \/ TakesBindings(new, old)
  BY <1>1 DEF SavedFrom
<1>5. title # Nobody
  BY RegistryAssumption
<1> DEFINE Same == (IsRouted(new, isMovie, title) <=> IsRouted(old, isMovie, title))
<1>6. HasData(BindingFor(old, title)) => BindingFor(new, title) = BindingFor(old, title)
  <2>1. CASE KeepsBindings(new, old)
    BY <2>1 DEF KeepsBindings, BindingFor, Bindings
  <2>2. CASE TakesBindings(new, old)
    BY <1>2, <1>3, <1>5, <2>2, TellingKeepsThePlayer DEF TakesBindings
  <2> QED BY <1>4, <2>1, <2>2
<1>7. CASE Same
  <2>1. \A j \in DOMAIN sets :
          /\ IsRouted(sets'[j], isMovie, title) <=> IsRouted(sets[j], isMovie, title)
          /\ sets'[j].id = sets[j].id /\ sets'[j].enabled = sets[j].enabled
    <3> TAKE j \in DOMAIN sets
    <3>1. CASE j = p
      BY <1>4, <1>7, <3>1
    <3>2. CASE j # p
      BY <1>1, <3>2
    <3> QED BY <3>1, <3>2
  <2>2. PlaysFrom(sets', n, isMovie, title)
    BY <1>1, <1>2, <2>1 DEF PlaysFrom
  <2>3. PlayerOf(sets', isMovie, title) = BindingFor(sets'[n], title)
    BY <2>2, ItPlaysThere DEF FileInv
  <2> QED BY <1>1, <1>2, <1>6, <2>3
<1>8. CASE ~Same
  <2>1. TakesBindings(new, old)
    BY <1>4, <1>8 DEF KeepsBindings, IsRouted, Binds
  <2>2. /\ new.profiles = Telling(Bindings(old)) /\ new.profiles # << >> /\ old.source = "rotation"
        /\ Bindings(old) \in Seq(Range(Bindings(old)))
    BY <1>2, <1>3, <2>1, BindingsBind DEF TakesBindings
  <2>3. Binds(new, title) <=> \E k \in DOMAIN Bindings(old) : Bindings(old)[k].user = title
    <3>1. \A b : b.user = title => HasData(b)
      BY <1>5 DEF HasData
    <3> QED BY <2>2, <3>1, TellingBindings DEF Binds
  <2>4. old.profiles = << >>
    <3> SUFFICES ASSUME old.profiles # << >> PROVE FALSE
      OBVIOUS
    <3>1. Bindings(old) = old.profiles
      BY DEF Bindings
    <3>2. Binds(new, title) <=> Binds(old, title)
      BY <2>3, <3>1 DEF Binds
    <3> QED BY <1>4, <1>8, <2>2, <3>2 DEF IsRouted
  <2>5. ~IsRouted(old, isMovie, title) /\ IsRouted(new, isMovie, title)
    BY <1>8, <2>4 DEF IsRouted
  <2>6. old.top.user = title
    <3>1. PICK k \in DOMAIN Bindings(old) : Bindings(old)[k].user = title
      BY <2>3, <2>5 DEF IsRouted
    <3>2. Bindings(old)[k] = old.top
      BY <1>2, <2>4, BindingsBind
    <3> QED BY <3>1, <3>2
  <2>7. AwaitsMigration(old, title)
    BY <1>4, <2>2, <2>4, <2>5, <2>6 DEF AwaitsMigration, IsRouted
  <2>8. \A j \in DOMAIN sets : ~Binds(sets[j], title)
    BY <1>1, <2>7 DEF FileInv, IsRegistry
  <2>9. \A j \in DOMAIN sets : ~IsRouted(sets[j], isMovie, title)
    BY <2>8 DEF IsRouted
  <2>10. sets[n].id = SetForProfile[title]
    BY <1>2, <2>9 DEF PlaysFrom
  <2>11. n = p
    BY <1>1, <1>2, <2>6, <2>10 DEF FileInv, IsRegistry, OfItsProfile
  <2>12. \A j \in DOMAIN sets' : j < p => ~IsRouted(sets'[j], isMovie, title)
    <3>1. \A j \in DOMAIN sets : j < p => j # p
      BY <1>1, SetsHavePlaces DEF FileInv
    <3> QED BY <1>1, <2>9, <3>1
  <2>13. PlaysFrom(sets', p, isMovie, title)
    BY <1>1, <2>5, <2>12 DEF PlaysFrom, IsRouted
  <2>14. PlayerOf(sets', isMovie, title) = BindingFor(new, title)
    BY <2>13, ItPlaysThere DEF FileInv
  <2> QED BY <1>6, <2>11, <2>14
<1> QED BY <1>7, <1>8

\* What a step keeps of who plays.
KeepsTheRoutes ==
    LET keeps == /\ last' = "saved" /\ form.id # NewSet /\ form.source = "rotation"
                 /\ (form.behavior = "rewatch") = IsRewatch(Get(form.id))
                 /\ form.bindings = Bindings(Get(form.id))
    IN  last' = "migrated" \/ keeps =>
         \A isMovie \in BOOLEAN, title \in DOMAIN SetForProfile :
             HasData(WhoPlays(isMovie, title)) =>
                 WhoPlays(isMovie, title)' = WhoPlays(isMovie, title)

LEMMA StepsKeepTheRoutes ==
    ASSUME FileInv, RegistryNext
    PROVE  KeepsTheRoutes
<1>1. FileInv'
  BY RegistryHolds
<1>2. last' = "migrated" => MigrateLegacyTiers
  BY DEF RegistryNext, OpensOld, OpensNew, PicksControl, Dismisses, SavesOld, SavesNew, SaveRefused,
         DeleteSet, ReorderSets, HandEdits, Changes
<1>3. last' = "saved" /\ form.id # NewSet => SavesOld
  BY OnlySavesAreSaved DEF SavesNew
<1> DEFINE keeps == /\ last' = "saved" /\ form.id # NewSet /\ form.source = "rotation"
                    /\ (form.behavior = "rewatch") = IsRewatch(Get(form.id))
                    /\ form.bindings = Bindings(Get(form.id))
<1>4. ASSUME last' = "migrated" \/ keeps, NEW isMovie \in BOOLEAN, NEW title \in DOMAIN SetForProfile,
             HasData(WhoPlays(isMovie, title))
      PROVE  WhoPlays(isMovie, title)' = WhoPlays(isMovie, title)
  <2>1. /\ WhoPlays(isMovie, title) = PlayerOf(sets, isMovie, title)
        /\ WhoPlays(isMovie, title)' = PlayerOf(sets', isMovie, title)
    BY ThePlayerOfTheFile
  <2>2. PICK n \in DOMAIN sets : PlaysFrom(sets, n, isMovie, title)
    BY <1>4, <2>1, ItPlaysSomewhere DEF FileInv
  <2>3. PlayerOf(sets, isMovie, title) = BindingFor(sets[n], title)
    BY <2>2, ItPlaysThere DEF FileInv
  <2>4. CASE last' = "migrated"
    BY <1>1, <1>2, <2>1, <2>2, <2>3, <2>4, MigrationKeepsTheRoute
  <2>5. CASE keeps
    <3>1. SavesOld /\ HasData(BindingFor(sets[n], title))
      BY <1>3, <1>4, <2>1, <2>3, <2>5
    <3>2. PlayerOf(sets', isMovie, title) = BindingFor(sets[n], title)
      BY <1>1, <2>2, <2>5, <3>1, SaveKeepsTheRoute
    <3> QED BY <2>1, <2>3, <3>2
  <2> QED BY <1>4, <2>4, <2>5
<1> QED BY <1>4 DEF KeepsTheRoutes

\* sets.ts, DynModal.tsx, routing.ts: whatever the file holds at first, an editor opens on the
\* length its set plays, a save makes the set play what the editor shows, and neither such a
\* save nor the migration of the tiers changes who plays when a profile taps a card.
THEOREM RegistryStaysTrue == RegistrySpec => RegistryKeepsItsWord
<1>1. RegistryInit => FileInv
  BY RegistryStarts
<1>2. FileInv /\ [RegistryNext]_registryVars => FileInv'
  BY RegistryHolds
<1> DEFINE Told == /\ last' = "opened" /\ form'.id # NewSet =>
                       Shown(form'.shown) = Length(AsPlayed(Get(form'.id)))
                   /\ last' = "saved" /\ (form.id # NewSet => ~Get(form.id).refill) => PlaysAsShown
<1>3. FileInv /\ [RegistryNext]_registryVars => [Told]_registryVars
  BY OnlyOpeningsAreOpened, OnlySavesAreSaved, OpensAsItPlays, SavedSetPlaysAsShown
<1>4. FileInv /\ [RegistryNext]_registryVars => [KeepsTheRoutes]_registryVars
  BY StepsKeepTheRoutes
<1>5. RegistrySpec => [][Told]_registryVars
  BY <1>1, <1>2, <1>3, PTL DEF RegistrySpec
<1>6. RegistrySpec => [][KeepsTheRoutes]_registryVars
  BY <1>1, <1>2, <1>4, PTL DEF RegistrySpec
<1> QED BY <1>5, <1>6 DEF RegistryKeepsItsWord, EditorTellsTheTruth, RoutingIsKept, KeepsTheRoutes
=============================================================================
