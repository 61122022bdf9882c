---------------------------- MODULE SublistProofs ----------------------------
(***************************************************************************)
(* What the places of a list pick from it, in any list, and what is left   *)
(* of one that is filtered by its entries.                                 *)
(*                                                                         *)
(* Recursive functions are reasoned about by descent: of the numbers a     *)
(* claim fails for there would be a least one, and the claim holds for the *)
(* number before it.                                                       *)
(***************************************************************************)
EXTENDS Sublist, SequencesExt, TLAPS, SequenceTheorems, FiniteSetTheorems, WellFoundedInduction

(* A set of naturals that has a number has a least one.                    *)
LEMMA LeastNumber ==
    ASSUME NEW T, T \subseteq Nat, T # {}
    PROVE  \E x \in T : \A y \in T : ~(y < x)
<1> DEFINE R == OpToRel(<, Nat)
<1>1. \E x \in T : \A y \in T : ~(<<y, x>> \in R)
  BY NatLessThanWellFounded, WFMin
<1>2. \A x, y \in Nat : y < x => <<y, x>> \in R
  BY DEF OpToRel
<1> QED BY <1>1, <1>2

(* A set of numbers up to N that has 0, and with a number the next, has    *)
(* them all.                                                               *)
LEMMA Climbing ==
    ASSUME NEW N \in Nat, NEW G, 0 \in G, \A n \in 1..N : n - 1 \in G => n \in G
    PROVE  \A n \in 0..N : n \in G
<1> DEFINE T == {n \in 0..N : n \notin G}
<1> SUFFICES ASSUME T # {} PROVE FALSE
  OBVIOUS
<1>1. PICK x \in T : \A y \in T : ~(y < x)
  <2>1. T \subseteq Nat
    OBVIOUS
  <2> HIDE DEF T
  <2> QED BY <2>1, LeastNumber
<1>2. x \in 0..N /\ x \notin G /\ x # 0
  BY <1>1
<1>3. x - 1 \in 0..N /\ x - 1 < x /\ x \in 1..N
  BY <1>2
<1>4. x - 1 \notin T
  BY <1>1, <1>3
<1> QED BY <1>2, <1>3, <1>4

-----------------------------------------------------------------------------
\* f is what comes of base in the first N steps.
LeadsOn(f, N, D, base, step) ==
    /\ f \in [0..N -> D] /\ f[0] = base
    /\ \A n \in 1..N : f[n] = step[n][f[n - 1]]

(* Whatever each step makes of what there is so far, there is a function of *)
(* what comes of it.                                                       *)
LEMMA StepByStep ==
    ASSUME NEW N \in Nat, NEW D, NEW base \in D, NEW step \in [1..N -> [D -> D]]
    PROVE  \E f : LeadsOn(f, N, D, base, step)
<1> DEFINE Leads(f, m) == LeadsOn(f, m, D, base, step)
           G == {m \in 0..N : \E f : Leads(f, m)}
<1>1. 0 \in G
  <2>1. Leads([n \in 0..0 |-> base], 0)
    BY DEF LeadsOn
  <2>2. 0 \in 0..N
    OBVIOUS
  <2> HIDE DEF Leads
  <2> QED BY <2>1, <2>2
<1>2. ASSUME NEW m \in 1..N, m - 1 \in G PROVE m \in G
  <2>1. PICK g : Leads(g, m - 1)
    BY <1>2
  <2> DEFINE f == [n \in 0..m |-> IF n = m THEN step[m][g[m - 1]] ELSE g[n]]
  <2>2. /\ \A n \in 0..m - 1 : n \in 0..m /\ n # m
        /\ \A n \in 0..m : n = m \/ n \in 0..m - 1
        /\ \A n \in 1..m : n \in 0..m /\ n - 1 \in 0..m - 1 /\ (n # m => n \in 1..m - 1)
        /\ 0 \in 0..m - 1 /\ m \in 0..m /\ m \in 0..N
    OBVIOUS
  <2>3. g[m - 1] \in D /\ step[m] \in [D -> D]
    BY <2>1, <2>2 DEF LeadsOn
  <2>4. f \in [0..m -> D]
    BY <2>1, <2>2, <2>3 DEF LeadsOn
  <2>5. f[m] = step[m][g[m - 1]] /\ \A n \in 0..m - 1 : f[n] = g[n]
    BY <2>2
  <2> HIDE DEF f
  <2>6. f[0] = base
    BY <2>1, <2>2, <2>5 DEF LeadsOn
  <2>7. \A n \in 1..m : f[n] = step[n][f[n - 1]]
    <3> SUFFICES ASSUME NEW n \in 1..m PROVE f[n] = step[n][f[n - 1]]
      OBVIOUS
    <3>1. f[n - 1] = g[n - 1]
      BY <2>2, <2>5
    <3>2. CASE n = m
      BY <2>5, <3>1, <3>2
    <3>3. CASE n # m
      BY <2>1, <2>2, <2>5, <3>1, <3>3 DEF LeadsOn
    <3> QED BY <3>2, <3>3
  <2>8. Leads(f, m)
    BY <2>4, <2>6, <2>7 DEF LeadsOn
  <2> QED BY <2>2, <2>8
<1>3. \A n \in 0..N : n \in G
  <2> HIDE DEF G, Leads
  <2> QED BY <1>1, <1>2, Climbing, Zenon
<1>4. N \in G
  BY <1>3
<1> QED BY <1>4

-----------------------------------------------------------------------------
(* The function behind Picked exists, so it is what its equations say.     *)
LEMMA PickedIsDefined ==
    ASSUME NEW S, NEW seq \in Seq(S), NEW places
    PROVE  \E f : f = [n \in 0..Len(seq) |->
                         IF n = 0 THEN << >>
                         ELSE IF n \in places THEN Append(f[n - 1], seq[n])
                         ELSE f[n - 1]]
<1> DEFINE step == [n \in 1..Len(seq) |->
                      [l \in Seq(S) |-> IF n \in places THEN Append(l, seq[n]) ELSE l]]
<1>1. Len(seq) \in Nat /\ << >> \in Seq(S)
  OBVIOUS
<1>2. step \in [1..Len(seq) -> [Seq(S) -> Seq(S)]]
  <2>1. \A n \in 1..Len(seq), l \in Seq(S) : Append(l, seq[n]) \in Seq(S)
    BY ElementOfSeq, AppendProperties
  <2> QED BY <2>1
<1>3. PICK f : LeadsOn(f, Len(seq), Seq(S), << >>, step)
  <2> HIDE DEF step
  <2> QED BY <1>1, <1>2, StepByStep
<1>4. ASSUME NEW n \in 1..Len(seq)
      PROVE  f[n] = IF n \in places THEN Append(f[n - 1], seq[n]) ELSE f[n - 1]
  <2>1. n - 1 \in 0..Len(seq)
    BY <1>1
  <2>2. f[n - 1] \in Seq(S)
    BY <1>3, <2>1 DEF LeadsOn
  <2> QED BY <1>3, <2>2 DEF LeadsOn
<1>5. \A n \in 0..Len(seq) : n = 0 \/ n \in 1..Len(seq)
  BY <1>1
<1>6. f = [n \in 0..Len(seq) |->
             IF n = 0 THEN << >>
             ELSE IF n \in places THEN Append(f[n - 1], seq[n])
             ELSE f[n - 1]]
  BY <1>3, <1>4, <1>5 DEF LeadsOn
<1> QED BY <1>6

\* What a list picked from the first n entries of another one owes to it: `from` says
\* which entry each one was.
PicksBy(picked, seq, places, n, from) ==
    /\ from \in [1..Len(picked) -> places \cap (1..n)]
    /\ \A i \in 1..Len(picked) : picked[i] = seq[from[i]]
    /\ \A i, j \in 1..Len(picked) : i < j => from[i] < from[j]
    /\ \A p \in places \cap (1..n) : \E i \in 1..Len(picked) : from[i] = p

(* What is picked is what was at the places, in its order, each once.      *)
LEMMA PickedPicks ==
    ASSUME NEW S, NEW seq \in Seq(S), NEW places
    PROVE  /\ Picked(seq, places) \in Seq(S)
           /\ \E from : PicksBy(Picked(seq, places), seq, places, Len(seq), from)
<1> DEFINE E(f) == [n \in 0..Len(seq) |->
                      IF n = 0 THEN << >>
                      ELSE IF n \in places THEN Append(f[n - 1], seq[n])
                      ELSE f[n - 1]]
           upTo == CHOOSE f : f = E(f)
           G == {n \in 0..Len(seq) : /\ upTo[n] \in Seq(S)
                                     /\ \E from : PicksBy(upTo[n], seq, places, n, from)}
<1>1. Len(seq) \in Nat
  OBVIOUS
<1>2. upTo = E(upTo)
  <2>1. \E f : f = E(f)
    BY PickedIsDefined
  <2> HIDE DEF E
  <2> QED BY <2>1
<1>3. Picked(seq, places) = upTo[Len(seq)]
  BY DEF Picked
<1> HIDE DEF upTo
<1>4. 0 \in G
  <2>1. upTo[0] = << >>
    BY <1>1, <1>2
  <2>2. PicksBy(<< >>, seq, places, 0, << >>)
    BY DEF PicksBy
  <2>3. << >> \in Seq(S) /\ 0 \in 0..Len(seq)
    BY <1>1
  <2> QED BY <2>1, <2>2, <2>3
<1>5. ASSUME NEW n \in 1..Len(seq), n - 1 \in G PROVE n \in G
  <2>1. n - 1 \in 0..Len(seq) /\ n \in 0..Len(seq) /\ n # 0
    BY <1>1
  <2>2. PICK from : PicksBy(upTo[n - 1], seq, places, n - 1, from)
    BY <1>5
  <2>3. upTo[n - 1] \in Seq(S) /\ Len(upTo[n - 1]) \in Nat
    BY <1>5
  <2>4. CASE n \notin places
    <3>1. upTo[n] = upTo[n - 1]
      BY <1>2, <2>1, <2>4
    <3>2. places \cap (1..n) = places \cap (1..n - 1)
      BY <2>4
    <3>3. PicksBy(upTo[n], seq, places, n, from)
      BY <2>2, <3>1, <3>2 DEF PicksBy
    <3> QED BY <2>1, <2>3, <3>1, <3>3
  <2>5. CASE n \in places
    <3> DEFINE l == upTo[n - 1]
               k == Len(l) + 1
               to == [i \in 1..k |-> IF i = k THEN n ELSE from[i]]
    <3>1. upTo[n] = Append(l, seq[n])
      BY <1>2, <2>1, <2>5
    <3>2. /\ upTo[n] \in Seq(S) /\ Len(upTo[n]) = k
          /\ \A i \in 1..Len(l) : upTo[n][i] = l[i]
          /\ upTo[n][k] = seq[n]
      <4>1. seq[n] \in S
        BY ElementOfSeq
      <4> QED BY <2>3, <3>1, <4>1, AppendProperties
    <3> HIDE DEF l
    <3>3. /\ \A i \in 1..k : i = k \/ (i \in 1..Len(l) /\ i # k)
          /\ \A i \in 1..Len(l) : i \in 1..k /\ i # k
          /\ k \in 1..k /\ k \in Nat
      BY <2>3 DEF l
    <3>4. PicksBy(upTo[n], seq, places, n, to)
      <4>1. to \in [1..k -> places \cap (1..n)]
        BY <2>1, <2>2, <2>5, <3>3 DEF PicksBy, l
      <4>2. \A i \in 1..k : upTo[n][i] = seq[to[i]]
        BY <2>2, <3>2, <3>3 DEF PicksBy, l
      <4>3. ASSUME NEW i \in 1..k, NEW j \in 1..k, i < j PROVE to[i] < to[j]
        <5>1. i \in 1..Len(l) /\ to[i] = from[i] /\ from[i] \in 1..n - 1
          <6>1. i # k
            BY <3>3, <4>3
          <6>2. i \in 1..Len(l) /\ to[i] = from[i]
            BY <3>3, <6>1
          <6> QED BY <2>2, <6>2 DEF PicksBy, l
        <5>2. CASE j = k
          BY <5>1, <5>2
        <5>3. CASE j # k
          BY <2>2, <3>3, <4>3, <5>1, <5>3 DEF PicksBy, l
        <5> QED BY <5>2, <5>3
      <4>4. \A p \in places \cap (1..n) : \E i \in 1..k : to[i] = p
        <5> SUFFICES ASSUME NEW p \in places \cap (1..n) PROVE \E i \in 1..k : to[i] = p
          OBVIOUS
        <5>1. CASE p = n
          BY <3>3, <5>1
        <5>2. CASE p # n
          <6>1. PICK i \in 1..Len(l) : from[i] = p
            BY <2>2, <5>2 DEF PicksBy, l
          <6> QED BY <3>3, <6>1
        <5> QED BY <5>1, <5>2
      <4> QED BY <3>2, <4>1, <4>2, <4>3, <4>4 DEF PicksBy
    <3> QED BY <2>1, <3>2, <3>4
  <2> QED BY <2>4, <2>5
<1>6. Len(seq) \in G
  <2> HIDE DEF G
  <2> QED BY <1>1, <1>4, <1>5, Climbing, SMTT(30)
<1> QED BY <1>3, <1>6

-----------------------------------------------------------------------------
(* A set of lists that has the empty one, and with a list every longer one *)
(* by an entry, has them all.                                              *)
LEMMA ListByList ==
    ASSUME NEW S, NEW G, << >> \in G,
           \A s \in Seq(S), x \in S : s \in G => Append(s, x) \in G
    PROVE  \A s \in Seq(S) : s \in G
<1> SUFFICES ASSUME NEW s \in Seq(S) PROVE s \in G
  OBVIOUS
<1> DEFINE T == {n \in 0..Len(s) : SubSeq(s, 1, n) \in G}
<1>1. Len(s) \in Nat
  OBVIOUS
<1>2. 0 \in T
  <2>1. SubSeq(s, 1, 0) = << >>
    <3>1. 1 \in Int /\ 0 \in Int /\ 0 < 1
      OBVIOUS
    <3> QED BY ONLY <3>1, SubSeqEmpty
  <2>2. SubSeq(s, 1, 0) \in G
    BY <2>1, Zenon
  <2>3. 0 \in 0..Len(s)
    BY <1>1
  <2> QED BY <2>2, <2>3, Zenon
<1>3. ASSUME NEW n \in 1..Len(s), n - 1 \in T PROVE n \in T
  <2>1. n - 1 \in Int /\ n \in 0..Len(s) /\ s[n] \in S
    BY <1>1, ElementOfSeq
  <2>2. SubSeq(s, 1, n - 1) \in Seq(S)
    <3>1. \A i \in 1..n - 1 : s[i] \in S
      BY <1>1, ElementOfSeq
    <3> QED BY <2>1, <3>1, SubSeqProperties
  <2>3. SubSeq(s, 1, n) = Append(SubSeq(s, 1, n - 1), s[n])
    <3>1. 1 \in 1..Len(s) /\ n \in 1..Len(s)
      BY <1>1
    <3>2. SubSeq(s, 1, n) = SubSeq(s, 1, n - 1) \o <<s[n]>>
      BY <3>1, SubSeqRecursiveSecond
    <3> QED BY <2>1, <2>2, <3>2, AppendIsConcat
  <2> QED BY <1>3, <2>1, <2>2, <2>3
<1>4. Len(s) \in T
  <2> HIDE DEF T
  <2> QED BY <1>1, <1>2, <1>3, Climbing, SMTT(30)
<1> QED BY <1>4, SubSeqFull

-----------------------------------------------------------------------------
(* What of a list is among some entries, entry by entry.                   *)
PickStep(f, seq, places) ==
    f = [n \in 0..Len(seq) |-> IF n = 0 THEN << >>
                               ELSE IF n \in places THEN Append(f[n - 1], seq[n])
                               ELSE f[n - 1]]

LEMMA PickedInSteps ==
    ASSUME NEW S, NEW seq \in Seq(S), NEW places
    PROVE  \E f : PickStep(f, seq, places) /\ Picked(seq, places) = f[Len(seq)]
<1> DEFINE upTo == CHOOSE f : PickStep(f, seq, places)
<1>1. PickStep(upTo, seq, places)
  <2>1. \E f : PickStep(f, seq, places)
    BY PickedIsDefined, Zenon DEF PickStep
  <2> HIDE DEF PickStep
  <2> QED BY <2>1
<1>2. Picked(seq, places) = upTo[Len(seq)]
  BY DEF Picked, PickStep
<1> HIDE DEF upTo
<1> QED BY <1>1, <1>2

LEMMA OnlyOfAppend ==
    ASSUME NEW S, NEW s \in Seq(S), NEW x \in S, NEW A
    PROVE  Only(Append(s, x), A) = IF x \in A THEN Append(Only(s, A), x) ELSE Only(s, A)
<1> DEFINE t == Append(s, x)
           P == {n \in DOMAIN s : s[n] \in A}
           Q == {n \in DOMAIN t : t[n] \in A}
<1>1. /\ t \in Seq(S) /\ Len(t) = Len(s) + 1 /\ Len(s) \in Nat
      /\ \A n \in 1..Len(s) : t[n] = s[n]
      /\ t[Len(s) + 1] = x /\ DOMAIN t = 1..Len(s) + 1 /\ DOMAIN s = 1..Len(s)
  BY AppendProperties, LenProperties
<1> HIDE DEF t
<1>2. PICK f : PickStep(f, s, P) /\ Picked(s, P) = f[Len(s)]
  <2> HIDE DEF P
  <2> QED BY PickedInSteps
<1>3. PICK g : PickStep(g, t, Q) /\ Picked(t, Q) = g[Len(t)]
  <2> HIDE DEF Q
  <2> QED BY <1>1, PickedInSteps
<1>4. /\ \A n \in 1..Len(s) : n \in P <=> n \in Q
      /\ Len(s) + 1 \in Q <=> x \in A
  BY <1>1
<1> HIDE DEF P, Q
<1> DEFINE G == {n \in 0..Len(s) : f[n] = g[n]}
<1>5. 0 \in G
  BY <1>1, <1>2, <1>3 DEF PickStep
<1>6. ASSUME NEW n \in 1..Len(s), n - 1 \in G PROVE n \in G
  <2>1. n \in 0..Len(s) /\ n \in 0..Len(t) /\ n # 0 /\ s[n] = t[n] /\ f[n - 1] = g[n - 1]
    BY <1>1, <1>6
  <2>2. f[n] = IF n \in P THEN Append(f[n - 1], s[n]) ELSE f[n - 1]
    BY <1>2, <2>1 DEF PickStep
  <2>3. g[n] = IF n \in Q THEN Append(g[n - 1], t[n]) ELSE g[n - 1]
    BY <1>3, <2>1 DEF PickStep
  <2> QED BY <1>4, <2>1, <2>2, <2>3
<1>7. f[Len(s)] = g[Len(s)]
  <2>1. Len(s) \in G
    <3> HIDE DEF G
    <3> QED BY <1>1, <1>5, <1>6, Climbing, SMTT(30)
  <2> QED BY <2>1
<1>8. g[Len(t)] = IF Len(t) \in Q THEN Append(g[Len(s)], t[Len(t)]) ELSE g[Len(s)]
  <2>1. Len(t) \in 0..Len(t) /\ Len(t) # 0 /\ Len(t) - 1 = Len(s)
    BY <1>1
  <2> QED BY <1>3, <2>1 DEF PickStep
<1>9. Only(t, A) = g[Len(t)] /\ Only(s, A) = f[Len(s)]
  BY <1>2, <1>3 DEF Only, P, Q
<1> QED BY <1>1, <1>4, <1>7, <1>8, <1>9 DEF t

LEMMA OnlyOfNone == \A A : Only(<< >>, A) = << >>
<1> SUFFICES ASSUME NEW A PROVE Only(<< >>, A) = << >>
  OBVIOUS
<1> DEFINE P == {n \in DOMAIN << >> : << >>[n] \in A}
<1>1. << >> \in Seq({}) /\ Len(<< >>) = 0
  OBVIOUS
<1>2. PICK f : PickStep(f, << >>, P) /\ Picked(<< >>, P) = f[Len(<< >>)]
  <2> HIDE DEF P
  <2> QED BY <1>1, PickedInSteps
<1>3. f[0] = << >>
  BY <1>1, <1>2 DEF PickStep
<1> QED BY <1>1, <1>2, <1>3 DEF Only

LEMMA OnlyIsAList ==
    ASSUME NEW S, NEW s \in Seq(S), NEW A
    PROVE  Only(s, A) \in Seq(S)
BY PickedPicks DEF Only

LEMMA RangeOfAppend ==
    ASSUME NEW S, NEW s \in Seq(S), NEW x \in S
    PROVE  Range(Append(s, x)) = Range(s) \cup {x}
<1>1. /\ DOMAIN Append(s, x) = 1..Len(s) + 1 /\ DOMAIN s = 1..Len(s) /\ Len(s) \in Nat
      /\ \A n \in 1..Len(s) : Append(s, x)[n] = s[n]
      /\ Append(s, x)[Len(s) + 1] = x
  BY AppendProperties, LenProperties
<1> DEFINE t == Append(s, x)
<1> HIDE DEF t
<1>2. \A n \in 1..Len(s) + 1 : n = Len(s) + 1 \/ n \in 1..Len(s)
  BY <1>1
<1>3. \A n \in 1..Len(s) : n \in 1..Len(s) + 1
  BY <1>1
<1>4. Len(s) + 1 \in 1..Len(s) + 1
  BY <1>1
<1> QED BY <1>1, <1>2, <1>3, <1>4, Zenon DEF Range, t

(* What is left of a list are its entries among these.                     *)
LEMMA OnlyRange ==
    ASSUME NEW S, NEW s \in Seq(S), NEW A
    PROVE  Range(Only(s, A)) = Range(s) \cap A
<1> DEFINE G == {l \in Seq(S) : Range(Only(l, A)) = Range(l) \cap A}
<1>1. << >> \in G
  <2>1. Range(<< >>) = {} /\ << >> \in Seq(S)
    BY DEF Range
  <2> QED BY <2>1, OnlyOfNone
<1>2. ASSUME NEW l \in Seq(S), NEW x \in S, l \in G PROVE Append(l, x) \in G
  <2>1. Append(l, x) \in Seq(S) /\ Range(Append(l, x)) = Range(l) \cup {x}
    BY RangeOfAppend, AppendProperties
  <2>2. Only(l, A) \in Seq(S)
    BY OnlyIsAList
  <2>3. Range(Only(Append(l, x), A)) = Range(Append(l, x)) \cap A
    <3>1. CASE x \in A
      <4>1. Only(Append(l, x), A) = Append(Only(l, A), x)
        BY <3>1, OnlyOfAppend
      <4>2. Range(Append(Only(l, A), x)) = Range(Only(l, A)) \cup {x}
        BY <2>2, RangeOfAppend
      <4> QED BY <1>2, <2>1, <3>1, <4>1, <4>2
    <3>2. CASE x \notin A
      <4>1. Only(Append(l, x), A) = Only(l, A)
        BY <3>2, OnlyOfAppend
      <4> QED BY <1>2, <2>1, <3>2, <4>1
    <3> QED BY <3>1, <3>2
  <2> QED BY <2>1, <2>3
<1>3. s \in G
  <2> HIDE DEF G
  <2> QED BY <1>1, <1>2, ListByList
<1> QED BY <1>3

(* Of what is left, what is left is what is among both.                    *)
LEMMA OnlyOfOnly ==
    ASSUME NEW S, NEW s \in Seq(S), NEW A, NEW B
    PROVE  Only(Only(s, A), B) = Only(s, A \cap B)
<1> DEFINE G == {l \in Seq(S) : Only(Only(l, A), B) = Only(l, A \cap B)}
<1>1. << >> \in G
  BY OnlyOfNone
<1>2. ASSUME NEW l \in Seq(S), NEW x \in S, l \in G PROVE Append(l, x) \in G
  <2>1. Append(l, x) \in Seq(S) /\ Only(l, A) \in Seq(S)
    BY OnlyIsAList, AppendProperties
  <2>2. Only(Append(l, x), A \cap B) = IF x \in A \cap B THEN Append(Only(l, A \cap B), x) ELSE Only(l, A \cap B)
    BY OnlyOfAppend
  <2>3. Only(Append(l, x), A) = IF x \in A THEN Append(Only(l, A), x) ELSE Only(l, A)
    BY OnlyOfAppend
  <2>4. Only(Append(Only(l, A), x), B) = IF x \in B THEN Append(Only(Only(l, A), B), x) ELSE Only(Only(l, A), B)
    BY <2>1, OnlyOfAppend
  <2>5. Only(Only(l, A), B) = Only(l, A \cap B)
    BY <1>2
  <2>6. Only(Only(Append(l, x), A), B) = Only(Append(l, x), A \cap B)
    <3>1. CASE x \in A
      <4>1. Only(Append(l, x), A) = Append(Only(l, A), x) /\ (x \in A \cap B <=> x \in B)
        BY <2>3, <3>1
      <4>2. CASE x \in B
        BY <2>2, <2>4, <2>5, <4>1, <4>2
      <4>3. CASE x \notin B
        BY <2>2, <2>4, <2>5, <4>1, <4>3
      <4> QED BY <4>2, <4>3
    <3>2. CASE x \notin A
      BY <2>2, <2>3, <2>5, <3>2
    <3> QED BY <3>1, <3>2
  <2> QED BY <2>1, <2>6
<1>3. s \in G
  <2> HIDE DEF G
  <2> QED BY <1>1, <1>2, ListByList
<1> QED BY <1>3

(* Sets that hold the same of a list's entries leave the same of it.       *)
LEMMA OnlySame ==
    ASSUME NEW S, NEW s \in Seq(S), NEW A, NEW B, A \cap Range(s) = B \cap Range(s)
    PROVE  Only(s, A) = Only(s, B)
<1> DEFINE G == {l \in Seq(S) : A \cap Range(l) = B \cap Range(l) => Only(l, A) = Only(l, B)}
<1>1. << >> \in G
  BY OnlyOfNone
<1>2. ASSUME NEW l \in Seq(S), NEW x \in S, l \in G PROVE Append(l, x) \in G
  <2>1. Append(l, x) \in Seq(S) /\ Range(Append(l, x)) = Range(l) \cup {x}
    BY RangeOfAppend, AppendProperties
  <2>2. /\ Only(Append(l, x), A) = IF x \in A THEN Append(Only(l, A), x) ELSE Only(l, A)
        /\ Only(Append(l, x), B) = IF x \in B THEN Append(Only(l, B), x) ELSE Only(l, B)
    BY OnlyOfAppend
  <2>3. ASSUME A \cap Range(Append(l, x)) = B \cap Range(Append(l, x))
        PROVE  Only(Append(l, x), A) = Only(Append(l, x), B)
    <3>1. A \cap Range(l) = B \cap Range(l) /\ (x \in A <=> x \in B)
      BY <2>1, <2>3
    <3>2. Only(l, A) = Only(l, B)
      BY <1>2, <3>1
    <3> QED BY <2>2, <3>1, <3>2
  <2> QED BY <2>1, <2>3
<1>3. s \in G
  <2> HIDE DEF G
  <2> QED BY <1>1, <1>2, ListByList
<1> QED BY <1>3

(* All of them leave all of it.                                            *)
LEMMA OnlyAll ==
    ASSUME NEW S, NEW s \in Seq(S), NEW A, Range(s) \subseteq A
    PROVE  Only(s, A) = s
<1> DEFINE G == {l \in Seq(S) : Range(l) \subseteq A => Only(l, A) = l}
<1>1. << >> \in G
  BY OnlyOfNone
<1>2. ASSUME NEW l \in Seq(S), NEW x \in S, l \in G PROVE Append(l, x) \in G
  <2>1. Append(l, x) \in Seq(S) /\ Range(Append(l, x)) = Range(l) \cup {x}
    BY RangeOfAppend, AppendProperties
  <2>2. Only(Append(l, x), A) = IF x \in A THEN Append(Only(l, A), x) ELSE Only(l, A)
    BY OnlyOfAppend
  <2>3. ASSUME Range(Append(l, x)) \subseteq A PROVE Only(Append(l, x), A) = Append(l, x)
    BY <1>2, <2>1, <2>2, <2>3
  <2> QED BY <2>1, <2>3
<1>3. s \in G
  <2> HIDE DEF G
  <2> QED BY <1>1, <1>2, ListByList
<1> QED BY <1>3

LEMMA OnlyNone ==
    ASSUME NEW S, NEW s \in Seq(S), NEW A, Range(s) \cap A = {}
    PROVE  Only(s, A) = << >>
<1>1. Only(s, A) = Only(s, {})
  BY OnlySame
<1>2. Only(s, A) \in Seq(S) /\ Range(Only(s, A)) = {}
  BY OnlyIsAList, OnlyRange
<1>3. Only(s, A) # << >> => 1 \in DOMAIN Only(s, A)
  BY <1>2, EmptySeq, LenProperties
<1>4. Only(s, A) # << >> => Only(s, A)[1] \in Range(Only(s, A))
  BY <1>3 DEF Range
<1> QED BY <1>2, <1>4

(* What is left of two lists in a row.                                     *)
LEMMA OnlyOfConcat ==
    ASSUME NEW S, NEW s \in Seq(S), NEW t \in Seq(S), NEW A
    PROVE  Only(s \o t, A) = Only(s, A) \o Only(t, A)
<1> DEFINE G == {l \in Seq(S) : Only(s \o l, A) = Only(s, A) \o Only(l, A)}
<1>0. Only(s, A) \in Seq(S)
  BY OnlyIsAList
<1>1. << >> \in G
  BY <1>0, OnlyOfNone, ConcatEmptySeq, EmptySeq
<1>2. ASSUME NEW l \in Seq(S), NEW x \in S, l \in G PROVE Append(l, x) \in G
  <2>1. Append(l, x) \in Seq(S) /\ s \o l \in Seq(S) /\ <<x>> \in Seq(S) /\ Only(l, A) \in Seq(S)
    BY AppendProperties, ConcatProperties, OnlyIsAList
  <2>2. s \o Append(l, x) = Append(s \o l, x)
    BY <2>1, AppendIsConcat, ConcatAssociative
  <2>3. Only(Append(s \o l, x), A) = IF x \in A THEN Append(Only(s \o l, A), x) ELSE Only(s \o l, A)
    BY <2>1, OnlyOfAppend
  <2>4. Only(Append(l, x), A) = IF x \in A THEN Append(Only(l, A), x) ELSE Only(l, A)
    BY OnlyOfAppend
  <2>5. Only(s, A) \o Append(Only(l, A), x) = Append(Only(s, A) \o Only(l, A), x)
    <3>1. Only(s, A) \o Only(l, A) \in Seq(S)
      BY <1>0, <2>1, ConcatProperties
    <3> QED BY <1>0, <2>1, <3>1, AppendIsConcat, ConcatAssociative
  <2>6. Only(s \o l, A) = Only(s, A) \o Only(l, A)
    BY <1>2
  <2>7. Only(s \o Append(l, x), A) = Only(s, A) \o Only(Append(l, x), A)
    BY <2>2, <2>3, <2>4, <2>5, <2>6
  <2> QED BY <2>1, <2>7
<1>3. t \in G
  <2> HIDE DEF G
  <2> QED BY <1>1, <1>2, ListByList
<1> QED BY <1>3

-----------------------------------------------------------------------------
\* How many of the first n entries are among these.
HowMany(s, A, n) == Cardinality({k \in 1..n : s[k] \in A})

LEMMA HowManyByOne ==
    ASSUME NEW s, NEW A, NEW n \in Nat
    PROVE  /\ HowMany(s, A, 0) = 0
           /\ HowMany(s, A, n) \in Nat
           /\ n # 0 => HowMany(s, A, n) = HowMany(s, A, n - 1) + IF s[n] \in A THEN 1 ELSE 0
<1> DEFINE C(m) == {k \in 1..m : s[k] \in A}
<1>1. \A m \in Nat : IsFiniteSet(C(m)) /\ Cardinality(C(m)) \in Nat
  <2> SUFFICES ASSUME NEW m \in Nat PROVE IsFiniteSet(C(m)) /\ Cardinality(C(m)) \in Nat
    OBVIOUS
  <2>1. IsFiniteSet(1..m)
    <3>1. m \in Int /\ 1 \in Int
      OBVIOUS
    <3> QED BY ONLY <3>1, FS_Interval
  <2>2. C(m) \in SUBSET (1..m)
    OBVIOUS
  <2> HIDE DEF C
  <2> QED BY <2>1, <2>2, FS_Subset, FS_CardinalityType
<1>2. HowMany(s, A, 0) = 0
  <2>1. C(0) = {}
    OBVIOUS
  <2> QED BY <2>1, FS_EmptySet DEF HowMany
<1>3. ASSUME n # 0
      PROVE  Cardinality(C(n)) = Cardinality(C(n - 1)) + IF s[n] \in A THEN 1 ELSE 0
  <2>1. n - 1 \in Nat /\ n \notin C(n - 1) /\ C(n) = IF s[n] \in A THEN C(n - 1) \cup {n} ELSE C(n - 1)
    BY <1>3
  <2> HIDE DEF C
  <2>2. IsFiniteSet(C(n - 1)) /\ Cardinality(C(n - 1)) \in Nat
    BY <2>1, <1>1
  <2>3. CASE s[n] \in A
    BY <2>1, <2>2, <2>3, FS_AddElement
  <2>4. CASE s[n] \notin A
    BY <2>1, <2>2, <2>4
  <2> QED BY <2>3, <2>4
<1>4. \A m \in Nat : HowMany(s, A, m) = Cardinality(C(m))
  BY DEF HowMany
<1> HIDE DEF C
<1> QED BY <1>1, <1>2, <1>3, <1>4

(* As many entries are left as there were among these.                     *)
LEMMA OnlyCounts ==
    ASSUME NEW S, NEW s \in Seq(S), NEW A
    PROVE  Len(Only(s, A)) = HowMany(s, A, Len(s))
<1> DEFINE G == {l \in Seq(S) : Len(Only(l, A)) = HowMany(l, A, Len(l))}
<1>1. << >> \in G
  BY OnlyOfNone, HowManyByOne, EmptySeq
<1>2. ASSUME NEW l \in Seq(S), NEW x \in S, l \in G PROVE Append(l, x) \in G
  <2> DEFINE t == Append(l, x)
  <2>1. /\ t \in Seq(S) /\ Len(t) = Len(l) + 1 /\ Len(l) \in Nat /\ Only(l, A) \in Seq(S)
        /\ t[Len(t)] = x /\ \A k \in 1..Len(l) : t[k] = l[k]
    BY AppendProperties, OnlyIsAList, LenProperties
  <2>2. Only(t, A) = IF x \in A THEN Append(Only(l, A), x) ELSE Only(l, A)
    BY OnlyOfAppend
  <2>3. Len(Only(t, A)) = IF x \in A THEN Len(Only(l, A)) + 1 ELSE Len(Only(l, A))
    <3>1. Only(l, A) \in Seq(S \cup {x}) /\ x \in S \cup {x}
      BY <2>1
    <3> QED BY <2>2, <3>1, AppendProperties
  <2> HIDE DEF t
  <2>4. HowMany(t, A, Len(l)) = HowMany(l, A, Len(l))
    <3>1. {k \in 1..Len(l) : t[k] \in A} = {k \in 1..Len(l) : l[k] \in A}
      BY <2>1
    <3> QED BY <3>1 DEF HowMany
  <2>5. HowMany(t, A, Len(t)) = IF x \in A THEN HowMany(t, A, Len(l)) + 1 ELSE HowMany(t, A, Len(l))
    <3>1. Len(t) \in Nat /\ Len(t) # 0 /\ Len(t) - 1 = Len(l)
      BY <2>1
    <3>2. HowMany(t, A, Len(t)) = HowMany(t, A, Len(t) - 1) + IF t[Len(t)] \in A THEN 1 ELSE 0
      <4> DEFINE m == Len(t)
      <4>1. m \in Nat /\ m # 0
        BY <3>1
      <4> HIDE DEF m
      <4>2. HowMany(t, A, m) = HowMany(t, A, m - 1) + IF t[m] \in A THEN 1 ELSE 0
        BY ONLY <4>1, HowManyByOne
      <4> QED BY <4>2 DEF m
    <3>3. HowMany(t, A, Len(l)) \in Nat
      BY <2>1, HowManyByOne
    <3> QED BY <2>1, <3>1, <3>2, <3>3
  <2> QED BY <1>2, <2>1, <2>3, <2>4, <2>5 DEF t
<1>3. s \in G
  <2> HIDE DEF G
  <2> QED BY <1>1, <1>2, ListByList
<1> QED BY <1>3

\* No entry is twice in a list.
IsDistinct(s) == Cardinality(Range(s)) = Len(s)

LEMMA RangesAreFinite ==
    ASSUME NEW S, NEW s \in Seq(S)
    PROVE  IsFiniteSet(Range(s)) /\ Cardinality(Range(s)) \in Nat /\ Cardinality(Range(s)) <= Len(s)
<1> DEFINE G == {l \in Seq(S) : IsFiniteSet(Range(l)) /\ Cardinality(Range(l)) <= Len(l)}
<1>1. << >> \in G
  <2>1. Range(<< >>) = {} /\ << >> \in Seq(S) /\ Len(<< >>) = 0
    BY EmptySeq DEF Range
  <2>2. IsFiniteSet({}) /\ Cardinality({}) <= 0
    BY FS_EmptySet
  <2> QED BY <2>1, <2>2
<1>2. ASSUME NEW l \in Seq(S), NEW x \in S, l \in G PROVE Append(l, x) \in G
  <2>1. /\ Append(l, x) \in Seq(S) /\ Range(Append(l, x)) = Range(l) \cup {x}
        /\ Len(Append(l, x)) = Len(l) + 1 /\ Len(l) \in Nat
    BY RangeOfAppend, AppendProperties, LenProperties
  <2>2. IsFiniteSet(Range(l)) /\ Cardinality(Range(l)) <= Len(l) /\ Cardinality(Range(l)) \in Nat
    BY <1>2, FS_CardinalityType
  <2>3. /\ IsFiniteSet(Range(l) \cup {x})
        /\ \/ Cardinality(Range(l) \cup {x}) = Cardinality(Range(l))
           \/ Cardinality(Range(l) \cup {x}) = Cardinality(Range(l)) + 1
    BY <2>2, FS_AddElement
  <2>4. Cardinality(Range(l) \cup {x}) <= Len(l) + 1
    BY <2>1, <2>2, <2>3
  <2> QED BY <2>1, <2>3, <2>4
<1>3. s \in G
  <2> HIDE DEF G
  <2> QED BY <1>1, <1>2, ListByList
<1> QED BY <1>3, FS_CardinalityType

LEMMA DistinctAppend ==
    ASSUME NEW S, NEW s \in Seq(S), NEW x \in S
    PROVE  IsDistinct(Append(s, x)) <=> IsDistinct(s) /\ x \notin Range(s)
<1>1. /\ Append(s, x) \in Seq(S) /\ Range(Append(s, x)) = Range(s) \cup {x}
      /\ Len(Append(s, x)) = Len(s) + 1 /\ Len(s) \in Nat
  BY RangeOfAppend, AppendProperties, LenProperties
<1>2. IsFiniteSet(Range(s)) /\ Cardinality(Range(s)) \in Nat /\ Cardinality(Range(s)) <= Len(s)
  BY RangesAreFinite
<1>3. Cardinality(Range(s) \cup {x}) = IF x \in Range(s) THEN Cardinality(Range(s)) ELSE Cardinality(Range(s)) + 1
  BY <1>2, FS_AddElement
<1> QED BY <1>1, <1>2, <1>3 DEF IsDistinct

LEMMA OnlyIsDistinct ==
    ASSUME NEW S, NEW s \in Seq(S), IsDistinct(s), NEW A
    PROVE  IsDistinct(Only(s, A))
<1> DEFINE G == {l \in Seq(S) : IsDistinct(l) => IsDistinct(Only(l, A))}
<1>1. << >> \in G
  BY OnlyOfNone, EmptySeq
<1>2. ASSUME NEW l \in Seq(S), NEW x \in S, l \in G PROVE Append(l, x) \in G
  <2>1. Append(l, x) \in Seq(S) /\ Only(l, A) \in Seq(S) /\ Range(Only(l, A)) = Range(l) \cap A
    BY AppendProperties, OnlyIsAList, OnlyRange
  <2>2. Only(Append(l, x), A) = IF x \in A THEN Append(Only(l, A), x) ELSE Only(l, A)
    BY OnlyOfAppend
  <2>3. ASSUME IsDistinct(Append(l, x)) PROVE IsDistinct(Only(Append(l, x), A))
    <3>1. IsDistinct(l) /\ x \notin Range(l)
      BY <2>3, DistinctAppend
    <3>2. IsDistinct(Only(l, A)) /\ x \notin Range(Only(l, A))
      BY <1>2, <2>1, <3>1
    <3>3. IsDistinct(Append(Only(l, A), x))
      BY <2>1, <3>2, DistinctAppend
    <3> QED BY <2>2, <3>2, <3>3
  <2> QED BY <2>1, <2>3
<1>3. s \in G
  <2> HIDE DEF G
  <2> QED BY <1>1, <1>2, ListByList
<1> QED BY <1>3

LEMMA ConcatIsDistinct ==
    ASSUME NEW S, NEW s \in Seq(S), NEW t \in Seq(S), IsDistinct(s), IsDistinct(t),
           Range(s) \cap Range(t) = {}
    PROVE  IsDistinct(s \o t)
<1>1. Range(s \o t) = Range(s) \cup Range(t) /\ Len(s \o t) = Len(s) + Len(t)
  BY RangeConcatenation, ConcatProperties
<1>2. Cardinality(Range(s) \cup Range(t)) =
          Cardinality(Range(s)) + Cardinality(Range(t)) - Cardinality(Range(s) \cap Range(t))
  BY RangesAreFinite, FS_Union
<1>3. Cardinality(Range(s) \cap Range(t)) = 0
  BY FS_EmptySet
<1>4. Len(s) \in Nat /\ Len(t) \in Nat
  BY LenProperties
<1> QED BY <1>1, <1>2, <1>3, <1>4 DEF IsDistinct

-----------------------------------------------------------------------------
(* A list of lists laid end to end: which row of it, and which entry there, *)
(* each entry of the flat list is.                                         *)
Laid(flat, seqs, n, row, col) ==
    /\ row \in [DOMAIN flat -> 1..n] /\ col \in [DOMAIN flat -> Nat]
    /\ \A i \in DOMAIN flat : col[i] \in DOMAIN seqs[row[i]] /\ flat[i] = seqs[row[i]][col[i]]
    /\ \A i, j \in DOMAIN flat :
            i < j => row[i] < row[j] \/ (row[i] = row[j] /\ col[i] < col[j])
    /\ \A k \in 1..n : \A p \in DOMAIN seqs[k] : \E i \in DOMAIN flat : row[i] = k /\ col[i] = p

LEMMA OneMoreLaid ==
    ASSUME NEW S, NEW n \in Nat, NEW k \in 1..n, NEW seqs \in [1..n -> Seq(S)],
           NEW flat \in Seq(S), NEW row, NEW col, Laid(flat, seqs, k - 1, row, col)
    PROVE  flat \o seqs[k] \in Seq(S) /\ \E r, c : Laid(flat \o seqs[k], seqs, k, r, c)
<1> DEFINE final == seqs[k]
           all == flat \o final
           r == [i \in DOMAIN all |-> IF i <= Len(flat) THEN row[i] ELSE k]
           c == [i \in DOMAIN all |-> IF i <= Len(flat) THEN col[i] ELSE i - Len(flat)]
<1>1. final \in Seq(S) /\ k \in Nat /\ k - 1 \in Nat
  OBVIOUS
<1> HIDE DEF final
<1>2. /\ Len(flat) \in Nat /\ Len(final) \in Nat
      /\ DOMAIN flat = 1..Len(flat) /\ DOMAIN final = 1..Len(final)
      /\ all \in Seq(S) /\ DOMAIN all = 1..Len(flat) + Len(final)
      /\ \A i \in 1..Len(flat) : all[i] = flat[i]
      /\ \A i \in 1..Len(final) : all[Len(flat) + i] = final[i]
  BY <1>1, ConcatProperties, LenProperties
<1> HIDE DEF all
<1>3. \A i \in DOMAIN all : \/ i \in 1..Len(flat) /\ i <= Len(flat)
                            \/ ~(i <= Len(flat)) /\ i - Len(flat) \in 1..Len(final)
                                 /\ all[i] = final[i - Len(flat)]
  BY <1>2
<1>4. /\ row \in [1..Len(flat) -> 1..k - 1] /\ col \in [1..Len(flat) -> Nat]
      /\ \A i \in 1..Len(flat) : col[i] \in DOMAIN seqs[row[i]] /\ flat[i] = seqs[row[i]][col[i]]
      /\ \A i, j \in 1..Len(flat) :
            i < j => row[i] < row[j] \/ (row[i] = row[j] /\ col[i] < col[j])
      /\ \A m \in 1..k - 1 : \A p \in DOMAIN seqs[m] : \E i \in 1..Len(flat) : row[i] = m /\ col[i] = p
  <2>1. DOMAIN flat = 1..Len(flat)
    BY <1>2
  <2> DEFINE Rest(d) == /\ row \in [d -> 1..k - 1] /\ col \in [d -> Nat]
                        /\ \A i \in d : col[i] \in DOMAIN seqs[row[i]] /\ flat[i] = seqs[row[i]][col[i]]
                        /\ \A i, j \in d :
                            i < j => row[i] < row[j] \/ (row[i] = row[j] /\ col[i] < col[j])
                        /\ \A m \in 1..k - 1 : \A p \in DOMAIN seqs[m] :
                            \E i \in d : row[i] = m /\ col[i] = p
  <2>2. Rest(DOMAIN flat)
    BY DEF Laid
  <2>3. Rest(1..Len(flat))
    <3> HIDE DEF Rest
    <3> QED BY <2>1, <2>2
  <2> QED BY <2>3
<1>5. /\ r \in [DOMAIN all -> 1..k] /\ c \in [DOMAIN all -> Nat]
      /\ \A i \in 1..Len(flat) : r[i] = row[i] /\ c[i] = col[i] /\ i \in DOMAIN all
      /\ \A i \in DOMAIN all : ~(i <= Len(flat)) => r[i] = k /\ c[i] = i - Len(flat)
  <2>1. 1..k - 1 \subseteq 1..k /\ k \in 1..k /\ 1..Len(final) \subseteq Nat
    BY <1>1
  <2>2. \A i \in 1..Len(flat) : row[i] \in 1..k /\ col[i] \in Nat
    BY <1>4, <2>1
  <2>3. \A i \in DOMAIN all : r[i] \in 1..k /\ c[i] \in Nat
    BY <1>3, <2>1, <2>2
  <2>4. \A i \in 1..Len(flat) : i \in DOMAIN all /\ i <= Len(flat)
    BY <1>2
  <2> QED BY <2>3, <2>4
<1> HIDE DEF r, c
<1>6. ASSUME NEW i \in DOMAIN all
      PROVE  c[i] \in DOMAIN seqs[r[i]] /\ all[i] = seqs[r[i]][c[i]]
  <2>1. CASE i \in 1..Len(flat)
    <3>1. r[i] = row[i] /\ c[i] = col[i] /\ all[i] = flat[i]
      BY <1>2, <1>5, <2>1
    <3>2. col[i] \in DOMAIN seqs[row[i]] /\ flat[i] = seqs[row[i]][col[i]]
      BY <1>4, <2>1
    <3> QED BY <3>1, <3>2
  <2>2. CASE ~(i <= Len(flat)) /\ i - Len(flat) \in 1..Len(final) /\ all[i] = final[i - Len(flat)]
    <3>1. r[i] = k /\ c[i] = i - Len(flat)
      BY <1>5, <2>2
    <3>2. seqs[r[i]] = final
      BY <3>1 DEF final
    <3> QED BY <1>2, <2>2, <3>1, <3>2
  <2> QED BY <1>3, <2>1, <2>2
<1>7. ASSUME NEW i \in DOMAIN all, NEW j \in DOMAIN all, i < j
      PROVE  r[i] < r[j] \/ (r[i] = r[j] /\ c[i] < c[j])
  <2>1. CASE j <= Len(flat)
    <3>1. i \in 1..Len(flat) /\ j \in 1..Len(flat)
      BY <1>2, <1>3, <1>7, <2>1
    <3> QED BY <1>4, <1>5, <1>7, <3>1
  <2>2. CASE ~(j <= Len(flat)) /\ i <= Len(flat)
    <3>1. i \in 1..Len(flat) /\ r[i] = row[i] /\ row[i] \in 1..k - 1 /\ r[j] = k
      BY <1>3, <1>4, <1>5, <2>2
    <3> QED BY <1>1, <3>1
  <2>3. CASE ~(j <= Len(flat)) /\ ~(i <= Len(flat))
    <3>1. r[i] = k /\ r[j] = k /\ c[i] = i - Len(flat) /\ c[j] = j - Len(flat)
      BY <1>5, <2>3
    <3> QED BY <1>2, <1>7, <3>1
  <2> QED BY <2>1, <2>2, <2>3
<1>8. ASSUME NEW m \in 1..k, NEW p \in DOMAIN seqs[m]
      PROVE  \E i \in DOMAIN all : r[i] = m /\ c[i] = p
  <2>1. CASE m \in 1..k - 1
    BY <1>4, <1>5, <2>1
  <2>2. CASE m = k
    <3>1. p \in 1..Len(final)
      BY <1>2, <2>2 DEF final
    <3>2. Len(flat) + p \in DOMAIN all /\ ~(Len(flat) + p <= Len(flat)) /\ (Len(flat) + p) - Len(flat) = p
      BY <1>2, <3>1
    <3> QED BY <1>5, <2>2, <3>2
  <2> QED BY <2>1, <2>2
<1>9. Laid(all, seqs, k, r, c)
  BY <1>5, <1>6, <1>7, <1>8 DEF Laid
<1> QED BY <1>2, <1>9 DEF all, final

LEMMA FlattenLays ==
    ASSUME NEW S, NEW n \in Nat, NEW seqs \in [1..n -> Seq(S)]
    PROVE  /\ FlattenSeq(seqs) \in Seq(S)
           /\ \E row, col : Laid(FlattenSeq(seqs), seqs, n, row, col)
<1> DEFINE E(u) == [i \in 1..n |-> IF i = 1 THEN seqs[i] ELSE u[i - 1] \o seqs[i]]
           flatten == CHOOSE u : u = E(u)
           adding == [k \in 1..n |-> [l \in Seq(S) |-> l \o seqs[k]]]
<1>1. Len(seqs) = n /\ seqs \in Seq(Seq(S))
  BY LenProperties
<1>2. CASE n = 0
  <2>1. seqs = << >> /\ << >> \in Seq(S)
    BY <1>1, <1>2, EmptySeq
  <2>2. FlattenSeq(seqs) = << >>
    BY <1>1, <1>2, <2>1 DEF FlattenSeq
  <2>3. Laid(<< >>, seqs, 0, << >>, << >>)
    BY DEF Laid
  <2> QED BY <1>2, <2>1, <2>2, <2>3
<1>3. CASE n # 0
  <2>1. PICK steps : LeadsOn(steps, n, Seq(S), << >>, adding)
    <3>1. adding \in [1..n -> [Seq(S) -> Seq(S)]] /\ << >> \in Seq(S)
      BY ConcatProperties
    <3> HIDE DEF adding
    <3> QED BY <3>1, StepByStep
  <2> DEFINE u == [i \in 1..n |-> steps[i]]
  <2>2. u = E(u)
    <3>1. ASSUME NEW i \in 1..n PROVE steps[i] = IF i = 1 THEN seqs[i] ELSE u[i - 1] \o seqs[i]
      <4>1. /\ i - 1 \in 0..n /\ steps[i - 1] \in Seq(S)
            /\ steps[i] = adding[i][steps[i - 1]] /\ steps[0] = << >>
        <5>1. i - 1 \in 0..n
          OBVIOUS
        <5> HIDE DEF adding
        <5> QED BY <2>1, <5>1 DEF LeadsOn
      <4>2. steps[i] = steps[i - 1] \o seqs[i]
        BY <4>1
      <4>3. CASE i = 1
        <5>1. seqs[i] \in Seq(S)
          OBVIOUS
        <5>2. << >> \o seqs[i] = seqs[i]
          BY <5>1, ConcatEmptySeq
        <5>3. i - 1 = 0
          BY <4>3
        <5>4. steps[i] = seqs[i]
          BY <4>1, <4>2, <5>2, <5>3
        <5> QED BY <4>3, <5>4
      <4>4. CASE i # 1
        <5>1. i - 1 \in 1..n
          BY <4>4
        <5> QED BY <4>2, <4>4, <5>1
      <4> QED BY <4>3, <4>4
    <3> QED BY <3>1
  <2>3. flatten = E(flatten)
    <3> HIDE DEF E, u
    <3> QED BY <2>2
  <2>4. FlattenSeq(seqs) = flatten[n]
    BY <1>1, <1>3 DEF FlattenSeq
  <2> HIDE DEF flatten
  <2> DEFINE Good(k) == flatten[k] \in Seq(S) /\ \E row, col : Laid(flatten[k], seqs, k, row, col)
             G == {k \in 0..n : k = 0 \/ Good(k)}
  <2>5. ASSUME NEW k \in 1..n, k - 1 \in G PROVE k \in G
    <3>1. flatten[k] = IF k = 1 THEN seqs[k] ELSE flatten[k - 1] \o seqs[k]
      BY <2>3
    <3>2. CASE k = 1
      <4>1. << >> \in Seq(S) /\ Laid(<< >>, seqs, k - 1, << >>, << >>)
        BY <3>2 DEF Laid
      <4>2. << >> \o seqs[k] = flatten[k]
        BY <3>1, <3>2, ConcatEmptySeq
      <4>3. << >> \o seqs[k] \in Seq(S) /\ \E r, c : Laid(<< >> \o seqs[k], seqs, k, r, c)
        BY <4>1, OneMoreLaid
      <4> QED BY <4>2, <4>3
    <3>3. CASE k # 1
      <4>1. flatten[k] = flatten[k - 1] \o seqs[k]
        BY <3>1, <3>3
      <4>2. Good(k - 1)
        BY <2>5, <3>3
      <4>3. flatten[k - 1] \o seqs[k] \in Seq(S) /\ \E r, c : Laid(flatten[k - 1] \o seqs[k], seqs, k, r, c)
        BY <4>2, OneMoreLaid
      <4>4. Good(k) /\ k \in 0..n
        <5>1. k \in 0..n
          OBVIOUS
        <5> QED BY <4>1, <4>3, <5>1
      <4> HIDE DEF Good
      <4> QED BY <4>4
    <3> QED BY <3>2, <3>3
  <2>6. \A k \in 0..n : k \in G
    <3>1. 0 \in G
      OBVIOUS
    <3> HIDE DEF G
    <3> QED BY <2>5, <3>1, Climbing
  <2>7. Good(n)
    <3>1. n \in 0..n
      OBVIOUS
    <3> QED BY <1>3, <2>6, <3>1
  <2> QED BY <2>4, <2>7
<1> QED BY <1>2, <1>3

(* The first of a list of lists is the first of the first that has any.    *)
LEMMA FlattenHead ==
    ASSUME NEW T, NEW n \in Nat, NEW seqs \in [1..n -> Seq(T)]
    PROVE  /\ FlattenSeq(seqs) = << >> <=> \A k \in 1..n : seqs[k] = << >>
           /\ \A k \in 1..n : seqs[k] # << >> /\ (\A j \in 1..k - 1 : seqs[j] = << >>)
                                => FlattenSeq(seqs)[1] = seqs[k][1]
<1> DEFINE flat == FlattenSeq(seqs)
<1>1. flat \in Seq(T) /\ \E row, col : Laid(flat, seqs, n, row, col)
  BY FlattenLays
<1> HIDE DEF flat
<1>2. PICK row, col : Laid(flat, seqs, n, row, col)
  BY <1>1
<1>3. DOMAIN flat = 1..Len(flat) /\ Len(flat) \in Nat /\ (flat # << >> => 1 \in DOMAIN flat)
  BY <1>1, LenProperties, EmptySeq
<1>4. \A k \in 1..n : DOMAIN seqs[k] = 1..Len(seqs[k]) /\ Len(seqs[k]) \in Nat
                      /\ (seqs[k] # << >> => 1 \in DOMAIN seqs[k])
                      /\ (seqs[k] = << >> => DOMAIN seqs[k] = {})
  <2> SUFFICES ASSUME NEW k \in 1..n
               PROVE  DOMAIN seqs[k] = 1..Len(seqs[k]) /\ Len(seqs[k]) \in Nat
                      /\ (seqs[k] # << >> => 1 \in DOMAIN seqs[k])
                      /\ (seqs[k] = << >> => DOMAIN seqs[k] = {})
    OBVIOUS
  <2> DEFINE s == seqs[k]
  <2>1. s \in Seq(T)
    OBVIOUS
  <2> HIDE DEF s
  <2>2. DOMAIN s = 1..Len(s) /\ Len(s) \in Nat /\ (s # << >> => Len(s) # 0) /\ (s = << >> => Len(s) = 0)
    BY <2>1, LenProperties, EmptySeq
  <2> QED BY <2>2 DEF s
<1>5. \A i \in DOMAIN flat : row[i] \in 1..n /\ col[i] \in DOMAIN seqs[row[i]] /\ flat[i] = seqs[row[i]][col[i]]
  BY <1>2 DEF Laid
<1>6. \A k \in 1..n : \A p \in DOMAIN seqs[k] : \E i \in DOMAIN flat : row[i] = k /\ col[i] = p
  BY <1>2 DEF Laid
<1>7. flat = << >> => \A k \in 1..n : seqs[k] = << >>
  <2> SUFFICES ASSUME flat = << >>, NEW k \in 1..n, seqs[k] # << >> PROVE FALSE
    OBVIOUS
  <2>1. 1 \in DOMAIN seqs[k]
    BY <1>4
  <2>2. DOMAIN flat = {}
    OBVIOUS
  <2> QED BY <1>6, <2>1, <2>2
<1>8. (\A k \in 1..n : seqs[k] = << >>) => flat = << >>
  <2> SUFFICES ASSUME \A k \in 1..n : seqs[k] = << >>, flat # << >> PROVE FALSE
    OBVIOUS
  <2>1. row[1] \in 1..n /\ col[1] \in DOMAIN seqs[row[1]]
    BY <1>3, <1>5
  <2> QED BY <1>4, <2>1
<1>9. ASSUME NEW k \in 1..n, seqs[k] # << >>, \A j \in 1..k - 1 : seqs[j] = << >>
      PROVE  flat[1] = seqs[k][1]
  <2>1. 1 \in DOMAIN seqs[k]
    BY <1>4, <1>9
  <2>2. PICK i \in DOMAIN flat : row[i] = k /\ col[i] = 1
    BY <1>6, <2>1
  <2>3. 1 \in DOMAIN flat /\ i \in Nat /\ i >= 1
    BY <1>3
  <2>4. /\ row[1] \in 1..n /\ col[1] \in DOMAIN seqs[row[1]] /\ flat[1] = seqs[row[1]][col[1]]
    BY <1>5, <2>3
  <2>5. ~(row[1] < k)
    <3> SUFFICES ASSUME row[1] < k PROVE FALSE
      OBVIOUS
    <3>1. row[1] \in 1..k - 1
      BY <2>4
    <3>2. seqs[row[1]] = << >>
      BY <1>9, <3>1
    <3> QED BY <1>4, <2>4, <3>2
  <2>6. 1 < i => row[1] < row[i] \/ (row[1] = row[i] /\ col[1] < col[i])
    BY <1>2, <2>2, <2>3 DEF Laid
  <2>7. col[1] >= 1 /\ col[1] \in Nat
    <3>1. DOMAIN seqs[row[1]] = 1..Len(seqs[row[1]]) /\ Len(seqs[row[1]]) \in Nat
      BY <1>4, <2>4
    <3> HIDE DEF flat
    <3> QED BY <2>4, <3>1
  <2>8. i = 1
    BY <2>2, <2>3, <2>4, <2>5, <2>6, <2>7
  <2> QED BY <2>2, <2>4, <2>8
<1> QED BY <1>7, <1>8, <1>9 DEF flat

(* The first that is left of a list is its first one among these.          *)
LEMMA OnlyHead ==
    ASSUME NEW S, NEW s \in Seq(S), NEW A
    PROVE  /\ Only(s, A) = << >> <=> \A p \in DOMAIN s : s[p] \notin A
           /\ \A p \in DOMAIN s : s[p] \in A /\ (\A q \in DOMAIN s : q < p => s[q] \notin A)
                                   => Only(s, A)[1] = s[p]
<1> DEFINE places == {n \in DOMAIN s : s[n] \in A}
           left == Picked(s, places)
<1>1. left \in Seq(S) /\ \E from : PicksBy(left, s, places, Len(s), from)
  <2> HIDE DEF places
  <2> QED BY PickedPicks
<1>2. Only(s, A) = left
  BY DEF Only
<1> HIDE DEF left
<1>3. PICK from : PicksBy(left, s, places, Len(s), from)
  BY <1>1
<1>4. DOMAIN s = 1..Len(s) /\ Len(s) \in Nat /\ Len(left) \in Nat /\ (left = << >> <=> Len(left) = 0)
  BY <1>1, LenProperties, EmptySeq
<1>5. \A i \in 1..Len(left) : from[i] \in DOMAIN s /\ s[from[i]] \in A /\ left[i] = s[from[i]]
  BY <1>3 DEF PicksBy
<1>6. \A p \in DOMAIN s : s[p] \in A => \E i \in 1..Len(left) : from[i] = p
  BY <1>3, <1>4 DEF PicksBy
<1>7. left = << >> <=> \A p \in DOMAIN s : s[p] \notin A
  <2>1. left # << >> => 1 \in 1..Len(left)
    BY <1>4
  <2>2. left = << >> => 1..Len(left) = {}
    BY <1>4
  <2> QED BY <1>5, <1>6, <2>1, <2>2
<1>8. ASSUME NEW p \in DOMAIN s, s[p] \in A, \A q \in DOMAIN s : q < p => s[q] \notin A
      PROVE  left[1] = s[p]
  <2>1. PICK i \in 1..Len(left) : from[i] = p
    BY <1>6, <1>8
  <2>2. 1 \in 1..Len(left) /\ i \in Nat /\ i >= 1
    BY <1>4
  <2>3. from[1] \in DOMAIN s /\ s[from[1]] \in A /\ left[1] = s[from[1]]
    BY <1>5, <2>2
  <2>4. ~(from[1] < p)
    BY <1>8, <2>3
  <2>5. 1 < i => from[1] < from[i]
    BY <1>3, <2>1, <2>2 DEF PicksBy
  <2>6. i = 1
    BY <2>1, <2>2, <2>4, <2>5
  <2> QED BY <2>1, <2>3, <2>6
<1> QED BY <1>2, <1>7, <1>8
=============================================================================
