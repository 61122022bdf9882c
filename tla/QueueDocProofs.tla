---------------------------- MODULE QueueDocProofs ----------------------------
(***************************************************************************)
(* What the operations of QueueDoc do to any contents of the file.  Their  *)
(* folds are taken step by step with the lemmas of SublistProofs.          *)
(***************************************************************************)
EXTENDS QueueDoc, SublistProofs

-----------------------------------------------------------------------------
(* Lists: sequences of entries that have a key once.                       *)

Unambiguous(seq) == \A i, j \in DOMAIN seq : seq[i].key = seq[j].key => i = j
Lists == {seq \in Seq(Entry) : Unambiguous(seq)}

LEMMA KeysOfLists ==
    ASSUME NEW seq \in Seq(Entry)
    PROVE  /\ DOMAIN seq = 1..Len(seq) /\ Len(seq) \in Nat
           /\ ToSet(seq) \subseteq Entry
           /\ KeysIn(seq) = {e.key : e \in ToSet(seq)}
BY DEF ToSet, KeysIn

(* A list has a key once exactly when it has as many keys as entries.      *)
LEMMA ListsCountTheirKeys ==
    ASSUME NEW seq \in Seq(Entry)
    PROVE  Unambiguous(seq) <=> Cardinality(KeysIn(seq)) = Len(seq)
<1> DEFINE S == 1..Len(seq)
           f == [i \in S |-> seq[i].key]
<1>1. Len(seq) \in Nat /\ DOMAIN seq = S
  OBVIOUS
<1>2. IsFiniteSet(S) /\ Cardinality(S) = Len(seq)
  BY <1>1, FS_Interval
<1>3. f \in Surjection(S, KeysIn(seq))
  BY <1>1 DEF Surjection, KeysIn
<1>4. f \in Injection(S, KeysIn(seq)) <=> Unambiguous(seq)
  BY <1>1 DEF Injection, IsInjective, Unambiguous, KeysIn
<1> HIDE DEF S, f
<1>5. Cardinality(KeysIn(seq)) = Cardinality(S) <=> f \in Injection(S, KeysIn(seq))
  BY <1>2, <1>3, FS_Surjection
<1> QED BY <1>2, <1>4, <1>5

LEMMA KeysOfAList ==
    ASSUME NEW seq \in Lists
    PROVE  \A k : k \in KeysIn(seq) <=> \E e \in ToSet(seq) : e.key = k
BY KeysOfLists DEF Lists

LEMMA PickedIsAList ==
    ASSUME NEW seq \in Lists, NEW places
    PROVE  /\ Picked(seq, places) \in Lists
           /\ ToSet(Picked(seq, places)) = {seq[p] : p \in places \cap DOMAIN seq}
<1> DEFINE picked == Picked(seq, places)
<1>1. seq \in Seq(Entry) /\ Unambiguous(seq) /\ DOMAIN seq = 1..Len(seq)
  BY DEF Lists
<1>2. picked \in Seq(Entry) /\ \E from : PicksBy(picked, seq, places, Len(seq), from)
  BY <1>1, PickedPicks
<1>3. PICK from : PicksBy(picked, seq, places, Len(seq), from)
  BY <1>2
<1> HIDE DEF picked
<1>4. DOMAIN picked = 1..Len(picked) /\ Len(picked) \in Nat
  BY <1>2
<1>5. ASSUME NEW i \in DOMAIN picked, NEW j \in DOMAIN picked, picked[i].key = picked[j].key
      PROVE  i = j
  <2>1. from[i] \in 1..Len(seq) /\ from[j] \in 1..Len(seq) /\ from[i] = from[j]
    BY <1>1, <1>3, <1>4, <1>5 DEF PicksBy, Unambiguous
  <2>2. ~(i < j) /\ ~(j < i)
    BY <1>3, <1>4, <2>1 DEF PicksBy
  <2> QED BY <1>4, <2>2
<1>6. ToSet(picked) = {seq[p] : p \in places \cap DOMAIN seq}
  BY <1>1, <1>3, <1>4 DEF PicksBy, ToSet
<1> QED BY <1>2, <1>5, <1>6 DEF Lists, Unambiguous, picked

LEMMA WithoutIsAList ==
    ASSUME NEW seq \in Lists, NEW keys
    PROVE  /\ Without(seq, keys) \in Lists
           /\ ToSet(Without(seq, keys)) = {e \in ToSet(seq) : e.key \notin keys}
<1> DEFINE places == DOMAIN seq \ PlacesOf(seq, keys)
<1>1. {seq[p] : p \in places \cap DOMAIN seq} = {e \in ToSet(seq) : e.key \notin keys}
  BY DEF PlacesOf, ToSet
<1> QED BY <1>1, PickedIsAList DEF Without

LEMMA HavingIsAList ==
    ASSUME NEW seq \in Lists, NEW keys
    PROVE  /\ Having(seq, keys) \in Lists
           /\ ToSet(Having(seq, keys)) = {e \in ToSet(seq) : e.key \in keys}
<1> DEFINE places == PlacesOf(seq, keys)
<1>1. {seq[p] : p \in places \cap DOMAIN seq} = {e \in ToSet(seq) : e.key \in keys}
  BY DEF PlacesOf, ToSet
<1> QED BY <1>1, PickedIsAList DEF Having

(* The entries that have one key: the one there is, or none.               *)
LEMMA HavingOne ==
    ASSUME NEW seq \in Lists, NEW key
    PROVE  /\ key \notin KeysIn(seq) => Having(seq, {key}) = << >>
           /\ \A e \in ToSet(seq) : e.key = key => Having(seq, {key}) = <<e>>
<1> DEFINE h == Having(seq, {key})
<1>1. h \in Lists /\ ToSet(h) = {e \in ToSet(seq) : e.key \in {key}}
  BY HavingIsAList
<1> HIDE DEF h
<1>2. h \in Seq(Entry) /\ DOMAIN h = 1..Len(h) /\ Len(h) \in Nat /\ Unambiguous(h)
  BY <1>1 DEF Lists
<1>3. ASSUME key \notin KeysIn(seq) PROVE h = << >>
  <2>1. ToSet(h) = {}
    BY <1>1, <1>3, KeysOfLists DEF Lists
  <2>2. Len(h) = 0
    BY <1>2, <2>1 DEF ToSet
  <2> QED BY <1>2, <2>2
<1>4. ASSUME NEW e \in ToSet(seq), e.key = key PROVE h = <<e>>
  <2>1. \A i \in 1..Len(h) : h[i].key = key /\ h[i] \in ToSet(seq)
    BY <1>1, <1>2 DEF ToSet
  <2>2. \A i, j \in 1..Len(h) : i = j
    BY <1>2, <2>1 DEF Unambiguous
  <2>3. PICK i \in 1..Len(h) : h[i] = e
    BY <1>1, <1>2, <1>4 DEF ToSet
  <2>4. Len(h) = 1
    <3>1. 1 \in 1..Len(h) /\ Len(h) \in 1..Len(h)
      BY <1>2
    <3> QED BY <2>2, <3>1
  <2>5. i = 1
    BY <2>4
  <2> QED BY <1>2, <2>3, <2>4, <2>5
<1> QED BY <1>3, <1>4 DEF h

(* Lists that agree on a key have the same entries for it.                 *)
LEMMA HavingTheSame ==
    ASSUME NEW s \in Lists, NEW t \in Lists, NEW key,
           \A e \in Entry : e.key = key => (e \in ToSet(s) <=> e \in ToSet(t))
    PROVE  Having(s, {key}) = Having(t, {key})
<1>1. ToSet(s) \subseteq Entry /\ ToSet(t) \subseteq Entry
  BY KeysOfLists DEF Lists
<1>2. CASE \E e \in ToSet(s) : e.key = key
  BY <1>1, <1>2, HavingOne
<1>3. CASE ~\E e \in ToSet(s) : e.key = key
  <2>1. key \notin KeysIn(s) /\ key \notin KeysIn(t)
    BY <1>1, <1>3, KeysOfLists DEF Lists
  <2> QED BY <2>1, HavingOne
<1> QED BY <1>2, <1>3

LEMMA JoinedList ==
    ASSUME NEW s \in Lists, NEW t \in Lists, KeysIn(s) \cap KeysIn(t) = {}
    PROVE  s \o t \in Lists /\ ToSet(s \o t) = ToSet(s) \cup ToSet(t)
<1> DEFINE j == s \o t
<1>1. /\ s \in Seq(Entry) /\ t \in Seq(Entry) /\ Len(s) \in Nat /\ Len(t) \in Nat
      /\ DOMAIN s = 1..Len(s) /\ DOMAIN t = 1..Len(t)
      /\ Unambiguous(s) /\ Unambiguous(t)
  BY DEF Lists
<1>2. /\ j \in Seq(Entry) /\ Len(j) = Len(s) + Len(t) /\ DOMAIN j = 1..Len(j)
      /\ \A i \in 1..Len(s) + Len(t) : j[i] = IF i <= Len(s) THEN s[i] ELSE t[i - Len(s)]
  BY <1>1, ConcatProperties
<1> HIDE DEF j
<1>3. \A i \in DOMAIN j : \/ (i \in DOMAIN s /\ j[i] = s[i])
                         \/ (i - Len(s) \in DOMAIN t /\ j[i] = t[i - Len(s)])
  BY <1>1, <1>2
<1>4. ASSUME NEW i \in DOMAIN j, NEW k \in DOMAIN j, j[i].key = j[k].key PROVE i = k
  <2>1. i \in Int /\ k \in Int
    BY <1>1, <1>2
  <2>2. CASE i \in DOMAIN s /\ j[i] = s[i] /\ k \in DOMAIN s /\ j[k] = s[k]
    BY <1>1, <1>4, <2>2 DEF Unambiguous
  <2>3. CASE i - Len(s) \in DOMAIN t /\ j[i] = t[i - Len(s)] /\ k - Len(s) \in DOMAIN t /\ j[k] = t[k - Len(s)]
    <3>1. i - Len(s) = k - Len(s)
      BY <1>1, <1>4, <2>3 DEF Unambiguous
    <3> QED BY <1>1, <2>1, <3>1
  <2>4. CASE i \in DOMAIN s /\ j[i] = s[i] /\ k - Len(s) \in DOMAIN t /\ j[k] = t[k - Len(s)]
    BY <1>4, <2>4 DEF KeysIn
  <2>5. CASE k \in DOMAIN s /\ j[k] = s[k] /\ i - Len(s) \in DOMAIN t /\ j[i] = t[i - Len(s)]
    BY <1>4, <2>5 DEF KeysIn
  <2> QED BY <1>3, <2>2, <2>3, <2>4, <2>5
<1>5. ToSet(j) = ToSet(s) \cup ToSet(t)
  <2>1. ToSet(j) \subseteq ToSet(s) \cup ToSet(t)
    BY <1>3 DEF ToSet
  <2>2. \A i \in DOMAIN s : i \in DOMAIN j /\ j[i] = s[i]
    BY <1>1, <1>2
  <2>3. \A i \in DOMAIN t : i + Len(s) \in DOMAIN j /\ j[i + Len(s)] = t[i]
    BY <1>1, <1>2
  <2>4. ToSet(s) \subseteq ToSet(j)
    BY <2>2 DEF ToSet
  <2>5. ToSet(t) \subseteq ToSet(j)
    BY <2>3 DEF ToSet
  <2> QED BY <2>1, <2>4, <2>5
<1> QED BY <1>2, <1>4, <1>5 DEF Lists, Unambiguous, j

LEMMA ListOfOne ==
    ASSUME NEW e \in Entry
    PROVE  <<e>> \in Lists /\ ToSet(<<e>>) = {e} /\ KeysIn(<<e>>) = {e.key}
BY DEF Lists, Unambiguous, ToSet, KeysIn

LEMMA EmptyList == << >> \in Lists /\ ToSet(<< >>) = {} /\ KeysIn(<< >>) = {}
BY DEF Lists, Unambiguous, ToSet, KeysIn

LEMMA AddedToList ==
    ASSUME NEW seq \in Lists, NEW e \in Entry, e.key \notin KeysIn(seq)
    PROVE  /\ Append(seq, e) \in Lists /\ ToSet(Append(seq, e)) = ToSet(seq) \cup {e}
           /\ Cons(e, seq) \in Lists /\ ToSet(Cons(e, seq)) = ToSet(seq) \cup {e}
<1>1. Append(seq, e) = seq \o <<e>>
  BY AppendIsConcat DEF Lists
<1>2. Cons(e, seq) = <<e>> \o seq
  BY DEF Cons
<1>3. KeysIn(seq) \cap KeysIn(<<e>>) = {} /\ KeysIn(<<e>>) \cap KeysIn(seq) = {}
  BY ListOfOne
<1> QED BY <1>1, <1>2, <1>3, ListOfOne, JoinedList

(* Entries altered where they are, whatever is done to those of some keys. *)
LEMMA AlteredList ==
    ASSUME NEW seq \in Lists, NEW keys, NEW t \in [DOMAIN seq -> Entry],
           \A i \in DOMAIN seq : /\ t[i].key = seq[i].key
                                 /\ seq[i].key \notin keys => t[i] = seq[i]
    PROVE  /\ t \in Lists /\ KeysIn(t) = KeysIn(seq)
           /\ \A e \in Entry : e.key \notin keys => (e \in ToSet(t) <=> e \in ToSet(seq))
<1>1. DOMAIN seq = 1..Len(seq) /\ Len(seq) \in Nat /\ Unambiguous(seq)
  BY DEF Lists
<1>2. t \in Seq(Entry)
  <2>1. t = [i \in 1..Len(seq) |-> t[i]] /\ \A i \in 1..Len(seq) : t[i] \in Entry
    BY <1>1
  <2>2. [i \in 1..Len(seq) |-> t[i]] \in Seq(Entry)
    BY <1>1, <2>1, IsASeq
  <2> QED BY <2>1, <2>2
<1>3. Unambiguous(t)
  BY <1>1 DEF Unambiguous
<1>4. KeysIn(t) = KeysIn(seq)
  BY DEF KeysIn
<1>5. \A e \in Entry : e.key \notin keys => (e \in ToSet(t) <=> e \in ToSet(seq))
  BY DEF ToSet
<1> QED BY <1>2, <1>3, <1>4, <1>5 DEF Lists

-----------------------------------------------------------------------------
(* What the order names, and the list it makes.                            *)

LEMMA NamedIsDefined ==
    ASSUME NEW seq \in Lists, NEW order \in Seq(Keys)
    PROVE  \E f : f = [n \in 0..Len(order) |->
                         IF n = 0 THEN << >>
                         ELSE IF \E m \in n + 1..Len(order) : order[m] = order[n] THEN f[n - 1]
                         ELSE f[n - 1] \o Having(seq, {order[n]})]
<1> DEFINE step == [n \in 1..Len(order) |->
                      [l \in Seq(Entry) |->
                         IF \E m \in n + 1..Len(order) : order[m] = order[n] THEN l
                         ELSE l \o Having(seq, {order[n]})]]
<1>1. Len(order) \in Nat /\ << >> \in Seq(Entry)
  OBVIOUS
<1>2. step \in [1..Len(order) -> [Seq(Entry) -> Seq(Entry)]]
  <2>1. \A n \in 1..Len(order) : Having(seq, {order[n]}) \in Seq(Entry)
    BY HavingIsAList DEF Lists
  <2>2. \A n \in 1..Len(order), l \in Seq(Entry) : l \o Having(seq, {order[n]}) \in Seq(Entry)
    BY <2>1, ConcatProperties
  <2> QED BY <2>2
<1>3. PICK f : LeadsOn(f, Len(order), Seq(Entry), << >>, step)
  <2> HIDE DEF step
  <2> QED BY <1>1, <1>2, StepByStep
<1>4. ASSUME NEW n \in 1..Len(order)
      PROVE  f[n] = IF \E m \in n + 1..Len(order) : order[m] = order[n] THEN f[n - 1]
                    ELSE f[n - 1] \o Having(seq, {order[n]})
  <2>1. n - 1 \in 0..Len(order)
    BY <1>1
  <2>2. f[n - 1] \in Seq(Entry)
    BY <1>3, <2>1 DEF LeadsOn
  <2> QED BY <1>3, <2>2 DEF LeadsOn
<1>5. \A n \in 0..Len(order) : n = 0 \/ n \in 1..Len(order)
  BY <1>1
<1>6. f = [n \in 0..Len(order) |->
             IF n = 0 THEN << >>
             ELSE IF \E m \in n + 1..Len(order) : order[m] = order[n] THEN f[n - 1]
             ELSE f[n - 1] \o Having(seq, {order[n]})]
  BY <1>3, <1>4, <1>5 DEF LeadsOn
<1> QED BY <1>6

LEMMA NamedIsAList ==
    ASSUME NEW seq \in Lists, NEW order \in Seq(Keys)
    PROVE  /\ Named(seq, order) \in Lists
           /\ ToSet(Named(seq, order)) = {e \in ToSet(seq) : e.key \in ToSet(order)}
<1> DEFINE E(f) == [n \in 0..Len(order) |->
                      IF n = 0 THEN << >>
                      ELSE IF \E m \in n + 1..Len(order) : order[m] = order[n] THEN f[n - 1]
                      ELSE f[n - 1] \o Having(seq, {order[n]})]
           upTo == CHOOSE f : f = E(f)
           Until(n) == {order[m] : m \in 1..n} \ {order[m] : m \in n + 1..Len(order)}
           G == {n \in 0..Len(order) : /\ upTo[n] \in Lists
                                       /\ ToSet(upTo[n]) = {e \in ToSet(seq) : e.key \in Until(n)}}
<1>1. Len(order) \in Nat
  OBVIOUS
<1>2. upTo = E(upTo)
  <2>1. \E f : f = E(f)
    BY NamedIsDefined
  <2> HIDE DEF E
  <2> QED BY <2>1
<1>3. Named(seq, order) = upTo[Len(order)]
  BY DEF Named
<1> HIDE DEF upTo
<1>4. 0 \in G
  <2>1. upTo[0] = << >>
    BY <1>1, <1>2
  <2>2. Until(0) = {}
    OBVIOUS
  <2> QED BY <1>1, <2>1, <2>2, EmptyList
<1>5. ASSUME NEW n \in 1..Len(order), n - 1 \in G PROVE n \in G
  <2>1. n \in 0..Len(order) /\ n # 0
    BY <1>1
  <2>2. /\ \A m \in 1..n : m = n \/ m \in 1..n - 1
        /\ \A m \in 1..n - 1 : m \in 1..n
        /\ n \in 1..n
        /\ \A m \in (n - 1) + 1..Len(order) : m = n \/ m \in n + 1..Len(order)
        /\ \A m \in n + 1..Len(order) : m \in (n - 1) + 1..Len(order)
        /\ n \in (n - 1) + 1..Len(order)
    BY <1>1
  <2>3. CASE \E m \in n + 1..Len(order) : order[m] = order[n]
    <3>1. upTo[n] = upTo[n - 1]
      BY <1>2, <2>1, <2>3
    <3>2. Until(n) = Until(n - 1)
      BY <2>2, <2>3
    <3> QED BY <1>5, <2>1, <3>1, <3>2
  <2>4. CASE ~\E m \in n + 1..Len(order) : order[m] = order[n]
    <3> DEFINE h == Having(seq, {order[n]})
    <3>1. upTo[n] = upTo[n - 1] \o h
      BY <1>2, <2>1, <2>4
    <3>2. h \in Lists /\ ToSet(h) = {e \in ToSet(seq) : e.key = order[n]}
      BY HavingIsAList
    <3>3. Until(n) = Until(n - 1) \cup {order[n]} /\ order[n] \notin Until(n - 1)
      BY <2>2, <2>4
    <3> HIDE DEF h, Until
    <3>4. upTo[n - 1] \in Lists /\ ToSet(upTo[n - 1]) = {e \in ToSet(seq) : e.key \in Until(n - 1)}
      BY <1>5
    <3>5. KeysIn(upTo[n - 1]) \cap KeysIn(h) = {}
      BY <3>2, <3>3, <3>4, KeysOfAList
    <3>6. upTo[n] \in Lists /\ ToSet(upTo[n]) = ToSet(upTo[n - 1]) \cup ToSet(h)
      BY <3>1, <3>2, <3>4, <3>5, JoinedList
    <3>7. ToSet(upTo[n]) = {e \in ToSet(seq) : e.key \in Until(n)}
      BY <3>2, <3>3, <3>4, <3>6
    <3> QED BY <2>1, <3>6, <3>7
  <2> QED BY <2>3, <2>4
<1>6. Len(order) \in G
  <2> HIDE DEF G
  <2> QED BY <1>1, <1>4, <1>5, Climbing, SMTT(30)
<1>7. Until(Len(order)) = ToSet(order)
  BY <1>1 DEF ToSet
<1> QED BY <1>3, <1>6, <1>7

(* A new order loses, adds and changes no entry.                           *)
LEMMA OrderedList ==
    ASSUME NEW seq \in Lists, NEW order \in Seq(Keys)
    PROVE  /\ ApplyOrder(seq, order) \in Lists
           /\ ToSet(ApplyOrder(seq, order)) = ToSet(seq)
<1> DEFINE named == Named(seq, order)
           others == Without(seq, ToSet(order))
<1>1. named \in Lists /\ ToSet(named) = {e \in ToSet(seq) : e.key \in ToSet(order)}
  BY NamedIsAList
<1>2. others \in Lists /\ ToSet(others) = {e \in ToSet(seq) : e.key \notin ToSet(order)}
  BY WithoutIsAList
<1>3. ApplyOrder(seq, order) = named \o others
  BY DEF ApplyOrder
<1> HIDE DEF named, others
<1>4. KeysIn(named) \cap KeysIn(others) = {}
  BY <1>1, <1>2, KeysOfAList
<1>5. ToSet(seq) = ToSet(named) \cup ToSet(others)
  BY <1>1, <1>2
<1> QED BY <1>1, <1>2, <1>3, <1>4, <1>5, JoinedList

-----------------------------------------------------------------------------
(* The file: what an operation leaves of it.                               *)

Docs == [Sets -> Lists]

\* Outside these places the two contents have the same entries.
Agree(doc, new, places) ==
    \A s \in Sets, e \in Entry :
        [set |-> s, key |-> e.key] \notin places => (e \in ToSet(new[s]) <=> e \in ToSet(doc[s]))

Places(set, keys) == {[set |-> set, key |-> k] : k \in keys}

\* What had an entry for a key still has one, or the set `to` has.
Keeps(doc, new, to) ==
    \A s \in Sets : \A k \in KeysIn(doc[s]) : k \in KeysIn(new[s]) \/ k \in KeysIn(new[to])

LEMMA DocsOfLists ==
    ASSUME NEW doc \in Docs, NEW s \in Sets
    PROVE  doc[s] \in Lists /\ ToSet(doc[s]) \subseteq Entry
BY KeysOfLists DEF Docs, Lists

(* One list is replaced.                                                   *)
LEMMA OneListReplaced ==
    ASSUME NEW doc \in Docs, NEW set \in Sets, NEW list \in Lists, NEW places,
           \A e \in Entry : [set |-> set, key |-> e.key] \notin places =>
                               (e \in ToSet(list) <=> e \in ToSet(doc[set]))
    PROVE  /\ [doc EXCEPT ![set] = list] \in Docs
           /\ Agree(doc, [doc EXCEPT ![set] = list], places)
           /\ KeysIn(doc[set]) \subseteq KeysIn(list) =>
                 \A to \in Sets : Keeps(doc, [doc EXCEPT ![set] = list], to)
<1> DEFINE new == [doc EXCEPT ![set] = list]
<1>1. new[set] = list /\ \A s \in Sets \ {set} : new[s] = doc[s]
  BY DEF Docs
<1>2. new \in Docs
  BY DEF Docs
<1> HIDE DEF new
<1>3. Agree(doc, new, places)
  BY <1>1 DEF Agree
<1>4. KeysIn(doc[set]) \subseteq KeysIn(list) => \A to \in Sets : Keeps(doc, new, to)
  BY <1>1 DEF Keeps
<1> QED BY <1>2, <1>3, <1>4 DEF new

LEMMA AddEdits ==
    ASSUME NEW doc \in Docs, NEW set \in Sets, NEW key \in Keys, NEW nr
    PROVE  /\ Add(doc, set, key, nr) \in Docs
           /\ Agree(doc, Add(doc, set, key, nr), {[set |-> set, key |-> key]})
<1>1. CASE key \in KeysIn(doc[set])
  BY <1>1 DEF Add, Agree
<1>2. CASE key \notin KeysIn(doc[set])
  <2>1. NewEntry(key) \in Entry /\ NewEntry(key).key = key
    BY DEF NewEntry, Entry
  <2>2. PICK list \in {Append(doc[set], NewEntry(key)), Cons(NewEntry(key), doc[set])} :
           Add(doc, set, key, nr) = [doc EXCEPT ![set] = list]
    BY <1>2 DEF Add
  <2>3. list \in Lists /\ ToSet(list) = ToSet(doc[set]) \cup {NewEntry(key)}
    <3>1. doc[set] \in Lists
      BY DocsOfLists
    <3> DEFINE new == NewEntry(key)  old == doc[set]
    <3>2. new \in Entry /\ new.key \notin KeysIn(old) /\ old \in Lists
      BY <1>2, <2>1, <3>1
    <3> HIDE DEF new, old
    <3>3. /\ Append(old, new) \in Lists /\ ToSet(Append(old, new)) = ToSet(old) \cup {new}
          /\ Cons(new, old) \in Lists /\ ToSet(Cons(new, old)) = ToSet(old) \cup {new}
      BY <3>2, AddedToList
    <3> QED BY <2>2, <3>3 DEF new, old
  <2> DEFINE places == {[set |-> set, key |-> key]}
  <2>4. \A e \in Entry : [set |-> set, key |-> e.key] \notin places =>
                            (e \in ToSet(list) <=> e \in ToSet(doc[set]))
    BY <2>1, <2>3
  <2> HIDE DEF places
  <2>5. /\ [doc EXCEPT ![set] = list] \in Docs
        /\ Agree(doc, [doc EXCEPT ![set] = list], places)
    BY <2>3, <2>4, OneListReplaced
  <2> QED BY <2>2, <2>5 DEF places
<1> QED BY <1>1, <1>2

LEMMA RemoveEdits ==
    ASSUME NEW doc \in Docs, NEW items \in Seq(Item)
    PROVE  /\ RemoveItems(doc, items) \in Docs
           /\ Agree(doc, RemoveItems(doc, items), ToSet(items))
<1> DEFINE Of(set) == {i.key : i \in {j \in ToSet(items) : j.set = set}}
           new == RemoveItems(doc, items)
<1>1. \A s \in Sets : new[s] = Without(doc[s], Of(s))
  BY DEF RemoveItems
<1>2. new = [s \in Sets |-> new[s]]
  BY DEF RemoveItems
<1>3. ASSUME NEW s \in Sets
      PROVE  new[s] \in Lists /\ ToSet(new[s]) = {e \in ToSet(doc[s]) : e.key \notin Of(s)}
  <2>1. doc[s] \in Lists /\ new[s] = Without(doc[s], Of(s))
    BY <1>1, DocsOfLists
  <2> HIDE DEF Of, new
  <2> QED BY <2>1, WithoutIsAList
<1>4. ASSUME NEW s \in Sets, NEW k, [set |-> s, key |-> k] \notin ToSet(items)
      PROVE  k \notin Of(s)
  <2>1. \A j \in ToSet(items) : j \in Item
    BY ElementOfSeq DEF ToSet
  <2>2. \A j \in ToSet(items) : j.set = s /\ j.key = k => j = [set |-> s, key |-> k]
    BY <2>1 DEF Item
  <2> QED BY <1>4, <2>2
<1> HIDE DEF new, Of
<1>5. new \in Docs
  BY <1>2, <1>3 DEF Docs
<1>6. Agree(doc, new, ToSet(items))
  BY <1>3, <1>4 DEF Agree
<1> QED BY <1>5, <1>6 DEF new

\* The entries of a set that have a done flag, as places.
DoneIn(doc, set) == {[set |-> set, key |-> e.key] : e \in {f \in ToSet(doc[set]) : f.done}}

(* Some of the entries of a set that have a done flag are dropped.         *)
LEMMA DropsDone ==
    ASSUME NEW doc \in Docs, NEW set \in Sets, NEW places,
           \A i \in DOMAIN doc[set] \ places : doc[set][i].done
    PROVE  /\ [doc EXCEPT ![set] = Picked(doc[set], places)] \in Docs
           /\ Agree(doc, [doc EXCEPT ![set] = Picked(doc[set], places)], DoneIn(doc, set))
<1> DEFINE list == Picked(doc[set], places)
<1>1. doc[set] \in Lists
  BY DocsOfLists
<1>2. list \in Lists /\ ToSet(list) = {doc[set][p] : p \in places \cap DOMAIN doc[set]}
  BY <1>1, PickedIsAList
<1> HIDE DEF list
<1>3. ASSUME NEW e \in Entry, [set |-> set, key |-> e.key] \notin DoneIn(doc, set)
      PROVE  e \in ToSet(list) <=> e \in ToSet(doc[set])
  <2>1. e \in ToSet(list) => e \in ToSet(doc[set])
    BY <1>2 DEF ToSet
  <2>2. ASSUME e \in ToSet(doc[set]) PROVE e \in ToSet(list)
    <3>1. ~e.done
      BY <1>3, <2>2 DEF DoneIn
    <3>2. PICK i \in DOMAIN doc[set] : doc[set][i] = e
      BY <2>2 DEF ToSet
    <3> QED BY <1>2, <3>1, <3>2
  <2> QED BY <2>1, <2>2
<1> QED BY <1>2, <1>3, OneListReplaced DEF list

LEMMA RemoveCompletedEdits ==
    ASSUME NEW doc \in Docs, NEW set \in Sets
    PROVE  /\ RemoveCompleted(doc, set) \in Docs
           /\ Agree(doc, RemoveCompleted(doc, set), DoneIn(doc, set))
<1> DEFINE places == {i \in DOMAIN doc[set] : ~doc[set][i].done}
<1>1. \A i \in DOMAIN doc[set] \ places : doc[set][i].done
  <2>1. \A i \in DOMAIN doc[set] : doc[set][i] \in ToSet(doc[set])
    BY DEF ToSet
  <2> QED BY <2>1, DocsOfLists DEF Entry
<1>2. RemoveCompleted(doc, set) = [doc EXCEPT ![set] = Picked(doc[set], places)]
  BY DEF RemoveCompleted
<1> HIDE DEF places
<1>3. /\ [doc EXCEPT ![set] = Picked(doc[set], places)] \in Docs
      /\ Agree(doc, [doc EXCEPT ![set] = Picked(doc[set], places)], DoneIn(doc, set))
  BY <1>1, DropsDone
<1> QED BY <1>2, <1>3

LEMMA SweepEdits ==
    ASSUME NEW doc \in Docs, NEW set \in Sets, NEW limit
    PROVE  /\ Sweep(doc, set, limit) \in Docs
           /\ Agree(doc, Sweep(doc, set, limit), DoneIn(doc, set))
<1> DEFINE places == {i \in DOMAIN doc[set] : ~IsAged(doc[set][i], limit)}
<1>1. \A i \in DOMAIN doc[set] \ places : doc[set][i].done
  BY DEF IsAged
<1>2. Sweep(doc, set, limit) = [doc EXCEPT ![set] = Picked(doc[set], places)]
  BY DEF Sweep
<1> HIDE DEF places
<1>3. /\ [doc EXCEPT ![set] = Picked(doc[set], places)] \in Docs
      /\ Agree(doc, [doc EXCEPT ![set] = Picked(doc[set], places)], DoneIn(doc, set))
  BY <1>1, DropsDone
<1> QED BY <1>2, <1>3

LEMMA ReorderEdits ==
    ASSUME NEW doc \in Docs, NEW set \in Sets, NEW order \in Seq(Keys)
    PROVE  /\ Reorder(doc, set, order) \in Docs
           /\ Agree(doc, Reorder(doc, set, order), {})
           /\ \A to \in Sets : Keeps(doc, Reorder(doc, set, order), to)
<1> DEFINE list == ApplyOrder(doc[set], order)
<1>1. doc[set] \in Lists
  BY DocsOfLists
<1>2. list \in Lists /\ ToSet(list) = ToSet(doc[set])
  BY <1>1, OrderedList
<1>3. Reorder(doc, set, order) = [doc EXCEPT ![set] = list]
  BY DEF Reorder
<1> HIDE DEF list
<1>4. KeysIn(doc[set]) \subseteq KeysIn(list)
  BY <1>1, <1>2, KeysOfAList
<1> QED BY <1>2, <1>3, <1>4, OneListReplaced, ZenonT(30)

(* Entries of a set are altered where they are.                            *)
LEMMA AltersEntries ==
    ASSUME NEW doc \in Docs, NEW set \in Sets, NEW keys, 
           NEW list \in [DOMAIN doc[set] -> Entry],
           \A i \in DOMAIN doc[set] :
              /\ list[i].key = doc[set][i].key
              /\ doc[set][i].key \notin keys => list[i] = doc[set][i]
    PROVE  /\ [doc EXCEPT ![set] = list] \in Docs
           /\ Agree(doc, [doc EXCEPT ![set] = list], Places(set, keys))
           /\ \A to \in Sets : Keeps(doc, [doc EXCEPT ![set] = list], to)
<1> DEFINE places == Places(set, keys)
<1>1. doc[set] \in Lists 
  BY DocsOfLists
<1>2. /\ list \in Lists /\ KeysIn(list) = KeysIn(doc[set])
      /\ \A e \in Entry : e.key \notin keys => (e \in ToSet(list) <=> e \in ToSet(doc[set]))
  BY <1>1, AlteredList
<1>3. \A e \in Entry : [set |-> set, key |-> e.key] \notin places => e.key \notin keys
  BY DEF Places
<1> HIDE DEF places
<1> QED BY <1>2, <1>3, OneListReplaced DEF places

LEMMA EntriesOfDocs ==
    ASSUME NEW doc \in Docs, NEW set \in Sets
    PROVE  \A i \in DOMAIN doc[set] : doc[set][i] \in Entry
BY DEF Docs, Lists

LEMMA MarkDoneEdits ==
    ASSUME NEW doc \in Docs, NEW set \in Sets, NEW keys, NEW now \in Nat
    PROVE  /\ MarkDone(doc, set, keys, now) \in Docs
           /\ Agree(doc, MarkDone(doc, set, keys, now), Places(set, keys))
           /\ \A to \in Sets : Keeps(doc, MarkDone(doc, set, keys, now), to)
<1> DEFINE Marked(e) == IF e.done /\ e.at # 0 THEN e ELSE [e EXCEPT !.done = TRUE, !.at = now]
           list == [i \in DOMAIN doc[set] |->
                      IF doc[set][i].key \in keys THEN Marked(doc[set][i]) ELSE doc[set][i]]
<1>1. \A e \in Entry : Marked(e) \in Entry /\ Marked(e).key = e.key
  BY DEF Entry
<1>2. MarkDone(doc, set, keys, now) = [doc EXCEPT ![set] = list]
  BY DEF MarkDone, Change
<1> HIDE DEF Marked
<1>3. list \in [DOMAIN doc[set] -> Entry]
  BY <1>1, EntriesOfDocs
<1>4. \A i \in DOMAIN doc[set] :
         /\ list[i].key = doc[set][i].key
         /\ doc[set][i].key \notin keys => list[i] = doc[set][i]
  BY <1>1, EntriesOfDocs
<1> HIDE DEF list
<1>5. /\ [doc EXCEPT ![set] = list] \in Docs
      /\ Agree(doc, [doc EXCEPT ![set] = list], Places(set, keys))
      /\ \A to \in Sets : Keeps(doc, [doc EXCEPT ![set] = list], to)
  BY <1>3, <1>4, AltersEntries
<1> QED BY <1>2, <1>5

LEMMA ClearDoneEdits ==
    ASSUME NEW doc \in Docs, NEW set \in Sets, NEW keys
    PROVE  /\ ClearDone(doc, set, keys) \in Docs
           /\ Agree(doc, ClearDone(doc, set, keys), Places(set, keys))
           /\ \A to \in Sets : Keeps(doc, ClearDone(doc, set, keys), to)
<1> DEFINE Cleared(e) == [e EXCEPT !.done = FALSE, !.at = 0]
           list == [i \in DOMAIN doc[set] |->
                      IF doc[set][i].key \in keys THEN Cleared(doc[set][i]) ELSE doc[set][i]]
<1>1. \A e \in Entry : Cleared(e) \in Entry /\ Cleared(e).key = e.key
  BY DEF Entry
<1>2. ClearDone(doc, set, keys) = [doc EXCEPT ![set] = list]
  BY DEF ClearDone, Change
<1> HIDE DEF Cleared
<1>3. list \in [DOMAIN doc[set] -> Entry]
  BY <1>1, EntriesOfDocs
<1>4. \A i \in DOMAIN doc[set] :
         /\ list[i].key = doc[set][i].key
         /\ doc[set][i].key \notin keys => list[i] = doc[set][i]
  BY <1>1, EntriesOfDocs
<1> HIDE DEF list
<1>5. /\ [doc EXCEPT ![set] = list] \in Docs
      /\ Agree(doc, [doc EXCEPT ![set] = list], Places(set, keys))
      /\ \A to \in Sets : Keeps(doc, [doc EXCEPT ![set] = list], to)
  BY <1>3, <1>4, AltersEntries
<1> QED BY <1>2, <1>5

LEMMA RewriteEdits ==
    ASSUME NEW doc \in Docs, NEW set \in Sets, NEW keys, NEW weight \in Nat \ {0}
    PROVE  /\ Rewrite(doc, set, keys, weight) \in Docs
           /\ Agree(doc, Rewrite(doc, set, keys, weight), Places(set, keys))
           /\ \A to \in Sets : Keeps(doc, Rewrite(doc, set, keys, weight), to)
<1> DEFINE Weighed(e) == [e EXCEPT !.weight = weight]
           list == [i \in DOMAIN doc[set] |->
                      IF doc[set][i].key \in keys THEN Weighed(doc[set][i]) ELSE doc[set][i]]
<1>1. \A e \in Entry : Weighed(e) \in Entry /\ Weighed(e).key = e.key
  BY DEF Entry
<1>2. Rewrite(doc, set, keys, weight) = [doc EXCEPT ![set] = list]
  BY DEF Rewrite, Change
<1> HIDE DEF Weighed
<1>3. list \in [DOMAIN doc[set] -> Entry]
  BY <1>1, EntriesOfDocs
<1>4. \A i \in DOMAIN doc[set] :
         /\ list[i].key = doc[set][i].key
         /\ doc[set][i].key \notin keys => list[i] = doc[set][i]
  BY <1>1, EntriesOfDocs
<1> HIDE DEF list
<1>5. /\ [doc EXCEPT ![set] = list] \in Docs
      /\ Agree(doc, [doc EXCEPT ![set] = list], Places(set, keys))
      /\ \A to \in Sets : Keeps(doc, [doc EXCEPT ![set] = list], to)
  BY <1>3, <1>4, AltersEntries
<1> QED BY <1>2, <1>5

-----------------------------------------------------------------------------
(* An entry moves between sets.                                            *)

LEMMA TransferEdits ==
    ASSUME NEW doc \in Docs, NEW item \in Item, NEW to \in Sets,
           item.set # to, item.key \in KeysIn(doc[item.set])
    PROVE  /\ Transfer(doc, item, to) \in Docs
           /\ Agree(doc, Transfer(doc, item, to), {item, [set |-> to, key |-> item.key]})
           /\ Keeps(doc, Transfer(doc, item, to), to)
           /\ item.key \in KeysIn(Transfer(doc, item, to)[to])
<1> DEFINE old    == doc[item.set]
           left   == Without(old, {item.key})
           target == doc[to]
           entry  == Find(old, item.key)
           new    == Transfer(doc, item, to)
           places == {item, [set |-> to, key |-> item.key]}
<1>1. /\ item.set \in Sets /\ item.key \in Keys /\ item = [set |-> item.set, key |-> item.key]
      /\ old \in Lists /\ target \in Lists
  BY DocsOfLists DEF Item
<1>2. PICK e \in ToSet(old) : e.key = item.key
  BY <1>1, KeysOfAList
<1>3. entry = e /\ e \in Entry
  BY <1>1, <1>2, HavingOne, KeysOfLists DEF Find, Lists
<1>4. left \in Lists /\ ToSet(left) = {f \in ToSet(old) : f.key # item.key}
  BY <1>1, WithoutIsAList
<1>5. [doc EXCEPT ![item.set] = left] \in Docs /\ [doc EXCEPT ![item.set] = left][to] = target
  BY <1>1, <1>4 DEF Docs
<1>6. PICK list \in Lists :
         /\ new = [[doc EXCEPT ![item.set] = left] EXCEPT ![to] = list]
         /\ item.key \in KeysIn(list) /\ KeysIn(target) \subseteq KeysIn(list)
         /\ \A f \in Entry : f.key # item.key => (f \in ToSet(list) <=> f \in ToSet(target))
  <2>1. CASE item.key \in KeysIn(target)
    <3>1. new = [doc EXCEPT ![item.set] = left]
      BY <1>5, <2>1 DEF Transfer
    <3>2. new = [new EXCEPT ![to] = target]
      BY <1>5, <3>1 DEF Docs
    <3> QED BY <1>1, <2>1, <3>1, <3>2
  <2>2. CASE item.key \notin KeysIn(target)
    <3>1. new = [[doc EXCEPT ![item.set] = left] EXCEPT ![to] = Append(target, e)]
      BY <1>3, <1>5, <2>2 DEF Transfer
    <3>2. Append(target, e) \in Lists /\ ToSet(Append(target, e)) = ToSet(target) \cup {e}
      BY <1>1, <1>2, <1>3, <2>2, AddedToList
    <3>3. /\ item.key \in KeysIn(Append(target, e))
          /\ KeysIn(target) \subseteq KeysIn(Append(target, e))
      BY <1>1, <1>2, <3>2, KeysOfAList
    <3>4. \A f \in Entry : f.key # item.key =>
                              (f \in ToSet(Append(target, e)) <=> f \in ToSet(target))
      BY <1>2, <3>2
    <3> QED BY <3>1, <3>2, <3>3, <3>4
  <2> QED BY <2>1, <2>2
<1>7. /\ new \in Docs /\ new[item.set] = left /\ new[to] = list
      /\ \A s \in Sets \ {item.set, to} : new[s] = doc[s]
  <2> HIDE DEF new, left
  <2> QED BY <1>1, <1>4, <1>6 DEF Docs
<1> HIDE DEF new, left
<1>8. Agree(doc, new, places)
  BY <1>1, <1>4, <1>6, <1>7 DEF Agree
<1>9. Keeps(doc, new, to)
  <2> SUFFICES ASSUME NEW s \in Sets, NEW k \in KeysIn(doc[s])
               PROVE  k \in KeysIn(new[s]) \/ k \in KeysIn(new[to])
    BY DEF Keeps
  <2>1. CASE s = to
    BY <1>6, <1>7, <2>1
  <2>2. CASE s = item.set /\ k = item.key
    BY <1>6, <1>7, <2>2
  <2>3. CASE s = item.set /\ k # item.key
    <3>1. PICK f \in ToSet(old) : f.key = k
      BY <1>1, <2>3, KeysOfAList
    <3> QED BY <1>4, <1>7, <2>3, <3>1, KeysOfAList
  <2>4. CASE s # item.set /\ s # to
    BY <1>7, <2>4
  <2> QED BY <2>1, <2>2, <2>3, <2>4
<1> QED BY <1>6, <1>7, <1>8, <1>9 DEF new

LEMMA AgreeFurther ==
    ASSUME NEW doc, NEW mid, NEW new, NEW places, NEW more,
           Agree(doc, mid, places), Agree(mid, new, more), more \subseteq places
    PROVE  Agree(doc, new, places)
BY DEF Agree

LEMMA KeepsFurther ==
    ASSUME NEW doc, NEW mid, NEW new, NEW to \in Sets,
           Keeps(doc, mid, to), Keeps(mid, new, to)
    PROVE  Keeps(doc, new, to)
BY DEF Keeps

LEMMA Nothing ==
    ASSUME NEW doc, NEW places, NEW to
    PROVE  Agree(doc, doc, places) /\ Keeps(doc, doc, to)
BY DEF Agree, Keeps

LEMMA MoveEdits ==
    ASSUME NEW doc \in Docs, NEW item \in Item, NEW to \in Sets, NEW order \in Seq(Keys)
    PROVE  /\ Move(doc, item, to, order) \in Docs
           /\ Agree(doc, Move(doc, item, to, order), {item, [set |-> to, key |-> item.key]})
           /\ Keeps(doc, Move(doc, item, to, order), to)
<1> DEFINE places == {item, [set |-> to, key |-> item.key]}
           new == Move(doc, item, to, order)
<1>1. CASE item.set = to
  <2>1. new = Reorder(doc, to, order)
    BY <1>1 DEF Move
  <2>2. new \in Docs /\ Agree(doc, new, {}) /\ Keeps(doc, new, to)
    BY <2>1, ReorderEdits
  <2> HIDE DEF new, places
  <2>3. Agree(doc, new, places)
    BY <2>2 DEF Agree
  <2> QED BY <2>2, <2>3 DEF new, places
<1>2. CASE item.set # to /\ item.key \notin KeysIn(doc[item.set])
  BY <1>2, Nothing DEF Move
<1>3. CASE item.set # to /\ item.key \in KeysIn(doc[item.set])
  <2> DEFINE mid == Transfer(doc, item, to)
  <2>1. mid \in Docs /\ Agree(doc, mid, places) /\ Keeps(doc, mid, to)
    BY <1>3, TransferEdits
  <2>2. new = Reorder(mid, to, order)
    BY <1>3 DEF Move
  <2> HIDE DEF mid, new, places
  <2>3. new \in Docs /\ Agree(mid, new, {}) /\ Keeps(mid, new, to)
    BY <2>1, <2>2, ReorderEdits
  <2>4. Agree(doc, new, places)
    BY <2>1, <2>3, AgreeFurther
  <2>5. Keeps(doc, new, to)
    BY <2>1, <2>3, KeepsFurther
  <2> QED BY <2>3, <2>4, <2>5 DEF new, places
<1> QED BY <1>1, <1>2, <1>3

\* What moveBulk does about one item.
BulkStep(acc, item, to) ==
    IF item.set = to \/ item.key \notin KeysIn(acc.doc[item.set]) THEN acc
    ELSE [doc   |-> Transfer(acc.doc, item, to),
          moved |-> acc.moved \/ item.key \notin KeysIn(acc.doc[to])]

Accs == [doc : Docs, moved : BOOLEAN]

\* The places moveBulk is about.
BulkPlaces(items, to) == ToSet(items) \cup Places(to, KeysOf(items))

LEMMA BulkStepEdits ==
    ASSUME NEW acc \in Accs, NEW items \in Seq(Item), NEW n \in 1..Len(items), NEW to \in Sets
    PROVE  /\ BulkStep(acc, items[n], to) \in Accs
           /\ Agree(acc.doc, BulkStep(acc, items[n], to).doc, BulkPlaces(items, to))
           /\ Keeps(acc.doc, BulkStep(acc, items[n], to).doc, to)
<1> DEFINE item == items[n]
           places == BulkPlaces(items, to)
           new == BulkStep(acc, item, to)
<1>1. item \in Item /\ acc.doc \in Docs /\ acc.moved \in BOOLEAN
  BY ElementOfSeq DEF Accs
<1>2. {item, [set |-> to, key |-> item.key]} \subseteq places
  <2>1. item \in ToSet(items)
    BY DEF ToSet
  <2>2. item.key \in KeysOf(items)
    BY <2>1 DEF KeysOf
  <2> QED BY <2>1, <2>2 DEF BulkPlaces, Places
<1>3. CASE new = acc
  BY <1>3, Nothing
<1>4. CASE /\ item.set # to /\ item.key \in KeysIn(acc.doc[item.set])
           /\ new = [doc   |-> Transfer(acc.doc, item, to),
                     moved |-> acc.moved \/ item.key \notin KeysIn(acc.doc[to])]
  <2> DEFINE mid == Transfer(acc.doc, item, to)
  <2>1. /\ mid \in Docs /\ Keeps(acc.doc, mid, to)
        /\ Agree(acc.doc, mid, {item, [set |-> to, key |-> item.key]})
    BY <1>1, <1>4, TransferEdits
  <2>2. new \in Accs /\ new.doc = mid
    <3> HIDE DEF mid
    <3>1. new = [doc |-> mid, moved |-> acc.moved \/ item.key \notin KeysIn(acc.doc[to])]
      BY <1>4 DEF mid
    <3>2. (acc.moved \/ item.key \notin KeysIn(acc.doc[to])) \in BOOLEAN
      OBVIOUS
    <3> HIDE DEF new
    <3> QED BY <2>1, <3>1, <3>2 DEF Accs
  <2>3. Agree(acc.doc, mid, places)
    BY <1>2, <2>1 DEF Agree
  <2> HIDE DEF mid, new, places
  <2> QED BY <2>1, <2>2, <2>3 DEF new, places
<1> QED BY <1>3, <1>4 DEF BulkStep

LEMMA BulkIsDefined ==
    ASSUME NEW doc \in Docs, NEW items \in Seq(Item), NEW to \in Sets
    PROVE  \E f : f = [n \in 0..Len(items) |->
                         IF n = 0 THEN [doc |-> doc, moved |-> FALSE]
                         ELSE BulkStep(f[n - 1], items[n], to)]
<1> DEFINE step == [n \in 1..Len(items) |-> [acc \in Accs |-> BulkStep(acc, items[n], to)]]
           start == [doc |-> doc, moved |-> FALSE]
<1>1. Len(items) \in Nat /\ start \in Accs
  BY DEF Accs
<1>2. step \in [1..Len(items) -> [Accs -> Accs]]
  BY BulkStepEdits
<1> HIDE DEF start
<1>3. PICK f : LeadsOn(f, Len(items), Accs, start, step)
  <2> HIDE DEF step
  <2> QED BY <1>1, <1>2, StepByStep
<1>4. ASSUME NEW n \in 1..Len(items) PROVE f[n] = BulkStep(f[n - 1], items[n], to)
  <2>1. n - 1 \in 0..Len(items)
    BY <1>1
  <2>2. f[n - 1] \in Accs
    BY <1>3, <2>1 DEF LeadsOn
  <2> QED BY <1>3, <2>2 DEF LeadsOn
<1>5. \A n \in 0..Len(items) : n = 0 \/ n \in 1..Len(items)
  BY <1>1
<1>6. f = [n \in 0..Len(items) |-> IF n = 0 THEN start ELSE BulkStep(f[n - 1], items[n], to)]
  BY <1>3, <1>4, <1>5 DEF LeadsOn
<1> QED BY <1>6 DEF start

LEMMA MoveBulkEdits ==
    ASSUME NEW doc \in Docs, NEW items \in Seq(Item), NEW to \in Sets
    PROVE  /\ MoveBulk(doc, items, to) \in Docs
           /\ Agree(doc, MoveBulk(doc, items, to), BulkPlaces(items, to))
           /\ Keeps(doc, MoveBulk(doc, items, to), to)
<1> DEFINE E(f) == [n \in 0..Len(items) |->
                      IF n = 0 THEN [doc |-> doc, moved |-> FALSE]
                      ELSE BulkStep(f[n - 1], items[n], to)]
           upTo == CHOOSE f : f = E(f)
           places == BulkPlaces(items, to)
           G == {n \in 0..Len(items) : /\ upTo[n] \in Accs
                                       /\ Agree(doc, upTo[n].doc, places)
                                       /\ Keeps(doc, upTo[n].doc, to)}
<1>1. Len(items) \in Nat
  OBVIOUS
<1>2. upTo = E(upTo)
  <2>1. \E f : f = E(f)
    BY BulkIsDefined
  <2> HIDE DEF E
  <2> QED BY <2>1
<1>3. MoveBulk(doc, items, to) = IF upTo[Len(items)].moved THEN upTo[Len(items)].doc ELSE doc
  BY DEF MoveBulk, BulkStep
<1> HIDE DEF upTo
<1>4. 0 \in G
  <2>1. upTo[0] = [doc |-> doc, moved |-> FALSE]
    BY <1>1, <1>2
  <2>2. upTo[0] \in Accs /\ upTo[0].doc = doc
    BY <2>1 DEF Accs
  <2> QED BY <1>1, <2>2, Nothing
<1>5. ASSUME NEW n \in 1..Len(items), n - 1 \in G PROVE n \in G
  <2>1. n \in 0..Len(items) /\ n # 0
    BY <1>1
  <2>2. upTo[n] = BulkStep(upTo[n - 1], items[n], to)
    BY <1>2, <2>1
  <2> DEFINE old == upTo[n - 1]
  <2>3. old \in Accs /\ Agree(doc, old.doc, places) /\ Keeps(doc, old.doc, to)
    BY <1>5
  <2> HIDE DEF old
  <2>4. /\ upTo[n] \in Accs /\ Agree(old.doc, upTo[n].doc, places)
        /\ Keeps(old.doc, upTo[n].doc, to)
    BY <2>2, <2>3, BulkStepEdits DEF old
  <2> HIDE DEF places
  <2>5. Agree(doc, upTo[n].doc, places)
    BY <2>3, <2>4, AgreeFurther
  <2>6. Keeps(doc, upTo[n].doc, to)
    BY <2>3, <2>4, KeepsFurther
  <2> QED BY <2>1, <2>4, <2>5, <2>6
<1>6. Len(items) \in G
  <2> HIDE DEF G, places
  <2>1. \A n \in 0..Len(items) : n \in G
    BY <1>1, <1>4, <1>5, Climbing
  <2> QED BY <1>1, <2>1
<1>7. upTo[Len(items)].doc \in Docs
  BY <1>6 DEF Accs
<1> QED BY <1>3, <1>6, <1>7, Nothing

-----------------------------------------------------------------------------
(* Any operation.                                                          *)

LEMMA DeleteSetEdits ==
    ASSUME NEW doc \in Docs, NEW set \in Sets
    PROVE  /\ DeleteSet(doc, set) \in Docs
           /\ Agree(doc, DeleteSet(doc, set), [set : {set}, key : Keys])
<1> DEFINE places == [set : {set}, key : Keys]
<1>1. \A e \in Entry : [set |-> set, key |-> e.key] \in places
  BY DEF Entry
<1>2. << >> \in Lists
  BY EmptyList
<1> HIDE DEF places
<1>3. /\ [doc EXCEPT ![set] = << >>] \in Docs
      /\ Agree(doc, [doc EXCEPT ![set] = << >>], places)
  BY <1>1, <1>2, OneListReplaced
<1> QED BY <1>3 DEF DeleteSet, places

(* An operation leaves lists, and outside the places it is addressed to it *)
(* changes nothing; those that are to keep what they touch keep it.        *)
LEMMA ApplyEdits ==
    ASSUME NEW op \in Operation, NEW doc \in Docs
    PROVE  /\ Apply(op, doc) \in Docs
           /\ Agree(doc, Apply(op, doc), Addressed(op, doc))
           /\ op.kind \in {"reorder", "move", "moveBulk", "markDone", "clearDone", "rewrite"} =>
                 Keeps(doc, Apply(op, doc), op.set)
<1> DEFINE new == Apply(op, doc)
<1>1. /\ op.items \in Seq(Item) /\ op.set \in Sets /\ op.order \in Seq(Keys) /\ op.nr \in Nat
      /\ op.kind \in Kinds
      /\ op.kind \in {"add", "move"} => op.items # << >>
      /\ op.kind = "rewrite" => op.nr # 0
  BY DEF Operation
<1>2. \A j \in ToSet(op.items) : j \in Item
  BY <1>1, ElementOfSeq DEF ToSet
<1>3. KeysOf(op.items) \subseteq Keys
  BY <1>2 DEF KeysOf, Item
<1>4. ASSUME op.items # << >>
      PROVE  op.items[1] \in ToSet(op.items) /\ op.items[1].key \in KeysOf(op.items)
  <2>1. 1 \in DOMAIN op.items
    BY <1>1, <1>4
  <2> QED BY <2>1 DEF ToSet, KeysOf
<1> DEFINE others == BulkPlaces(op.items, op.set)
<1>5. Addressed(op, doc) =
         CASE op.kind \in {"sweep", "removeCompleted"} -> DoneIn(doc, op.set)
           [] op.kind = "deleteSet" -> [set : {op.set}, key : Keys]
           [] OTHER -> others
  <2>1. {[set |-> op.set, key |-> k] : k \in {e.key : e \in {f \in ToSet(doc[op.set]) : f.done}}}
           = DoneIn(doc, op.set)
    BY DEF DoneIn
  <2> QED BY <2>1 DEF Addressed, BulkPlaces, Places
<1>6. ASSUME NEW places, Agree(doc, new, places), places \subseteq others,
             op.kind \notin {"sweep", "removeCompleted", "deleteSet"}
      PROVE  Agree(doc, new, Addressed(op, doc))
  <2>1. Addressed(op, doc) = others
    BY <1>5, <1>6
  <2> HIDE DEF new, others
  <2> QED BY <1>6, <2>1 DEF Agree
<1>7. ToSet(op.items) \subseteq others /\ Places(op.set, KeysOf(op.items)) \subseteq others
  BY DEF BulkPlaces
<1>8. CASE op.kind = "add"
  <2> DEFINE key == op.items[1].key
  <2>1. key \in Keys /\ {[set |-> op.set, key |-> key]} \subseteq others
    BY <1>1, <1>3, <1>4, <1>7, <1>8 DEF Places
  <2>2. new = Add(doc, op.set, key, op.nr)
    BY <1>8 DEF Apply
  <2> HIDE DEF key, others
  <2>3. new \in Docs /\ Agree(doc, new, {[set |-> op.set, key |-> key]})
    BY <1>1, <2>1, <2>2, AddEdits
  <2> HIDE DEF new
  <2>4. Agree(doc, new, Addressed(op, doc))
    BY <1>6, <1>8, <2>1, <2>3
  <2> QED BY <1>8, <2>3, <2>4 DEF new
<1>9. CASE op.kind = "remove"
  <2>1. new = RemoveItems(doc, op.items)
    BY <1>9 DEF Apply
  <2>2. new \in Docs /\ Agree(doc, new, ToSet(op.items))
    BY <1>1, <2>1, RemoveEdits
  <2> HIDE DEF new, others
  <2>3. Agree(doc, new, Addressed(op, doc))
    BY <1>6, <1>7, <1>9, <2>2
  <2> QED BY <1>9, <2>2, <2>3 DEF new
<1>10. CASE op.kind = "removeCompleted"
  <2>1. new = RemoveCompleted(doc, op.set) /\ Addressed(op, doc) = DoneIn(doc, op.set)
    BY <1>5, <1>10 DEF Apply
  <2> QED BY <1>1, <1>10, <2>1, RemoveCompletedEdits
<1>11. CASE op.kind = "sweep"
  <2>1. new = Sweep(doc, op.set, op.nr) /\ Addressed(op, doc) = DoneIn(doc, op.set)
    BY <1>5, <1>11 DEF Apply
  <2> QED BY <1>1, <1>11, <2>1, SweepEdits
<1>12. CASE op.kind = "reorder"
  <2>1. new = Reorder(doc, op.set, op.order)
    BY <1>12 DEF Apply
  <2>2. new \in Docs /\ Agree(doc, new, {}) /\ Keeps(doc, new, op.set)
    BY <1>1, <2>1, ReorderEdits
  <2> HIDE DEF new, others
  <2>3. Agree(doc, new, Addressed(op, doc))
    BY <1>6, <1>12, <2>2
  <2> QED BY <2>2, <2>3 DEF new
<1>13. CASE op.kind = "move"
  <2> DEFINE item == op.items[1]
  <2>1. item \in Item /\ {item, [set |-> op.set, key |-> item.key]} \subseteq others
    BY <1>1, <1>2, <1>4, <1>7, <1>13 DEF Places
  <2>2. new = Move(doc, item, op.set, op.order)
    BY <1>13 DEF Apply
  <2> HIDE DEF item, others
  <2>3. /\ new \in Docs /\ Agree(doc, new, {item, [set |-> op.set, key |-> item.key]})
        /\ Keeps(doc, new, op.set)
    BY <1>1, <2>1, <2>2, MoveEdits
  <2> HIDE DEF new
  <2>4. Agree(doc, new, Addressed(op, doc))
    BY <1>6, <1>13, <2>1, <2>3
  <2> QED BY <2>3, <2>4 DEF new
<1>14. CASE op.kind = "moveBulk"
  <2>1. new = MoveBulk(doc, op.items, op.set)
    BY <1>14 DEF Apply
  <2>2. new \in Docs /\ Agree(doc, new, others) /\ Keeps(doc, new, op.set)
    BY <1>1, <2>1, MoveBulkEdits
  <2> HIDE DEF new, others
  <2>3. Agree(doc, new, Addressed(op, doc))
    BY <1>6, <1>14, <2>2
  <2> QED BY <2>2, <2>3 DEF new
<1>15. CASE op.kind = "markDone"
  <2>1. new = MarkDone(doc, op.set, KeysOf(op.items), op.nr)
    BY <1>15 DEF Apply
  <2>2. /\ new \in Docs /\ Agree(doc, new, Places(op.set, KeysOf(op.items)))
        /\ Keeps(doc, new, op.set)
    BY <1>1, <2>1, MarkDoneEdits
  <2> HIDE DEF new, others
  <2>3. Agree(doc, new, Addressed(op, doc))
    BY <1>6, <1>7, <1>15, <2>2
  <2> QED BY <2>2, <2>3 DEF new
<1>16. CASE op.kind = "clearDone"
  <2>1. new = ClearDone(doc, op.set, KeysOf(op.items))
    BY <1>16 DEF Apply
  <2>2. /\ new \in Docs /\ Agree(doc, new, Places(op.set, KeysOf(op.items)))
        /\ Keeps(doc, new, op.set)
    BY <1>1, <2>1, ClearDoneEdits
  <2> HIDE DEF new, others
  <2>3. Agree(doc, new, Addressed(op, doc))
    BY <1>6, <1>7, <1>16, <2>2
  <2> QED BY <2>2, <2>3 DEF new
<1>17. CASE op.kind = "rewrite"
  <2>1. new = Rewrite(doc, op.set, KeysOf(op.items), op.nr)
    BY <1>17 DEF Apply
  <2>2. /\ new \in Docs /\ Agree(doc, new, Places(op.set, KeysOf(op.items)))
        /\ Keeps(doc, new, op.set)
    BY <1>1, <1>17, <2>1, RewriteEdits
  <2> HIDE DEF new, others
  <2>3. Agree(doc, new, Addressed(op, doc))
    BY <1>6, <1>7, <1>17, <2>2
  <2> QED BY <2>2, <2>3 DEF new
<1>18. CASE op.kind = "deleteSet"
  <2>1. /\ new = DeleteSet(doc, op.set)
        /\ Addressed(op, doc) = [set : {op.set}, key : Keys]
    BY <1>5, <1>18 DEF Apply
  <2> QED BY <1>1, <1>18, <2>1, DeleteSetEdits
<1> QED BY <1>1, <1>8, <1>9, <1>10, <1>11, <1>12, <1>13, <1>14, <1>15, <1>16, <1>17, <1>18 DEF Kinds

LEMMA EditsInPlace ==
    ASSUME NEW op \in Operation, NEW doc \in Docs
    PROVE  /\ \A item \in Item \ Addressed(op, doc) :
                 EntriesAt(Apply(op, doc), item) = EntriesAt(doc, item)
           /\ op.kind \in {"reorder", "move", "moveBulk", "markDone", "clearDone", "rewrite"} =>
                 \A item \in ToSet(op.items) : EntriesAt(doc, item) # << >> =>
                    \E set \in {item.set, op.set} : item.key \in KeysIn(Apply(op, doc)[set])
<1> DEFINE new == Apply(op, doc)
<1>1. new \in Docs /\ Agree(doc, new, Addressed(op, doc))
  BY ApplyEdits
<1>2. op.kind \in {"reorder", "move", "moveBulk", "markDone", "clearDone", "rewrite"} =>
         Keeps(doc, new, op.set)
  BY ApplyEdits
<1>3. \A item \in ToSet(op.items) : item \in Item
  BY ElementOfSeq DEF ToSet, Operation
<1> HIDE DEF new
<1>4. ASSUME NEW item \in Item \ Addressed(op, doc)
      PROVE  EntriesAt(new, item) = EntriesAt(doc, item)
  <2>1. item.set \in Sets /\ item = [set |-> item.set, key |-> item.key]
    BY DEF Item
  <2>2. doc[item.set] \in Lists /\ new[item.set] \in Lists
    BY <1>1, <2>1, DocsOfLists
  <2>3. \A e \in Entry : e.key = item.key =>
                            (e \in ToSet(new[item.set]) <=> e \in ToSet(doc[item.set]))
    BY <1>1, <2>1 DEF Agree
  <2> QED BY <2>2, <2>3, HavingTheSame DEF EntriesAt
<1>5. ASSUME Keeps(doc, new, op.set), NEW item \in ToSet(op.items), EntriesAt(doc, item) # << >>
      PROVE  \E set \in {item.set, op.set} : item.key \in KeysIn(new[set])
  <2>1. item.set \in Sets
    BY <1>3 DEF Item
  <2>2. doc[item.set] \in Lists
    BY <2>1, DocsOfLists
  <2>3. item.key \in KeysIn(doc[item.set])
    BY <1>5, <2>2, HavingOne DEF EntriesAt
  <2> QED BY <1>5, <2>1, <2>3 DEF Keeps
<1> QED BY <1>2, <1>4, <1>5 DEF new

-----------------------------------------------------------------------------
(* What flags and sweeps do to the entries of their set.                   *)

LEMMA MarkedEntries ==
    ASSUME NEW doc \in Docs, NEW set \in Sets, NEW keys, NEW now, NEW new,
           new = MarkDone(doc, set, keys, now)
    PROVE  /\ \A s \in Sets \ {set} : new[s] = doc[s]
           /\ \A e \in ToSet(doc[set]) : e.key \notin keys => e \in ToSet(new[set])
           /\ \A e \in ToSet(new[set]) :
                 \/ e \in ToSet(doc[set]) /\ (e.key \in keys => e.done)
                 \/ e.key \in keys /\ e.done /\ e.at = now
<1> DEFINE Marked(e) == IF e.done /\ e.at # 0 THEN e ELSE [e EXCEPT !.done = TRUE, !.at = now]
           list == [i \in DOMAIN doc[set] |->
                      IF doc[set][i].key \in keys THEN Marked(doc[set][i]) ELSE doc[set][i]]
<1>1. new = [doc EXCEPT ![set] = list]
  BY DEF MarkDone, Change
<1>2. ASSUME NEW e \in Entry
      PROVE  \/ Marked(e) = e /\ e.done
             \/ Marked(e).key = e.key /\ Marked(e).done /\ Marked(e).at = now
  BY DEF Entry
<1> HIDE DEF Marked
<1>3. \A i \in DOMAIN doc[set] : doc[set][i].key \notin keys => list[i] = doc[set][i]
  OBVIOUS
<1>4. \A i \in DOMAIN doc[set] :
         \/ list[i] \in ToSet(doc[set]) /\ (list[i].key \in keys => list[i].done)
         \/ list[i].key \in keys /\ list[i].done /\ list[i].at = now
  <2> SUFFICES ASSUME NEW i \in DOMAIN doc[set]
               PROVE  \/ list[i] \in ToSet(doc[set]) /\ (list[i].key \in keys => list[i].done)
                      \/ list[i].key \in keys /\ list[i].done /\ list[i].at = now
    OBVIOUS
  <2> DEFINE e == doc[set][i]
  <2>1. e \in Entry /\ e \in ToSet(doc[set])
    BY EntriesOfDocs DEF ToSet
  <2>2. list[i] = IF e.key \in keys THEN Marked(e) ELSE e
    OBVIOUS
  <2> HIDE DEF e, list
  <2> QED BY <1>2, <2>1, <2>2
<1>5. DOMAIN list = DOMAIN doc[set]
  OBVIOUS
<1> HIDE DEF list
<1>6. /\ \A s \in Sets \ {set} : new[s] = doc[s]
      /\ \A e \in ToSet(doc[set]) : e.key \notin keys => e \in ToSet(new[set])
      /\ \A e \in ToSet(new[set]) : \E i \in DOMAIN doc[set] : e = list[i]
  BY <1>1, <1>3, <1>5 DEF ToSet, Docs
<1> QED BY <1>4, <1>6

LEMMA ClearedEntries ==
    ASSUME NEW doc \in Docs, NEW set \in Sets, NEW keys, NEW new,
           new = ClearDone(doc, set, keys)
    PROVE  /\ \A s \in Sets \ {set} : new[s] = doc[s]
           /\ \A e \in ToSet(doc[set]) : e.key \notin keys => e \in ToSet(new[set])
           /\ \A e \in ToSet(new[set]) : \/ e \in ToSet(doc[set]) /\ e.key \notin keys
                                         \/ e.key \in keys /\ ~e.done
<1> DEFINE Cleared(e) == [e EXCEPT !.done = FALSE, !.at = 0]
           list == [i \in DOMAIN doc[set] |->
                      IF doc[set][i].key \in keys THEN Cleared(doc[set][i]) ELSE doc[set][i]]
<1>1. new = [doc EXCEPT ![set] = list]
  BY DEF ClearDone, Change
<1>2. \A e \in Entry : Cleared(e).key = e.key /\ ~Cleared(e).done
  BY DEF Entry
<1> HIDE DEF Cleared
<1>3. \A i \in DOMAIN doc[set] : doc[set][i].key \notin keys => list[i] = doc[set][i]
  OBVIOUS
<1>4. \A i \in DOMAIN doc[set] : \/ list[i] \in ToSet(doc[set]) /\ list[i].key \notin keys
                                 \/ list[i].key \in keys /\ ~list[i].done
  <2> SUFFICES ASSUME NEW i \in DOMAIN doc[set]
               PROVE  \/ list[i] \in ToSet(doc[set]) /\ list[i].key \notin keys
                      \/ list[i].key \in keys /\ ~list[i].done
    OBVIOUS
  <2> DEFINE e == doc[set][i]
  <2>1. e \in Entry /\ e \in ToSet(doc[set])
    BY EntriesOfDocs DEF ToSet
  <2>2. list[i] = IF e.key \in keys THEN Cleared(e) ELSE e
    OBVIOUS
  <2> HIDE DEF e, list
  <2> QED BY <1>2, <2>1, <2>2
<1>5. DOMAIN list = DOMAIN doc[set]
  OBVIOUS
<1> HIDE DEF list
<1>6. /\ \A s \in Sets \ {set} : new[s] = doc[s]
      /\ \A e \in ToSet(doc[set]) : e.key \notin keys => e \in ToSet(new[set])
      /\ \A e \in ToSet(new[set]) : \E i \in DOMAIN doc[set] : e = list[i]
  BY <1>1, <1>3, <1>5 DEF ToSet, Docs
<1> QED BY <1>4, <1>6

LEMMA SweptEntries ==
    ASSUME NEW doc \in Docs, NEW set \in Sets, NEW limit, NEW new, new = Sweep(doc, set, limit)
    PROVE  /\ \A s \in Sets \ {set} : new[s] = doc[s]
           /\ ToSet(new[set]) = {e \in ToSet(doc[set]) : ~IsAged(e, limit)}
<1> DEFINE places == {i \in DOMAIN doc[set] : ~IsAged(doc[set][i], limit)}
           list == Picked(doc[set], places)
<1>1. new = [doc EXCEPT ![set] = list]
  BY DEF Sweep
<1>2. doc[set] \in Lists
  BY DocsOfLists
<1>3. {doc[set][p] : p \in places \cap DOMAIN doc[set]} = {e \in ToSet(doc[set]) : ~IsAged(e, limit)}
  BY DEF ToSet
<1> HIDE DEF places
<1>4. ToSet(list) = {e \in ToSet(doc[set]) : ~IsAged(e, limit)}
  BY <1>2, <1>3, PickedIsAList
<1> HIDE DEF list
<1> QED BY <1>1, <1>4 DEF Docs
==============================================================================
