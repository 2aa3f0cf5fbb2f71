---------------------------- MODULE MinzipProofs ----------------------------
(* minzip, whatever it is given.  The hash table answers as a set, for     *)
(* every set of items, whatever their hash values, every initial size and  *)
(* any number of calls.  An archive is sorted and searched right, unpacked *)
(* into any tree with any calls failing, and any tree is taken down or     *)
(* gets its owner, as the callers rely on.                                 *)
EXTENDS TableCalls, Archive, FiniteSetTheorems, SequenceTheorems, TLAPS

-----------------------------------------------------------------------------
(* Induction: what a recursive function on the numbers computes is shown   *)
(* with the least number at which it would be wrong.                       *)

LEMMA LeastNumber ==
    ASSUME NEW S \in SUBSET Nat, S # {}
    PROVE  \E m \in S : \A k \in S : m <= k
<1> DEFINE R == OpToRel(<, Nat)
<1>1. IsWellFoundedOn(R, Nat)
  BY NatLessThanWellFounded
<1>2. ASSUME NEW x \in Nat, NEW y \in Nat, x < y PROVE <<x, y>> \in R
  BY <1>2 DEF OpToRel
<1> HIDE DEF R
<1>3. PICK x \in S : \A y \in S : ~(<<y, x>> \in R)
  BY <1>1, WFMin
<1>4. ASSUME NEW y \in S PROVE x <= y
  <2>1. ~(y < x)
    BY <1>2, <1>3
  <2> QED BY <2>1
<1> QED BY <1>4

\* A set that has 0 and with every number the next one has all of them.
LEMMA Induction ==
    ASSUME NEW S, 0 \in S, \A n \in Nat : n \in S => n + 1 \in S
    PROVE  Nat \subseteq S
<1> SUFFICES ASSUME ~(Nat \subseteq S) PROVE FALSE
  OBVIOUS
<1>1. Nat \ S # {} /\ Nat \ S \in SUBSET Nat
  OBVIOUS
<1>2. PICK m \in Nat \ S : \A k \in Nat \ S : m <= k
  BY <1>1, LeastNumber
<1>3. m # 0
  OBVIOUS
<1>4. m - 1 \in Nat
  BY <1>3
<1>5. m - 1 \in S
  <2>1. ~(m <= m - 1)
    OBVIOUS
  <2> QED BY <1>2, <1>4, <2>1
<1>6. (m - 1) + 1 = m
  OBVIOUS
<1> QED BY <1>4, <1>5, <1>6

\* The first n values of the function with this start and this step.
Begins(V, b, step, n, g) ==
    /\ g \in [0 .. n -> V]
    /\ g[0] = b
    /\ \A m \in Nat : m < n => g[m + 1] = step[m][g[m]]

LEMMA BeginsAgree ==
    ASSUME NEW V, NEW b \in V, NEW step, NEW n \in Nat, NEW p \in Nat, NEW g, NEW h,
           Begins(V, b, step, n, g), Begins(V, b, step, p, h)
    PROVE  \A m \in Nat : m <= n /\ m <= p => g[m] = h[m]
<1> DEFINE S == {m \in Nat : m <= n /\ m <= p => g[m] = h[m]}
<1>1. 0 \in S
  BY DEF Begins
<1>2. ASSUME NEW m \in Nat, m \in S PROVE m + 1 \in S
  <2> SUFFICES ASSUME m + 1 <= n, m + 1 <= p PROVE g[m + 1] = h[m + 1]
    OBVIOUS
  <2>1. m <= n /\ m <= p /\ m < n /\ m < p
    OBVIOUS
  <2>2. g[m] = h[m]
    BY <1>2, <2>1
  <2> QED BY <2>1, <2>2 DEF Begins
<1> HIDE DEF S
<1>3. Nat \subseteq S
  BY <1>1, <1>2, Induction
<1> QED BY <1>3 DEF S

LEMMA BeginsExists ==
    ASSUME NEW V, NEW b \in V, NEW step \in [Nat -> [V -> V]]
    PROVE  \A n \in Nat : \E g : Begins(V, b, step, n, g)
<1> DEFINE S == {n \in Nat : \E g : Begins(V, b, step, n, g)}
<1>1. 0 \in S
  <2>1. Begins(V, b, step, 0, [m \in 0 .. 0 |-> b])
    BY DEF Begins
  <2> QED BY <2>1
<1>2. ASSUME NEW n \in Nat, n \in S PROVE n + 1 \in S
  <2>1. PICK g : Begins(V, b, step, n, g)
    BY <1>2
  <2> DEFINE h == [m \in 0 .. n + 1 |-> IF m <= n THEN g[m] ELSE step[n][g[n]]]
  <2>2. g \in [0 .. n -> V] /\ g[n] \in V
    BY <2>1 DEF Begins
  <2>3. step[n][g[n]] \in V
    BY <2>2
  <2>4. h \in [0 .. n + 1 -> V]
    BY <2>2, <2>3
  <2>5. h[0] = b
    BY <2>1 DEF Begins
  <2>6. ASSUME NEW m \in Nat, m < n + 1 PROVE h[m + 1] = step[m][h[m]]
    <3>1. CASE m < n
      BY <2>1, <3>1 DEF Begins
    <3>2. CASE m = n
      BY <3>2
    <3> QED BY <2>6, <3>1, <3>2
  <2> HIDE DEF h
  <2>7. Begins(V, b, step, n + 1, h)
    BY <2>4, <2>5, <2>6 DEF Begins
  <2> QED BY <2>7
<1> HIDE DEF S
<1>3. Nat \subseteq S
  BY <1>1, <1>2, Induction
<1> QED BY <1>3 DEF S

\* f is the function on the numbers with this start and this step.
Iterates(f, V, b, step) ==
    /\ f \in [Nat -> V]
    /\ f[0] = b
    /\ \A n \in Nat : f[n + 1] = step[n][f[n]]

\* Every start and step of these types have one.
LEMMA Iteration ==
    ASSUME NEW V, NEW b \in V, NEW step \in [Nat -> [V -> V]]
    PROVE  \E f : Iterates(f, V, b, step)
<1> DEFINE G(n) == CHOOSE g : Begins(V, b, step, n, g)
           f == [n \in Nat |-> G(n)[n]]
<1>1. ASSUME NEW n \in Nat PROVE Begins(V, b, step, n, G(n))
  BY BeginsExists
<1> HIDE DEF G
<1>2. f \in [Nat -> V]
  <2>1. ASSUME NEW n \in Nat PROVE G(n)[n] \in V
    BY <1>1 DEF Begins
  <2> QED BY <2>1
<1>3. f[0] = b
  BY <1>1 DEF Begins
<1>4. ASSUME NEW n \in Nat PROVE f[n + 1] = step[n][f[n]]
  <2>1. Begins(V, b, step, n, G(n)) /\ Begins(V, b, step, n + 1, G(n + 1))
    BY <1>1
  <2>2. G(n)[n] = G(n + 1)[n]
    BY <2>1, BeginsAgree
  <2>3. G(n + 1)[n + 1] = step[n][G(n + 1)[n]]
    BY <2>1 DEF Begins
  <2> QED BY <2>2, <2>3
<1> HIDE DEF f
<1> QED BY <1>2, <1>3, <1>4 DEF Iterates

LEMMA MinIs ==
    ASSUME NEW S \in SUBSET Nat, S # {}
    PROVE  Min(S) \in S /\ \A k \in S : Min(S) <= k
<1>1. \E m \in S : \A k \in S : m <= k
  BY LeastNumber
<1> QED BY <1>1 DEF Min

-----------------------------------------------------------------------------
(* The size of a new table.                                                *)

LEMMA PowerIs ==
    /\ PowerOf2 \in [Nat -> Nat]
    /\ PowerOf2[0] = 1
    /\ \A n \in Nat : PowerOf2[n + 1] = 2 * PowerOf2[n]
<1> DEFINE step == [n \in Nat |-> [x \in Nat |-> 2 * x]]
<1>1. step \in [Nat -> [Nat -> Nat]]
  OBVIOUS
<1>2. \A n, x \in Nat : step[n][x] = 2 * x
  OBVIOUS
<1> HIDE DEF step
<1>3. PICK f : Iterates(f, Nat, 1, step)
  <2>1. 1 \in Nat
    OBVIOUS
  <2> QED BY <1>1, <2>1, Iteration, Zenon
<1>4. f = [e \in Nat |-> IF e = 0 THEN 1 ELSE 2 * f[e - 1]]
  <2>1. ASSUME NEW e \in Nat, e # 0 PROVE f[e] = 2 * f[e - 1]
    <3>1. e - 1 \in Nat /\ (e - 1) + 1 = e
      BY <2>1
    <3> QED BY <1>2, <1>3, <3>1 DEF Iterates
  <2> QED BY <1>3, <2>1 DEF Iterates
<1>5. PowerOf2 = [e \in Nat |-> IF e = 0 THEN 1 ELSE 2 * PowerOf2[e - 1]]
  BY <1>4 DEF PowerOf2
<1>6. PowerOf2[0] = 1 /\ \A n \in Nat : PowerOf2[n + 1] = 2 * PowerOf2[n]
  BY <1>5
<1>7. PowerOf2 \in [Nat -> Nat]
  <2> DEFINE S == {n \in Nat : PowerOf2[n] \in Nat}
  <2>1. 0 \in S /\ \A n \in Nat : n \in S => n + 1 \in S
    BY <1>6
  <2> HIDE DEF S
  <2>2. Nat \subseteq S
    BY <2>1, Induction
  <2>3. \A n \in Nat : PowerOf2[n] \in Nat
    BY <2>2 DEF S
  <2> QED BY <1>5, <2>3
<1> QED BY <1>6, <1>7

\* A power of two lies between a number and its double.
LEMMA RoundUpIs ==
    ASSUME NEW n \in Nat \ {0}
    PROVE  RoundUpPower2(n) \in Nat /\ n <= RoundUpPower2(n) /\ RoundUpPower2(n) <= 2 * n
<1> DEFINE S == {m \in Nat : m >= 1 => \E e \in 0 .. m : m <= PowerOf2[e] /\ PowerOf2[e] <= 2 * m}
<1>1. 0 \in S
  OBVIOUS
<1>2. ASSUME NEW m \in Nat, m \in S PROVE m + 1 \in S
  <2>1. CASE m = 0
    <3>1. 1 <= PowerOf2[0] /\ PowerOf2[0] <= 2
      BY PowerIs
    <3> QED BY <2>1, <3>1
  <2>2. CASE m >= 1
    <3>1. PICK e \in 0 .. m : m <= PowerOf2[e] /\ PowerOf2[e] <= 2 * m
      BY <1>2, <2>2
    <3>2. PowerOf2[e] \in Nat /\ PowerOf2[e + 1] = 2 * PowerOf2[e]
      BY PowerIs
    <3>3. CASE m = PowerOf2[e]
      <4>1. m + 1 <= PowerOf2[e + 1] /\ PowerOf2[e + 1] <= 2 * (m + 1)
        BY <2>2, <3>2, <3>3
      <4>2. e + 1 \in 0 .. m + 1
        OBVIOUS
      <4> QED BY <4>1, <4>2
    <3>4. CASE m # PowerOf2[e]
      <4>1. m + 1 <= PowerOf2[e] /\ PowerOf2[e] <= 2 * (m + 1)
        BY <3>1, <3>2, <3>4
      <4>2. e \in 0 .. m + 1
        OBVIOUS
      <4> QED BY <4>1, <4>2
    <3> QED BY <3>3, <3>4
  <2> QED BY <2>1, <2>2
<1> HIDE DEF S
<1>3. n \in S
  BY <1>1, <1>2, Induction
<1>4. PICK e \in 0 .. n : n <= PowerOf2[e] /\ PowerOf2[e] <= 2 * n
  BY <1>3 DEF S
<1> DEFINE T == {PowerOf2[d] : d \in 0 .. n} \cap n .. 2 * n
<1>5. PowerOf2[e] \in T
  BY <1>4, PowerIs
<1>6. T \in SUBSET Nat
  OBVIOUS
<1>7. \A x \in T : n <= x /\ x <= 2 * n
  OBVIOUS
<1> HIDE DEF T
<1>8. Min(T) \in T
  BY <1>5, <1>6, MinIs
<1>9. RoundUpPower2(n) = Min(T)
  BY DEF RoundUpPower2, T
<1> QED BY <1>6, <1>7, <1>8, <1>9

-----------------------------------------------------------------------------
(* The slots round the table.                                              *)

\* The slot d places behind the home of h.
Place(h, s, d) == (h + d) % s

LEMMA PlaceType ==
    ASSUME NEW s \in Nat \ {0}, NEW h \in Nat, NEW d \in Nat
    PROVE  Place(h, s, d) \in 0 .. s - 1
BY DEF Place

\* How far slot i is behind the home of h.
Way(h, s, i) == (i - h) % s

LEMMA WayIs ==
    ASSUME NEW s \in Nat \ {0}, NEW h \in Nat, NEW i \in 0 .. s - 1
    PROVE  Way(h, s, i) \in 0 .. s - 1 /\ Place(h, s, Way(h, s, i)) = i
BY DEF Place, Way

LEMMA PlacesDiffer ==
    ASSUME NEW s \in Nat \ {0}, NEW h \in Nat, NEW d \in 0 .. s - 1, NEW e \in 0 .. s - 1,
           Place(h, s, d) = Place(h, s, e)
    PROVE  d = e
<1> DEFINE p == (h + d) \div s
           q == (h + e) \div s
           r == Place(h, s, d)
<1>1. p \in Int /\ q \in Int /\ r \in Int
  BY DEF Place
<1>2. h + d = s * p + r /\ h + e = s * q + r
  BY DEF Place
<1> HIDE DEF p, q, r
<1>3. d - e = s * p - s * q
  BY <1>1, <1>2
<1>4. d - e < s /\ e - d < s
  OBVIOUS
<1>5. CASE p = q
  BY <1>1, <1>3, <1>5
<1>6. CASE p >= q + 1
  <2>1. s * p >= s * (q + 1) /\ s * (q + 1) = s * q + s
    BY <1>1, <1>6
  <2> QED BY <1>1, <1>3, <1>4, <2>1
<1>7. CASE q >= p + 1
  <2>1. s * q >= s * (p + 1) /\ s * (p + 1) = s * p + s
    BY <1>1, <1>7
  <2> QED BY <1>1, <1>3, <1>4, <2>1
<1> QED BY <1>1, <1>5, <1>6, <1>7
-----------------------------------------------------------------------------
(* The slots and the items they hold.                                      *)

\* What a set of items must be for the table: the caller's comparison takes two
\* of them for the same only if they are.
IsKeys(K) ==
    /\ \A k \in K : k.hash \in Nat
    /\ \A k, l \in K : k.name = l.name /\ k.hash = l.hash => k = l

SlotValues(K) == {Empty, Tombstone} \cup {Slot(k, k.hash) : k \in K}

Full(slots) == {i \in DOMAIN slots : slots[i].kind = "item"}
Dead(slots) == {i \in DOMAIN slots : slots[i] = Tombstone}

\* No slot that a probe for h comes to before slot i is empty.
Reached(slots, s, h, i) ==
    \A d \in 0 .. s - 1 : d < Way(h, s, i) => slots[Place(h, s, d)] # Empty

\* A table of s slots that holds the items of its, each once and where a probe
\* for it comes by.
Holds(K, slots, s, its) ==
    /\ slots \in [0 .. s - 1 -> SlotValues(K)]
    /\ {slots[i].item : i \in Full(slots)} = its
    /\ \A i, j \in Full(slots) : slots[i].item = slots[j].item => i = j
    /\ \A i \in Full(slots) : Reached(slots, s, slots[i].hash, i)

LEMMA KeyIs == ASSUME NEW K, IsKeys(K), NEW k \in K PROVE k.hash \in Nat
BY DEF IsKeys

LEMMA KeysEqual ==
    ASSUME NEW K, IsKeys(K), NEW k \in K, NEW l \in K, k.name = l.name, k.hash = l.hash
    PROVE  k = l
BY DEF IsKeys

LEMMA SlotIs ==
    ASSUME NEW k, NEW h
    PROVE  /\ Slot(k, h).kind = "item" /\ Slot(k, h).item = k /\ Slot(k, h).hash = h
           /\ Slot(k, h) # Empty /\ Slot(k, h) # Tombstone
BY DEF Slot, Empty, Tombstone

LEMMA KindIs ==
    ASSUME NEW K
    PROVE  /\ Empty.kind = "empty" /\ Tombstone.kind = "tombstone"
           /\ Empty \in SlotValues(K) /\ Tombstone \in SlotValues(K) /\ Empty # Tombstone
BY DEF Empty, Tombstone, SlotValues

\* A slot that is neither empty nor a tombstone holds a key with its hash value.
LEMMA SlotValueIs ==
    ASSUME NEW K, IsKeys(K), NEW v \in SlotValues(K)
    PROVE  /\ v.kind = "item" <=> v # Empty /\ v # Tombstone
           /\ v.kind = "item" => v.item \in K /\ v.hash = v.item.hash
                                 /\ v.hash \in Nat /\ v = Slot(v.item, v.item.hash)
<1>1. CASE v = Empty
  BY <1>1, KindIs
<1>2. CASE v = Tombstone
  BY <1>2, KindIs
<1>3. CASE \E k \in K : v = Slot(k, k.hash)
  <2>1. PICK k \in K : v = Slot(k, k.hash)
    BY <1>3
  <2> QED BY <2>1, SlotIs, KeyIs
<1> QED BY <1>1, <1>2, <1>3 DEF SlotValues

LEMMA KeySlot == ASSUME NEW K, NEW k \in K PROVE Slot(k, k.hash) \in SlotValues(K)
BY DEF SlotValues

-----------------------------------------------------------------------------
(* Probing.                                                                *)

\* Where a probe that can stop does stop.
LEMMA ProbeStops ==
    ASSUME NEW s \in Nat \ {0}, NEW h \in Nat, NEW slots, NEW wanted,
           NEW i \in 0 .. s - 1, slots[i] \in {Empty} \cup wanted
    PROVE  \E d \in 0 .. s - 1 :
              /\ Probe(slots, s, h, wanted) = Place(h, s, d)
              /\ slots[Place(h, s, d)] \in {Empty} \cup wanted
              /\ \A e \in 0 .. s - 1 : e < d => slots[Place(h, s, e)] \notin {Empty} \cup wanted
<1> DEFINE stops == {d \in 0 .. s - 1 : slots[Place(h, s, d)] \in {Empty} \cup wanted}
<1>1. Way(h, s, i) \in stops
  BY WayIs
<1>2. stops \in SUBSET Nat
  OBVIOUS
<1>3. Probe(slots, s, h, wanted) = Place(h, s, Min(stops))
  BY <1>1 DEF Probe, Place
<1>4. Min(stops) \in stops /\ \A e \in stops : Min(stops) <= e
  <2> HIDE DEF stops
  <2> QED BY <1>1, <1>2, MinIs
<1>5. ASSUME NEW e \in 0 .. s - 1, e < Min(stops)
      PROVE  slots[Place(h, s, e)] \notin {Empty} \cup wanted
  <2>1. e \notin stops
    <3>1. ~(Min(stops) <= e)
      BY <1>2, <1>4, <1>5
    <3> HIDE DEF stops
    <3> QED BY <1>4, <3>1
  <2> QED BY <2>1
<1> QED BY <1>3, <1>4, <1>5

\* A probe for what is not there ends at an empty slot, the first on its way.
LEMMA ProbeMisses ==
    ASSUME NEW s \in Nat \ {0}, NEW h \in Nat, NEW slots, NEW wanted,
           NEW i \in 0 .. s - 1, slots[i] = Empty,
           \A j \in 0 .. s - 1 : slots[j] \notin wanted
    PROVE  LET p == Probe(slots, s, h, wanted)
           IN  p \in 0 .. s - 1 /\ slots[p] = Empty /\ Reached(slots, s, h, p)
<1>1. PICK d \in 0 .. s - 1 :
              /\ Probe(slots, s, h, wanted) = Place(h, s, d)
              /\ slots[Place(h, s, d)] \in {Empty} \cup wanted
              /\ \A e \in 0 .. s - 1 : e < d => slots[Place(h, s, e)] \notin {Empty} \cup wanted
  BY ProbeStops
<1>2. Place(h, s, d) \in 0 .. s - 1
  BY PlaceType
<1>3. Way(h, s, Place(h, s, d)) = d
  BY <1>2, WayIs, PlacesDiffer
<1> QED BY <1>1, <1>2, <1>3 DEF Reached

\* A probe for what one slot holds ends there.
LEMMA ProbeFinds ==
    ASSUME NEW s \in Nat \ {0}, NEW h \in Nat, NEW slots, NEW wanted,
           NEW i \in 0 .. s - 1, Reached(slots, s, h, i),
           \A j \in 0 .. s - 1 : slots[j] \in wanted <=> j = i
    PROVE  Probe(slots, s, h, wanted) = i
<1>1. PICK d \in 0 .. s - 1 :
              /\ Probe(slots, s, h, wanted) = Place(h, s, d)
              /\ slots[Place(h, s, d)] \in {Empty} \cup wanted
              /\ \A e \in 0 .. s - 1 : e < d => slots[Place(h, s, e)] \notin {Empty} \cup wanted
  BY ProbeStops
<1>2. Way(h, s, i) \in 0 .. s - 1 /\ Place(h, s, Way(h, s, i)) = i
  BY WayIs
<1>3. Place(h, s, d) \in 0 .. s - 1
  <2>1. d \in Nat
    OBVIOUS
  <2> QED BY <2>1, PlaceType
<1>4. CASE d < Way(h, s, i)
  BY <1>1, <1>3, <1>4 DEF Reached
<1>5. CASE Way(h, s, i) < d
  BY <1>1, <1>2, <1>5
<1>6. CASE d = Way(h, s, i)
  BY <1>1, <1>2, <1>6
<1> QED BY <1>2, <1>4, <1>5, <1>6
-----------------------------------------------------------------------------
(* One slot changes.                                                       *)

LEMMA HoldsType ==
    ASSUME NEW K, IsKeys(K), NEW s \in Nat \ {0}, NEW slots, NEW its, Holds(K, slots, s, its)
    PROVE  /\ DOMAIN slots = 0 .. s - 1
           /\ \A i \in 0 .. s - 1 : slots[i] \in SlotValues(K)
           /\ its \subseteq K
           /\ \A k \in its : \E i \in Full(slots) : slots[i] = Slot(k, k.hash)
           /\ \A i \in Full(slots) : /\ slots[i].item \in its
                                    /\ slots[i] = Slot(slots[i].item, slots[i].item.hash)
                                    /\ slots[i].hash = slots[i].item.hash
<1>1. DOMAIN slots = 0 .. s - 1 /\ \A i \in 0 .. s - 1 : slots[i] \in SlotValues(K)
  BY DEF Holds
<1>2. ASSUME NEW i \in Full(slots)
      PROVE  /\ slots[i].item \in its /\ slots[i].item \in K
             /\ slots[i] = Slot(slots[i].item, slots[i].item.hash)
             /\ slots[i].hash = slots[i].item.hash
  <2>1. slots[i] \in SlotValues(K) /\ slots[i].kind = "item"
    BY <1>1 DEF Full
  <2> QED BY <2>1, SlotValueIs DEF Holds
<1>3. ASSUME NEW k \in its
      PROVE  k \in K /\ \E i \in Full(slots) : slots[i] = Slot(k, k.hash)
  <2>1. PICK i \in Full(slots) : slots[i].item = k
    BY DEF Holds
  <2> QED BY <1>2, <2>1
<1> QED BY <1>1, <1>2, <1>3

\* Slot p gets the value v.
PutAt(slots, p, v) == [slots EXCEPT ![p] = v]

LEMMA Inserted ==
    ASSUME NEW K, IsKeys(K), NEW s \in Nat \ {0}, NEW slots, NEW its, Holds(K, slots, s, its),
           NEW k \in K, k \notin its,
           NEW p \in 0 .. s - 1, slots[p] = Empty, Reached(slots, s, k.hash, p)
    PROVE  /\ Holds(K, PutAt(slots, p, Slot(k, k.hash)), s, its \cup {k})
           /\ Dead(PutAt(slots, p, Slot(k, k.hash))) = Dead(slots)
<1> DEFINE new == [slots EXCEPT ![p] = Slot(k, k.hash)]
<1>1. new \in [0 .. s - 1 -> SlotValues(K)]
  BY KeySlot DEF Holds
<1>2. DOMAIN slots = 0 .. s - 1 /\ DOMAIN new = 0 .. s - 1
  BY HoldsType
<1>3. new[p] = Slot(k, k.hash) /\ \A i \in 0 .. s - 1 : i # p => new[i] = slots[i]
  BY <1>2
<1> HIDE DEF new
<1>4. p \notin Full(slots) /\ p \notin Dead(slots) /\ slots[p].kind # "item"
  BY KindIs DEF Full, Dead
<1>5. new[p].kind = "item" /\ new[p].item = k /\ new[p].hash = k.hash
      /\ new[p] # Empty /\ new[p] # Tombstone
  BY <1>3, SlotIs
<1>6. Full(new) = Full(slots) \cup {p}
  <2>1. ASSUME NEW i PROVE i \in Full(new) <=> i \in Full(slots) \cup {p}
    BY <1>2, <1>3, <1>5 DEF Full
  <2> QED BY <2>1
<1>7. Dead(new) = Dead(slots)
  <2>1. ASSUME NEW i PROVE i \in Dead(new) <=> i \in Dead(slots)
    BY <1>2, <1>3, <1>4, <1>5 DEF Dead
  <2> QED BY <2>1
<1>8. \A i \in Full(slots) : i # p /\ i \in 0 .. s - 1 /\ new[i] = slots[i] /\ slots[i].item \in its
  BY <1>2, <1>3, <1>4, HoldsType DEF Full
<1>9. {new[i].item : i \in Full(new)} = its \cup {k}
  <2>1. {slots[i].item : i \in Full(slots)} = its
    BY DEF Holds
  <2>2. ASSUME NEW x PROVE x \in {new[i].item : i \in Full(new)} <=> x \in its \cup {k}
    BY <1>5, <1>6, <1>8, <2>1
  <2> QED BY <2>2
<1>10. \A i, j \in Full(new) : new[i].item = new[j].item => i = j
  BY <1>5, <1>6, <1>8 DEF Holds
<1>11. ASSUME NEW h, NEW i, Reached(slots, s, h, i), h \in Nat PROVE Reached(new, s, h, i)
  <2> SUFFICES ASSUME NEW d \in 0 .. s - 1, d < Way(h, s, i) PROVE new[Place(h, s, d)] # Empty
    BY DEF Reached
  <2>1. slots[Place(h, s, d)] # Empty
    BY <1>11 DEF Reached
  <2>2. Place(h, s, d) \in 0 .. s - 1
    <3>1. d \in Nat
      OBVIOUS
    <3> QED BY <1>11, <3>1, PlaceType
  <2> QED BY <1>3, <1>5, <2>1, <2>2
<1>12. ASSUME NEW i \in Full(new) PROVE Reached(new, s, new[i].hash, i)
  <2>1. CASE i = p
    BY <1>5, <1>11, <2>1, KeyIs
  <2>2. CASE i \in Full(slots)
    <3>1. Reached(slots, s, slots[i].hash, i)
      BY <2>2 DEF Holds
    <3>2. slots[i].item \in K /\ slots[i].hash = slots[i].item.hash
      BY <2>2, HoldsType
    <3>3. slots[i].hash \in Nat
      BY <3>2, KeyIs
    <3> QED BY <1>8, <1>11, <2>2, <3>1, <3>3
  <2> QED BY <1>6, <2>1, <2>2
<1>13. Holds(K, new, s, its \cup {k})
  BY <1>1, <1>9, <1>10, <1>12 DEF Holds
<1> QED BY <1>7, <1>13 DEF new, PutAt

LEMMA Removed ==
    ASSUME NEW K, IsKeys(K), NEW s \in Nat \ {0}, NEW slots, NEW its, Holds(K, slots, s, its),
           NEW j \in Full(slots)
    PROVE  LET new == PutAt(slots, j, Tombstone)
           IN  /\ Holds(K, new, s, its \ {slots[j].item})
               /\ Dead(new) = Dead(slots) \cup {j} /\ j \notin Dead(slots)
<1> DEFINE new == [slots EXCEPT ![j] = Tombstone]
<1>1. new \in [0 .. s - 1 -> SlotValues(K)]
  BY KindIs DEF Holds
<1>2. DOMAIN slots = 0 .. s - 1 /\ DOMAIN new = 0 .. s - 1 /\ j \in 0 .. s - 1
  BY HoldsType DEF Full
<1>3. new[j] = Tombstone /\ \A i \in 0 .. s - 1 : i # j => new[i] = slots[i]
  BY <1>2
<1> HIDE DEF new
<1>4. new[j].kind # "item" /\ new[j] # Empty
  BY <1>3, KindIs
<1>5. slots[j] # Tombstone
  BY KindIs DEF Full
<1>6. Full(new) = Full(slots) \ {j}
  <2>1. ASSUME NEW i PROVE i \in Full(new) <=> i \in Full(slots) \ {j}
    BY <1>2, <1>3, <1>4 DEF Full
  <2> QED BY <2>1
<1>7. Dead(new) = Dead(slots) \cup {j} /\ j \notin Dead(slots)
  <2>1. ASSUME NEW i PROVE i \in Dead(new) <=> i \in Dead(slots) \cup {j}
    BY <1>2, <1>3 DEF Dead
  <2> QED BY <1>5, <2>1 DEF Dead
<1>8. \A i \in Full(new) : i # j /\ i \in 0 .. s - 1 /\ i \in Full(slots) /\ new[i] = slots[i]
  BY <1>2, <1>3, <1>6 DEF Full
<1>9. {new[i].item : i \in Full(new)} = its \ {slots[j].item}
  <2>1. {slots[i].item : i \in Full(slots)} = its
    BY DEF Holds
  <2>2. \A i \in Full(slots) : slots[i].item = slots[j].item => i = j
    BY DEF Holds
  <2>3. ASSUME NEW x
        PROVE  x \in {new[i].item : i \in Full(new)} <=> x \in its \ {slots[j].item}
    BY <1>6, <1>8, <2>1, <2>2
  <2> QED BY <2>3
<1>10. \A i, l \in Full(new) : new[i].item = new[l].item => i = l
  BY <1>8 DEF Holds
<1>11. ASSUME NEW i \in Full(new) PROVE Reached(new, s, new[i].hash, i)
  <2> DEFINE h == slots[i].hash
  <2>1. new[i].hash = h /\ Reached(slots, s, h, i) /\ h \in Nat
    <3>1. i \in Full(slots) /\ new[i] = slots[i]
      BY <1>8
    <3>2. Reached(slots, s, h, i)
      BY <3>1 DEF Holds
    <3>3. h = slots[i].item.hash /\ slots[i].item \in K
      BY <3>1, HoldsType
    <3> QED BY <3>1, <3>2, <3>3, KeyIs
  <2> HIDE DEF h
  <2>2. ASSUME NEW d \in 0 .. s - 1, d < Way(h, s, i) PROVE new[Place(h, s, d)] # Empty
    <3>1. slots[Place(h, s, d)] # Empty
      BY <2>1, <2>2 DEF Reached
    <3>2. Place(h, s, d) \in 0 .. s - 1
      <4>1. d \in Nat
        OBVIOUS
      <4> QED BY <2>1, <4>1, PlaceType
    <3> QED BY <1>3, <1>4, <3>1, <3>2
  <2> QED BY <2>1, <2>2 DEF Reached
<1>12. Holds(K, new, s, its \ {slots[j].item})
  BY <1>1, <1>9, <1>10, <1>11 DEF Holds
<1> QED BY <1>7, <1>12 DEF new, PutAt

LEMMA AllEmpty ==
    ASSUME NEW K, IsKeys(K), NEW s \in Nat \ {0}
    PROVE  LET new == [i \in 0 .. s - 1 |-> Empty] IN Holds(K, new, s, {}) /\ Dead(new) = {}
BY KindIs DEF Holds, Full, Dead
-----------------------------------------------------------------------------
(* Counting.                                                               *)

LEMMA HoldsCount ==
    ASSUME NEW K, IsKeys(K), NEW s \in Nat \ {0}, NEW slots, NEW its, Holds(K, slots, s, its)
    PROVE  /\ IsFiniteSet(its) /\ Cardinality(its) \in Nat /\ Cardinality(its) <= s
           /\ IsFiniteSet(Dead(slots)) /\ Cardinality(Dead(slots)) \in Nat
           /\ (\A i \in 0 .. s - 1 : slots[i] # Empty) =>
                 Cardinality(its) + Cardinality(Dead(slots)) = s
<1> DEFINE F == Full(slots)
           D == Dead(slots)
           f == [i \in F |-> slots[i].item]
<1>1. IsFiniteSet(0 .. s - 1) /\ Cardinality(0 .. s - 1) = s
  BY FS_Interval
<1>2. F \in SUBSET (0 .. s - 1) /\ D \in SUBSET (0 .. s - 1)
  BY HoldsType DEF Full, Dead
<1>3. IsFiniteSet(F) /\ IsFiniteSet(D) /\ Cardinality(F) \in Nat /\ Cardinality(D) \in Nat
      /\ Cardinality(F) <= s
  BY <1>1, <1>2, FS_Subset, FS_CardinalityType
<1>4. f \in Bijection(F, its)
  <2>1. {slots[i].item : i \in F} = its /\ \A i, j \in F : slots[i].item = slots[j].item => i = j
    BY DEF Holds
  <2>2. f \in [F -> its] /\ \A i \in F : f[i] = slots[i].item
    BY <2>1
  <2>3. \A k \in its : \E i \in F : f[i] = k
    BY <2>1
  <2> HIDE DEF f, F
  <2>4. f \in Injection(F, its)
    BY <2>1, <2>2 DEF Injection, IsInjective
  <2>5. f \in Surjection(F, its)
    BY <2>2, <2>3 DEF Surjection
  <2> QED BY <2>4, <2>5 DEF Bijection
<1>5. ExistsBijection(F, its)
  BY <1>4 DEF ExistsBijection
<1>6. IsFiniteSet(its) /\ Cardinality(its) = Cardinality(F)
  BY <1>3, <1>5, FS_Bijection
<1>7. ASSUME \A i \in 0 .. s - 1 : slots[i] # Empty PROVE Cardinality(F) + Cardinality(D) = s
  <2>1. F \cap D = {}
    BY KindIs DEF Full, Dead
  <2>2. F \cup D = 0 .. s - 1
    <3>1. ASSUME NEW i \in 0 .. s - 1 PROVE i \in F \cup D
      <4>1. slots[i] \in SlotValues(K) /\ slots[i] # Empty /\ i \in DOMAIN slots
        BY <1>7, HoldsType
      <4> QED BY <4>1, SlotValueIs DEF Full, Dead
    <3> QED BY <1>2, <3>1
  <2>3. Cardinality(F \cap D) = 0
    BY <2>1, FS_EmptySet
  <2>4. Cardinality(F \cup D) = Cardinality(F) + Cardinality(D) - Cardinality(F \cap D)
    BY <1>3, FS_Union
  <2> HIDE DEF F, D
  <2>5. Cardinality(F) + Cardinality(D) - Cardinality(F \cap D) = Cardinality(F) + Cardinality(D)
    BY <1>3, <2>3
  <2> QED BY <1>1, <2>2, <2>4, <2>5
<1> QED BY <1>3, <1>6, <1>7

LEMMA EmptySlot ==
    ASSUME NEW K, IsKeys(K), NEW s \in Nat \ {0}, NEW slots, NEW its, Holds(K, slots, s, its),
           Cardinality(its) + Cardinality(Dead(slots)) < s
    PROVE  \E i \in 0 .. s - 1 : slots[i] = Empty
<1> SUFFICES ASSUME \A i \in 0 .. s - 1 : slots[i] # Empty PROVE FALSE
  OBVIOUS
<1>1. Cardinality(its) + Cardinality(Dead(slots)) = s
  BY HoldsCount
<1> QED BY <1>1
-----------------------------------------------------------------------------
(* The table grows.                                                        *)

\* The items in the first n slots.
Among(slots, n) == {slots[i].item : i \in {j \in Full(slots) : j < n}}

\* An item goes where the probe for it in the new slots ends.
PutIn(slots, s, v) == PutAt(slots, Probe(slots, s, v.hash, {}), v)

LEMMA PutHolds ==
    ASSUME NEW K, IsKeys(K), NEW s \in Nat \ {0}, NEW slots, NEW its, Holds(K, slots, s, its), Dead(slots) = {},
           NEW k \in K, k \notin its, Cardinality(its) < s
    PROVE  LET new == PutIn(slots, s, Slot(k, k.hash))
           IN  Holds(K, new, s, its \cup {k}) /\ Dead(new) = {}
<1> DEFINE p == Probe(slots, s, k.hash, {})
<1>1. PICK i \in 0 .. s - 1 : slots[i] = Empty
  <2>1. Cardinality(its) + Cardinality(Dead(slots)) < s
    BY FS_EmptySet, HoldsCount
  <2> QED BY <2>1, EmptySlot
<1>2. p \in 0 .. s - 1 /\ slots[p] = Empty /\ Reached(slots, s, k.hash, p)
  BY <1>1, KeyIs, ProbeMisses
<1>3. Slot(k, k.hash).hash = k.hash
  BY SlotIs
<1> HIDE DEF p
<1> DEFINE new == PutAt(slots, p, Slot(k, k.hash))
<1>4. slots[p] = Empty /\ Reached(slots, s, k.hash, p) /\ p \in 0 .. s - 1
  BY <1>2
<1>5. Holds(K, new, s, its \cup {k}) /\ Dead(new) = Dead(slots)
  <2>1. ASSUME NEW q \in 0 .. s - 1, slots[q] = Empty, Reached(slots, s, k.hash, q)
        PROVE  /\ Holds(K, PutAt(slots, q, Slot(k, k.hash)), s, its \cup {k})
               /\ Dead(PutAt(slots, q, Slot(k, k.hash))) = Dead(slots)
    BY <2>1, Inserted
  <2> QED BY <1>4, <2>1
<1> QED BY <1>3, <1>5 DEF PutIn, p

LEMMA Resized ==
    ASSUME NEW K, IsKeys(K), NEW t, NEW its, NEW s \in Nat \ {0}, t.size \in Nat \ {0}, t.size < s,
           Holds(K, t.slots, t.size, its)
    PROVE  LET r == ResizeHash(t, s) IN Holds(K, r.slots, s, its) /\ Dead(r.slots) = {}
<1> DEFINE V == [0 .. s - 1 -> SlotValues(K)]
           none == [j \in 0 .. s - 1 |-> Empty]
           next == [n \in Nat |-> [sl \in V |->
                       IF n \in Items(t) THEN PutIn(sl, s, t.slots[n]) ELSE sl]]
<1>1. none \in V
  BY KindIs
<1>2. Items(t) = Full(t.slots)
  BY DEF Items, Full
<1>3. ASSUME NEW n \in Items(t), NEW sl \in V PROVE PutIn(sl, s, t.slots[n]) \in V
  <2>1. t.slots[n] \in SlotValues(K)
    BY <1>2, <1>3, HoldsType DEF Full
  <2> QED BY <2>1 DEF PutIn, PutAt
<1>4. next \in [Nat -> [V -> V]]
  BY <1>3
<1>5. \A n \in Nat, sl \in V :
         next[n][sl] = IF n \in Items(t) THEN PutIn(sl, s, t.slots[n]) ELSE sl
  OBVIOUS
<1> HIDE DEF next, V
<1>6. PICK f : Iterates(f, V, none, next)
  <2> HIDE DEF none
  <2> QED BY <1>1, <1>4, Iteration, Zenon
<1> DEFINE Body(g) == [n \in Nat |-> IF n = 0 THEN none
                                     ELSE IF n - 1 \in Items(t)
                                          THEN PutIn(g[n - 1], s, t.slots[n - 1])
                                          ELSE g[n - 1]]
           moved == CHOOSE g : g = Body(g)
<1>7. f = Body(f)
  <2>1. ASSUME NEW n \in Nat, n # 0
        PROVE  f[n] = IF n - 1 \in Items(t)
                      THEN PutIn(f[n - 1], s, t.slots[n - 1]) ELSE f[n - 1]
    <3>1. n - 1 \in Nat /\ (n - 1) + 1 = n
      BY <2>1
    <3>2. f[n] = next[n - 1][f[n - 1]] /\ f[n - 1] \in V
      BY <1>6, <3>1 DEF Iterates
    <3> QED BY <1>5, <3>1, <3>2
  <2> HIDE DEF none
  <2>2. f[0] = none /\ f = [n \in Nat |-> f[n]]
    BY <1>6 DEF Iterates
  <2> QED BY <2>1, <2>2
<1>8. moved = Body(moved)
  <2> HIDE DEF Body
  <2> QED BY <1>7
<1>9. ResizeHash(t, s).slots = moved[t.size]
  BY DEF ResizeHash, PutIn, PutAt
<1>10. moved[0] = none
       /\ \A n \in Nat : moved[n + 1] = IF n \in Items(t) THEN PutIn(moved[n], s, t.slots[n])
                                        ELSE moved[n]
  <2> HIDE DEF moved, none
  <2>1. moved[0] = none
    BY <1>8
  <2>2. ASSUME NEW n \in Nat
        PROVE  moved[n + 1] = IF n \in Items(t) THEN PutIn(moved[n], s, t.slots[n])
                              ELSE moved[n]
    <3>1. n + 1 \in Nat /\ n + 1 # 0 /\ (n + 1) - 1 = n
      OBVIOUS
    <3>2. moved[n + 1] = Body(moved)[n + 1]
      BY <1>8
    <3> QED BY <3>1, <3>2
  <2> QED BY <2>1, <2>2
<1> DEFINE S == {n \in Nat : n <= t.size => /\ Holds(K, moved[n], s, Among(t.slots, n))
                                            /\ Dead(moved[n]) = {}}
<1> HIDE DEF moved, Body
<1>11. 0 \in S
  <2>1. Among(t.slots, 0) = {}
    <3>1. \A j \in Full(t.slots) : ~(j < 0)
      BY HoldsType DEF Full
    <3> QED BY <3>1 DEF Among
  <2>2. Holds(K, none, s, {}) /\ Dead(none) = {}
    BY AllEmpty
  <2> QED BY <1>10, <2>1, <2>2
<1>12. ASSUME NEW n \in Nat, n \in S PROVE n + 1 \in S
  <2> SUFFICES ASSUME n + 1 <= t.size
               PROVE  Holds(K, moved[n + 1], s, Among(t.slots, n + 1)) /\ Dead(moved[n + 1]) = {}
    OBVIOUS
  <2>1. n <= t.size /\ n \in 0 .. t.size - 1
    OBVIOUS
  <2>2. Holds(K, moved[n], s, Among(t.slots, n)) /\ Dead(moved[n]) = {}
    BY <1>12, <2>1
  <2>3. \A j \in Full(t.slots) : j < n + 1 <=> j < n \/ j = n
    BY HoldsType DEF Full
  <2>4. CASE n \notin Items(t)
    <3>1. Among(t.slots, n + 1) = Among(t.slots, n)
      BY <1>2, <2>3, <2>4 DEF Among
    <3> QED BY <1>10, <2>2, <2>4, <3>1
  <2>5. CASE n \in Items(t)
    <3> DEFINE k == t.slots[n].item
    <3>1. k \in its /\ k \in K /\ t.slots[n] = Slot(k, k.hash)
      BY <1>2, <2>5, HoldsType
    <3>2. Among(t.slots, n + 1) = Among(t.slots, n) \cup {k}
      BY <1>2, <2>3, <2>5 DEF Among
    <3>3. k \notin Among(t.slots, n)
      <4>1. \A i, j \in Full(t.slots) : t.slots[i].item = t.slots[j].item => i = j
        BY DEF Holds
      <4> QED BY <1>2, <2>5, <4>1 DEF Among
    <3>4. Cardinality(Among(t.slots, n)) < s
      <4>1. Among(t.slots, n) \in SUBSET its
        BY HoldsType DEF Among
      <4>2. Cardinality(Among(t.slots, n)) <= Cardinality(its)
            /\ Cardinality(Among(t.slots, n)) \in Nat
        BY <4>1, HoldsCount, FS_Subset, FS_CardinalityType
      <4> QED BY <4>2, HoldsCount
    <3> HIDE DEF k
    <3>5. Holds(K, PutIn(moved[n], s, Slot(k, k.hash)), s, Among(t.slots, n) \cup {k})
          /\ Dead(PutIn(moved[n], s, Slot(k, k.hash))) = {}
      BY <2>2, <3>1, <3>3, <3>4, PutHolds
    <3> QED BY <1>10, <2>5, <3>1, <3>2, <3>5
  <2> QED BY <2>4, <2>5
<1> HIDE DEF S
<1>13. t.size \in S
  BY <1>11, <1>12, Induction
<1>14. Among(t.slots, t.size) = its
  <2>1. \A j \in Full(t.slots) : j < t.size
    BY HoldsType DEF Full
  <2>2. {t.slots[i].item : i \in Full(t.slots)} = its
    BY DEF Holds
  <2> QED BY <2>1, <2>2 DEF Among
<1> QED BY <1>9, <1>13, <1>14 DEF S
-----------------------------------------------------------------------------
(* What the calls find.                                                    *)

\* The table holds these items, its counts are theirs, and it is not fuller
\* than the growth allows: at most five slots of eight are used.
Sound(K, t, its) ==
    /\ t \in [size : Nat \ {0}, live : Nat, dead : Nat,
              slots : [0 .. t.size - 1 -> SlotValues(K)]]
    /\ Holds(K, t.slots, t.size, its)
    /\ t.live = Cardinality(its)
    /\ t.dead = Cardinality(Dead(t.slots))
    /\ (t.live + t.dead) * LoadDenom <= t.size * LoadNumer

LEMMA SoundType ==
    ASSUME NEW K, IsKeys(K), NEW t, NEW its, Sound(K, t, its)
    PROVE  /\ t.size \in Nat \ {0} /\ t.live \in Nat /\ t.dead \in Nat
           /\ t.live + t.dead < t.size
           /\ Items(t) = Full(t.slots) /\ Held(t) = its /\ Tombstones(t) = Dead(t.slots)
           /\ Holds(K, t.slots, t.size, its) /\ its \subseteq K
           /\ \E i \in 0 .. t.size - 1 : t.slots[i] = Empty
<1>1. t.size \in Nat \ {0} /\ Holds(K, t.slots, t.size, its)
  BY DEF Sound
<1>2. t.live \in Nat /\ t.dead \in Nat
  BY DEF Sound
<1>3. t.live + t.dead < t.size
  <2>1. (t.live + t.dead) * 8 <= t.size * 5
    BY DEF Sound, LoadDenom, LoadNumer
  <2> QED BY <1>1, <1>2, <2>1
<1>4. \E i \in 0 .. t.size - 1 : t.slots[i] = Empty
  BY <1>1, <1>3, EmptySlot DEF Sound
<1>5. Items(t) = Full(t.slots) /\ Tombstones(t) = Dead(t.slots)
  BY DEF Items, Full, Tombstones, Dead
<1>6. Held(t) = its
  BY <1>1, <1>5 DEF Held, Holds
<1> QED BY <1>1, <1>2, <1>3, <1>4, <1>5, <1>6, HoldsType

\* A slot that holds what a lookup of k looks for holds k itself.
LEMMA WantedIsKey ==
    ASSUME NEW K, IsKeys(K), NEW t, NEW its, Sound(K, t, its), NEW k \in K, NEW j \in 0 .. t.size - 1
    PROVE  t.slots[j] \in {Slot(i, k.hash) : i \in Same(t, k)}
              <=> k \in its /\ t.slots[j] = Slot(k, k.hash)
<1> DEFINE wanted == {Slot(i, k.hash) : i \in Same(t, k)}
<1>1. Same(t, k) = {i \in its : i.name = k.name}
  BY SoundType DEF Same
<1>2. ASSUME t.slots[j] \in wanted PROVE k \in its /\ t.slots[j] = Slot(k, k.hash)
  <2>1. PICK i \in its : i.name = k.name /\ t.slots[j] = Slot(i, k.hash)
    BY <1>1, <1>2
  <2>2. t.slots[j].kind = "item" /\ t.slots[j].item = i /\ t.slots[j].hash = k.hash
    BY <2>1, SlotIs
  <2>3. t.slots[j] \in SlotValues(K) /\ i \in K
    BY <2>1, SoundType, HoldsType
  <2>4. i.hash = k.hash
    BY <2>2, <2>3, SlotValueIs
  <2>5. i = k
    BY <2>1, <2>3, <2>4, KeysEqual
  <2> QED BY <2>1, <2>5
<1>3. ASSUME k \in its, t.slots[j] = Slot(k, k.hash) PROVE t.slots[j] \in wanted
  BY <1>1, <1>3
<1> QED BY <1>2, <1>3

\* Where a lookup ends.
Ends(t, k) == Probe(t.slots, t.size, k.hash, {Slot(i, k.hash) : i \in Same(t, k)})

LEMMA LookupFinds ==
    ASSUME NEW K, IsKeys(K), NEW t, NEW its, Sound(K, t, its), NEW k \in its
    PROVE  Ends(t, k) \in 0 .. t.size - 1 /\ t.slots[Ends(t, k)] = Slot(k, k.hash)
<1> DEFINE wanted == {Slot(i, k.hash) : i \in Same(t, k)}
           s == t.size
           slots == t.slots
<1>1. s \in Nat \ {0} /\ Holds(K, slots, s, its) /\ k \in K
  BY SoundType
<1>2. PICK i \in Full(slots) : slots[i] = Slot(k, k.hash)
  BY <1>1, HoldsType
<1>3. i \in 0 .. s - 1
  BY <1>1, HoldsType DEF Full
<1>4. slots[i].item = k /\ slots[i].hash = k.hash
  BY <1>2, SlotIs
<1>5. Reached(slots, s, k.hash, i)
  BY <1>1, <1>2, <1>4 DEF Holds
<1>6. \A j \in 0 .. s - 1 : slots[j] \in wanted <=> j = i
  <2>1. \A j \in 0 .. s - 1 : slots[j] \in wanted <=> slots[j] = Slot(k, k.hash)
    BY <1>1, WantedIsKey
  <2>2. ASSUME NEW j \in 0 .. s - 1, slots[j] = Slot(k, k.hash) PROVE j = i
    <3>1. j \in Full(slots) /\ slots[j].item = k
      BY <1>1, <2>2, SlotIs, HoldsType DEF Full
    <3> QED BY <1>1, <1>2, <1>4, <3>1 DEF Holds
  <2> QED BY <1>2, <2>1, <2>2
<1>7. k.hash \in Nat
  BY <1>1, KeyIs
<1> HIDE DEF wanted, s, slots
<1>8. Probe(slots, s, k.hash, wanted) = i
  BY <1>1, <1>3, <1>5, <1>6, <1>7, ProbeFinds
<1> QED BY <1>2, <1>3, <1>8 DEF Ends, wanted, s, slots

LEMMA LookupMisses ==
    ASSUME NEW K, IsKeys(K), NEW t, NEW its, Sound(K, t, its), NEW k \in K \ its
    PROVE  /\ Ends(t, k) \in 0 .. t.size - 1 /\ t.slots[Ends(t, k)] = Empty
           /\ Reached(t.slots, t.size, k.hash, Ends(t, k))
<1> DEFINE wanted == {Slot(i, k.hash) : i \in Same(t, k)}
<1>1. t.size \in Nat \ {0} /\ k.hash \in Nat
  BY SoundType, KeyIs
<1>2. \A j \in 0 .. t.size - 1 : t.slots[j] \notin wanted
  BY WantedIsKey
<1>3. PICK i \in 0 .. t.size - 1 : t.slots[i] = Empty
  BY SoundType
<1> HIDE DEF wanted
<1>4. LET p == Probe(t.slots, t.size, k.hash, wanted)
      IN  p \in 0 .. t.size - 1 /\ t.slots[p] = Empty /\ Reached(t.slots, t.size, k.hash, p)
  BY <1>1, <1>2, <1>3, ProbeMisses
<1> QED BY <1>4 DEF Ends, wanted
-----------------------------------------------------------------------------
(* The calls.                                                              *)

LEMMA CreateSound ==
    ASSUME NEW K, IsKeys(K), NEW n \in Nat \ {0}
    PROVE  Sound(K, mzHashTableCreate(n), {})
<1> DEFINE s == RoundUpPower2(n)
           none == [i \in 0 .. s - 1 |-> Empty]
<1>1. s \in Nat \ {0}
  BY RoundUpIs
<1>2. Holds(K, none, s, {}) /\ Dead(none) = {}
  BY <1>1, AllEmpty
<1>3. mzHashTableCreate(n) = [size |-> s, live |-> 0, dead |-> 0, slots |-> none]
  BY DEF mzHashTableCreate
<1>4. none \in [0 .. s - 1 -> SlotValues(K)]
  BY KindIs
<1> DEFINE c == mzHashTableCreate(n)
<1> HIDE DEF s, none, c
<1>5. c.size = s /\ c.live = 0 /\ c.dead = 0 /\ c.slots = none
  BY <1>3 DEF c
<1>6. c \in [size : Nat \ {0}, live : Nat, dead : Nat, slots : [0 .. s - 1 -> SlotValues(K)]]
  BY <1>1, <1>3, <1>4 DEF c
<1>7. (0 + 0) * 8 <= s * 5
  BY <1>1
<1>8. Cardinality(Dead(none)) = 0
  BY <1>2, FS_EmptySet
<1>9. Sound(K, c, {})
  BY <1>1, <1>2, <1>5, <1>6, <1>7, <1>8, FS_EmptySet DEF Sound, LoadDenom, LoadNumer
<1> QED BY <1>9 DEF c

LEMMA ClearSound ==
    ASSUME NEW K, IsKeys(K), NEW t, NEW its, Sound(K, t, its)
    PROVE  Sound(K, mzHashTableClear(t), {})
<1> DEFINE none == [i \in 0 .. t.size - 1 |-> Empty]
<1>1. t.size \in Nat \ {0}
  BY SoundType
<1>2. DOMAIN t.slots = 0 .. t.size - 1
  BY SoundType, HoldsType
<1>3. Holds(K, none, t.size, {}) /\ Dead(none) = {}
  BY <1>1, AllEmpty
<1>4. none \in [0 .. t.size - 1 -> SlotValues(K)]
  BY KindIs
<1> DEFINE c == mzHashTableClear(t)
<1>5. c = [t EXCEPT !.slots = none, !.live = 0, !.dead = 0]
  BY <1>2 DEF mzHashTableClear
<1> HIDE DEF none, c
<1>6. c \in [size : {t.size}, live : {0}, dead : {0}, slots : {none}]
  BY <1>5 DEF Sound
<1>7. Sound(K, c, {})
  <2>1. c.size = t.size /\ c.live = 0 /\ c.dead = 0 /\ c.slots = none
    BY <1>6
  <2>2. c \in [size : Nat \ {0}, live : Nat, dead : Nat,
               slots : [0 .. t.size - 1 -> SlotValues(K)]]
    BY <1>1, <1>4, <1>6
  <2>3. (0 + 0) * 8 <= t.size * 5
    BY <1>1
  <2>4. Cardinality(Dead(none)) = 0
    BY <1>3, FS_EmptySet
  <2> QED BY <1>3, <2>1, <2>2, <2>3, <2>4, FS_EmptySet DEF Sound, LoadDenom, LoadNumer
<1> QED BY <1>7 DEF c

\* A new item is added.
LEMMA AddSound ==
    ASSUME NEW K, IsKeys(K), NEW t, NEW its, Sound(K, t, its), NEW k \in K \ its
    PROVE  LET r == mzHashTableLookup(t, k.hash, k, Same(t, k), TRUE)
           IN  r.result = Slot(k, k.hash) /\ Sound(K, r.table, its \cup {k})
<1> DEFINE p == Ends(t, k)
           now == its \cup {k}
           new == PutAt(t.slots, p, Slot(k, k.hash))
           added == [t EXCEPT !.slots[p] = Slot(k, k.hash), !.live = @ + 1]
           r == mzHashTableLookup(t, k.hash, k, Same(t, k), TRUE)
<1>1. p \in 0 .. t.size - 1 /\ t.slots[p] = Empty /\ Reached(t.slots, t.size, k.hash, p)
  BY LookupMisses
<1>2. t.size \in Nat \ {0} /\ t.live \in Nat /\ t.dead \in Nat
      /\ Holds(K, t.slots, t.size, its)
  BY SoundType
<1>3. p # Never
  BY <1>1, <1>2 DEF Never
<1>4. r = [table |-> IF TooFull(added) THEN ResizeHash(added, 2 * t.size) ELSE added,
           result |-> Slot(k, k.hash)]
  BY <1>1, <1>3 DEF mzHashTableLookup, Ends
<1>5. added \in [size : {t.size}, live : {t.live + 1}, dead : {t.dead}, slots : {new}]
  <2> HIDE DEF p
  <2> QED BY DEF PutAt, Sound
<1> HIDE DEF p, new, added, r
<1>6. Holds(K, new, t.size, now) /\ Dead(new) = Dead(t.slots)
  <2>1. ASSUME NEW slots, NEW s \in Nat \ {0}, Holds(K, slots, s, its), NEW q \in 0 .. s - 1,
               slots[q] = Empty, Reached(slots, s, k.hash, q)
        PROVE  /\ Holds(K, PutAt(slots, q, Slot(k, k.hash)), s, now)
               /\ Dead(PutAt(slots, q, Slot(k, k.hash))) = Dead(slots)
    BY <2>1, Inserted DEF now
  <2> QED BY <1>1, <1>2, <2>1 DEF new
<1>7. Cardinality(now) = t.live + 1
  BY ZenonT(60), <1>2, HoldsCount, FS_AddElement DEF Sound
<1>8. CASE ~TooFull(added)
  <2>1. r.table = added /\ r.result = Slot(k, k.hash)
    BY <1>4, <1>8
  <2>2. (added.live + added.dead) * LoadDenom <= added.size * LoadNumer
    BY <1>2, <1>5, <1>8 DEF TooFull, LoadDenom, LoadNumer
  <2>3. added \in [size : Nat \ {0}, live : Nat, dead : Nat,
                   slots : [0 .. t.size - 1 -> SlotValues(K)]]
    BY <1>2, <1>5, <1>6 DEF Holds
  <2>4. Sound(K, added, now)
    BY <1>5, <1>6, <1>7, <2>2, <2>3 DEF Sound
  <2> QED BY <2>1, <2>4 DEF r
<1>9. CASE TooFull(added)
  <2> DEFINE big == ResizeHash(added, 2 * t.size)
  <2>1. 2 * t.size \in Nat \ {0} /\ t.size < 2 * t.size
    BY <1>2
  <2>2. Holds(K, big.slots, 2 * t.size, now) /\ Dead(big.slots) = {}
    <3>1. added.size = t.size /\ added.slots = new
      BY <1>5
    <3> QED BY <1>2, <1>6, <2>1, <3>1, Resized, ZenonT(60)
  <2>3. big \in [size : {2 * t.size}, live : {t.live + 1}, dead : {0}, slots : {big.slots}]
    BY <1>5 DEF ResizeHash
  <2>4. (t.live + 1) * 8 <= (2 * t.size) * 5
    <3>1. (t.live + t.dead) * 8 <= t.size * 5
      BY DEF Sound, LoadDenom, LoadNumer
    <3> QED BY <1>2, <3>1
  <2> HIDE DEF big
  <2>5. Sound(K, big, now)
    <3>1. big.size = 2 * t.size /\ big.live = t.live + 1 /\ big.dead = 0
      BY <2>3
    <3>2. (big.live + big.dead) * LoadDenom <= big.size * LoadNumer
      BY <1>2, <2>4, <3>1 DEF LoadDenom, LoadNumer
    <3>3. big.dead = Cardinality(Dead(big.slots))
      BY <2>2, <3>1, FS_EmptySet
    <3>4. big.slots \in [0 .. big.size - 1 -> SlotValues(K)]
      BY <2>2, <3>1 DEF Holds
    <3>5. big \in [size : Nat \ {0}, live : Nat, dead : Nat,
                   slots : [0 .. big.size - 1 -> SlotValues(K)]]
      BY <1>2, <2>1, <2>3, <3>1, <3>4
    <3> QED BY <1>7, <2>1, <2>2, <3>1, <3>2, <3>3, <3>5 DEF Sound
  <2>6. r.table = big /\ r.result = Slot(k, k.hash)
    BY <1>4, <1>9 DEF big
  <2> QED BY <2>5, <2>6 DEF r
<1> QED BY <1>8, <1>9 DEF r

\* An item is removed, and removing what is not there changes nothing.
LEMMA RemoveSound ==
    ASSUME NEW K, IsKeys(K), NEW t, NEW its, Sound(K, t, its), NEW k \in K
    PROVE  Sound(K, mzHashTableRemove(t, k.hash, k), its \ {k})
<1> DEFINE wanted == Holding(t, k)
           s == t.size
           slots == t.slots
           at == Probe(slots, s, k.hash, wanted)
<1>1. s \in Nat \ {0} /\ Holds(K, slots, s, its) /\ k.hash \in Nat /\ Items(t) = Full(slots)
      /\ t.live \in Nat /\ t.dead \in Nat
  BY SoundType, KeyIs
<1>2. \A j \in 0 .. s - 1 : slots[j] \in wanted <=> j \in Full(slots) /\ slots[j].item = k
  <2>1. ASSUME NEW j \in 0 .. s - 1, slots[j] \in wanted
        PROVE  j \in Full(slots) /\ slots[j].item = k
    <3>1. PICK i \in Full(slots) : slots[i].item = k /\ slots[j] = slots[i]
      BY <1>1, <2>1 DEF Holding
    <3>2. slots[j].kind = "item" /\ j \in DOMAIN slots
      BY <1>1, <3>1, HoldsType DEF Full
    <3> QED BY <3>1, <3>2 DEF Full
  <2>2. ASSUME NEW j \in Full(slots), slots[j].item = k PROVE slots[j] \in wanted
    BY <1>1, <2>2 DEF Holding
  <2> QED BY <2>1, <2>2
<1>3. mzHashTableRemove(t, k.hash, k) =
         IF at # Never /\ slots[at].kind = "item"
         THEN [t EXCEPT !.slots[at] = Tombstone, !.live = @ - 1, !.dead = @ + 1]
         ELSE t
  BY DEF mzHashTableRemove
<1>4. CASE k \notin its
  <2>1. \A j \in 0 .. s - 1 : slots[j] \notin wanted
    BY <1>1, <1>2, <1>4, HoldsType
  <2>2. PICK i \in 0 .. s - 1 : slots[i] = Empty
    BY SoundType
  <2>3. slots[at] = Empty
    <3> HIDE DEF wanted, s, slots
    <3> QED BY <1>1, <2>1, <2>2, ProbeMisses
  <2>4. its \ {k} = its
    BY <1>4
  <2>5. mzHashTableRemove(t, k.hash, k) = t
    <3> HIDE DEF at
    <3> QED BY <1>3, <2>3, KindIs
  <2> QED BY <2>4, <2>5
<1>5. CASE k \in its
  <2>1. PICK i \in Full(slots) : slots[i] = Slot(k, k.hash)
    BY <1>1, <1>5, HoldsType
  <2>2. i \in 0 .. s - 1 /\ slots[i].item = k /\ slots[i].hash = k.hash
        /\ slots[i].kind = "item"
    BY <1>1, <2>1, HoldsType, SlotIs DEF Full
  <2>3. Reached(slots, s, k.hash, i)
    BY <1>1, <2>1, <2>2 DEF Holds
  <2>4. \A j \in 0 .. s - 1 : slots[j] \in wanted <=> j = i
    BY <1>1, <1>2, <2>1, <2>2 DEF Holds
  <2>5. at = i
    <3> HIDE DEF wanted, s, slots
    <3> QED BY <1>1, <2>2, <2>3, <2>4, ProbeFinds
  <2> DEFINE new == PutAt(slots, i, Tombstone)
             t2 == mzHashTableRemove(t, k.hash, k)
  <2>6. t2 \in [size : {s}, live : {t.live - 1}, dead : {t.dead + 1}, slots : {new}]
    <3>2. i # Never
      BY <1>1, <2>2 DEF Never
    <3>3. t2 = [t EXCEPT !.slots[i] = Tombstone, !.live = @ - 1, !.dead = @ + 1]
      <4> HIDE DEF at
      <4> QED BY <1>3, <2>2, <2>5, <3>2
    <3> HIDE DEF t2
    <3> QED BY <3>3 DEF PutAt, Sound
  <2>7. Holds(K, new, s, its \ {k}) /\ Dead(new) = Dead(slots) \cup {i} /\ i \notin Dead(slots)
    <3> HIDE DEF wanted, at, t2
    <3>1. IsKeys(K) /\ s \in Nat \ {0} /\ Holds(K, slots, s, its)
      BY <1>1
    <3> HIDE DEF s, slots
    <3> QED BY <2>1, <2>2, <3>1, Removed
  <2>8. Cardinality(its \ {k}) = t.live - 1
    BY <1>1, <1>5, HoldsCount, FS_RemoveElement DEF Sound
  <2>9. Cardinality(Dead(new)) = t.dead + 1
    <3>1. IsFiniteSet(Dead(slots)) /\ t.dead = Cardinality(Dead(slots))
      BY <1>1, HoldsCount DEF Sound
    <3> HIDE DEF new, slots
    <3> QED BY <2>7, <3>1, FS_AddElement
  <2>10. (t.live - 1) + (t.dead + 1) = t.live + t.dead
    BY <1>1
  <2>11. (t.live + t.dead) * LoadDenom <= s * LoadNumer
    BY DEF Sound
  <2> HIDE DEF new, t2, s
  <2>12. Sound(K, t2, its \ {k})
    <3>1. t2.size = s /\ t2.live = t.live - 1 /\ t2.dead = t.dead + 1 /\ t2.slots = new
      BY <2>6
    <3>2. t.live - 1 \in Nat
      <4>1. IsFiniteSet(its)
        BY <1>1, HoldsCount
      <4>2. Cardinality(its \ {k}) \in Nat
        BY <4>1, FS_RemoveElement, FS_CardinalityType
      <4> QED BY <2>8, <4>2
    <3>3. t2 \in [size : Nat \ {0}, live : Nat, dead : Nat, slots : [0 .. s - 1 -> SlotValues(K)]]
      BY <1>1, <2>6, <2>7, <3>2 DEF Holds
    <3> QED BY <1>1, <2>7, <2>8, <2>9, <2>10, <2>11, <3>1, <3>3 DEF Sound
  <2> QED BY <2>12 DEF t2
<1> QED BY <1>4, <1>5
-----------------------------------------------------------------------------
(* Any number of calls.                                                    *)

\* The table is the set of what was added and not removed.
TableSound == Sound(Keys, table, held)

LEMMA KeysAre == IsKeys(Keys)
BY KeysAssumption DEF IsKeys

\* The invariant holds of a new table and every call keeps it: an addition finds
\* an empty slot on its way and grows the table before it is too full, a removal
\* leaves a tombstone on the way of the others.
THEOREM TableStaysSound == TableSpec => []TableSound
<1>1. TableInit => TableSound
  <2> SUFFICES ASSUME TableInit PROVE TableSound
    OBVIOUS
  <2>1. PICK n \in Sizes : table = mzHashTableCreate(n)
    BY DEF TableInit
  <2>2. n \in Nat \ {0} /\ held = {}
    BY KeysAssumption DEF TableInit
  <2> QED BY KeysAre, <2>1, <2>2, CreateSound DEF TableSound
<1>2. TableSound /\ [TableNext]_tableVars => TableSound'
  <2> SUFFICES ASSUME TableSound, [TableNext]_tableVars PROVE TableSound'
    OBVIOUS
  <2>1. Sound(Keys, table, held)
    BY DEF TableSound
  <2>2. CASE AddItem
    <3>1. PICK k \in Keys \ held :
             LET r == mzHashTableLookup(table, k.hash, k, Same(table, k), TRUE)
             IN  /\ table' = r.table
                 /\ held' = IF r.result = Slot(k, k.hash) THEN held \cup {k} ELSE held
      BY <2>2 DEF AddItem
    <3> DEFINE r == mzHashTableLookup(table, k.hash, k, Same(table, k), TRUE)
    <3>2. r.result = Slot(k, k.hash) /\ Sound(Keys, r.table, held \cup {k})
      BY KeysAre, <2>1, AddSound
    <3> HIDE DEF r
    <3>3. table' = r.table /\ held' = held \cup {k}
      BY <3>1, <3>2 DEF r
    <3> QED BY <3>2, <3>3 DEF TableSound
  <2>3. CASE RemoveItem
    <3>1. PICK k \in Keys : /\ table' = mzHashTableRemove(table, k.hash, k)
                            /\ held' = held \ {k}
      BY <2>3 DEF RemoveItem
    <3> QED BY KeysAre, <2>1, <3>1, RemoveSound DEF TableSound
  <2>4. CASE ClearTable
    BY KeysAre, <2>1, <2>4, ClearSound DEF ClearTable, TableSound
  <2>5. CASE UNCHANGED tableVars
    BY <2>5 DEF tableVars, TableSound
  <2> QED BY <2>2, <2>3, <2>4, <2>5 DEF TableNext
<1> QED BY <1>1, <1>2, PTL DEF TableSpec

\* Every item added and not removed is found, no other is, every probe ends,
\* the callback of a walk sees each once, and the counts that decide on the
\* growth are right.
THEOREM TableIsSet == TableSpec => []TableIsTheSet
<1>1. TableSound => TableIsTheSet
  <2> SUFFICES ASSUME TableSound PROVE TableIsTheSet
    OBVIOUS
  <2>1. Sound(Keys, table, held)
    BY DEF TableSound
  <2>2. table.size \in Nat \ {0} /\ table.live + table.dead < table.size
        /\ Items(table) = Full(table.slots) /\ Held(table) = held
        /\ Tombstones(table) = Dead(table.slots) /\ held \subseteq Keys
    BY KeysAre, <2>1, SoundType
  <2>3. ASSUME NEW k \in Keys \ held
        PROVE  mzHashTableLookup(table, k.hash, k, Same(table, k), FALSE).result = Nothing
    <3>1. Ends(table, k) \in 0 .. table.size - 1 /\ table.slots[Ends(table, k)] = Empty
      BY KeysAre, <2>1, LookupMisses
    <3>2. Ends(table, k) # Never
      BY <2>2, <3>1 DEF Never
    <3> QED BY <3>1, <3>2 DEF mzHashTableLookup, Ends
  <2>4. ASSUME NEW k \in held
        PROVE  /\ mzHashTableLookup(table, k.hash, k, Same(table, k), FALSE).result
                     = Slot(k, k.hash)
               /\ CountProbes(table, k.hash, Same(table, k)) >= 0
    <3>1. Ends(table, k) \in 0 .. table.size - 1
          /\ table.slots[Ends(table, k)] = Slot(k, k.hash)
      BY KeysAre, <2>1, LookupFinds
    <3>2. Ends(table, k) # Never
      BY <2>2, <3>1 DEF Never
    <3>3. Slot(k, k.hash) # Empty /\ Slot(k, k.hash).kind = "item"
      BY SlotIs
    <3>4. mzHashTableLookup(table, k.hash, k, Same(table, k), FALSE).result = Slot(k, k.hash)
      BY <3>1, <3>2, <3>3 DEF mzHashTableLookup, Ends
    <3>5. CountProbes(table, k.hash, Same(table, k)) = (Ends(table, k) - k.hash) % table.size
      BY <3>1, <3>2, <3>3 DEF CountProbes, Ends
    <3>6. k.hash \in Nat
      BY KeysAre, <2>2, KeyIs
    <3>7. (Ends(table, k) - k.hash) % table.size >= 0
      <4> DEFINE e == Ends(table, k)
      <4>1. e \in Int
        BY <2>2, <3>1
      <4> HIDE DEF e
      <4> QED BY <2>2, <3>6, <4>1 DEF e
    <3> QED BY <3>4, <3>5, <3>7
  <2>5. {table.slots[i].item : i \in Visited(table, {})} = held
    <3>1. Visited(table, {}) = Items(table)
      BY DEF Visited
    <3> QED BY <2>2, <3>1 DEF Held
  <2>6. table.live = Cardinality(held) /\ table.dead = Cardinality(Tombstones(table))
    BY <2>1, <2>2 DEF Sound
  <2> QED BY <2>2, <2>3, <2>4, <2>5, <2>6 DEF TableIsTheSet
<1> QED BY <1>1, TableStaysSound, PTL
-----------------------------------------------------------------------------
(* The order of names.                                                     *)

\* a and b have the same first k characters, and the next one, or its absence,
\* puts a before b.
SplitAt(a, b, k) ==
    /\ k \in Nat /\ k <= Len(a) /\ k < Len(b)
    /\ \A i \in 1 .. k : a[i] = b[i]
    /\ k = Len(a) \/ a[k + 1] < b[k + 1]

LEMMA PrefixIs ==
    ASSUME NEW f \in Seq(Nat), NEW n \in Seq(Nat)
    PROVE  IsPrefix(f, n) <=> Len(f) <= Len(n) /\ \A i \in 1 .. Len(f) : f[i] = n[i]
<1> DEFINE m == Len(f)
<1>1. m \in Nat /\ Len(n) \in Nat
  OBVIOUS
<1>2. \A i \in 1 .. m : f[i] \in Nat
  OBVIOUS
<1>3. SubSeq(f, 1, m) \in Seq(Nat) /\ Len(SubSeq(f, 1, m)) = m /\ \A i \in 1 .. m : SubSeq(f, 1, m)[i] = f[i]
  BY <1>1, <1>2
<1>4. ASSUME m <= Len(n)
      PROVE  /\ SubSeq(n, 1, m) \in Seq(Nat) /\ Len(SubSeq(n, 1, m)) = m
             /\ \A i \in 1 .. m : SubSeq(n, 1, m)[i] = n[i]
  BY <1>1, <1>4
<1>5. ASSUME m <= Len(n), \A i \in 1 .. m : f[i] = n[i]
      PROVE  SubSeq(f, 1, m) = SubSeq(n, 1, m)
  BY <1>3, <1>4, <1>5, SeqEqual
<1>6. ASSUME m <= Len(n), SubSeq(f, 1, m) = SubSeq(n, 1, m), NEW i \in 1 .. m
      PROVE  f[i] = n[i]
  BY <1>3, <1>4, <1>6
<1> QED BY <1>5, <1>6 DEF IsPrefix

LEMMA BeforeIs ==
    ASSUME NEW a \in Seq(Nat), NEW b \in Seq(Nat)
    PROVE  IsBefore(a, b) <=> \E k \in Nat : SplitAt(a, b, k)
<1>1. ASSUME NEW i \in DOMAIN a \cap DOMAIN b, a[i] < b[i], \A j \in 1 .. i - 1 : a[j] = b[j]
      PROVE  SplitAt(a, b, i - 1)
  <2>1. i \in Nat /\ i >= 1 /\ i <= Len(a) /\ i <= Len(b) /\ (i - 1) + 1 = i
    OBVIOUS
  <2> QED BY <1>1, <2>1 DEF SplitAt
<1>2. ASSUME Len(a) < Len(b), IsPrefix(a, b) PROVE SplitAt(a, b, Len(a))
  BY <1>2, PrefixIs DEF SplitAt
<1>3. ASSUME NEW k \in Nat, SplitAt(a, b, k) PROVE IsBefore(a, b)
  <2>1. CASE k = Len(a)
    <3>1. Len(a) < Len(b) /\ IsPrefix(a, b)
      BY <1>3, <2>1, PrefixIs DEF SplitAt
    <3> QED BY <3>1 DEF IsBefore
  <2>2. CASE k # Len(a)
    <3>1. k + 1 \in DOMAIN a \cap DOMAIN b /\ a[k + 1] < b[k + 1]
      BY <1>3, <2>2 DEF SplitAt
    <3>2. \A j \in 1 .. (k + 1) - 1 : a[j] = b[j]
      BY <1>3 DEF SplitAt
    <3> QED BY <3>1, <3>2 DEF IsBefore
  <2> QED BY <2>1, <2>2
<1>4. ASSUME NEW i \in DOMAIN a \cap DOMAIN b PROVE i - 1 \in Nat
  OBVIOUS
<1>5. Len(a) \in Nat
  OBVIOUS
<1> QED BY <1>1, <1>2, <1>3, <1>4, <1>5 DEF IsBefore

LEMMA BeforeNotSelf ==
    ASSUME NEW a \in Seq(Nat) PROVE ~IsBefore(a, a)
<1> SUFFICES ASSUME IsBefore(a, a) PROVE FALSE
  OBVIOUS
<1>1. PICK k \in Nat : SplitAt(a, a, k)
  BY BeforeIs
<1>2. k < Len(a) /\ a[k + 1] < a[k + 1] /\ a[k + 1] \in Nat
  BY <1>1 DEF SplitAt
<1> QED BY <1>2

LEMMA BeforeGoesOn ==
    ASSUME NEW a \in Seq(Nat), NEW b \in Seq(Nat), NEW c \in Seq(Nat), IsBefore(a, b), IsBefore(b, c)
    PROVE  IsBefore(a, c)
<1>1. PICK k \in Nat : SplitAt(a, b, k)
  BY BeforeIs
<1>2. PICK l \in Nat : SplitAt(b, c, l)
  BY BeforeIs
<1> DEFINE m == IF k < l THEN k ELSE l
<1>3. m \in Nat /\ m <= k /\ m <= l
  OBVIOUS
<1>4. Len(a) \in Nat /\ Len(b) \in Nat /\ Len(c) \in Nat
  OBVIOUS
<1>5. m <= Len(a) /\ m < Len(c) /\ \A i \in 1 .. m : a[i] = c[i]
  <2>1. m <= Len(a) /\ m < Len(c)
    BY <1>1, <1>2, <1>4 DEF SplitAt
  <2>2. ASSUME NEW i \in 1 .. m PROVE a[i] = c[i]
    <3>1. i \in 1 .. k /\ i \in 1 .. l
      BY <1>3
    <3> QED BY <1>1, <1>2, <3>1 DEF SplitAt
  <2> QED BY <2>1, <2>2
<1>6. m = Len(a) \/ a[m + 1] < c[m + 1]
  <2> SUFFICES ASSUME m < Len(a) PROVE a[m + 1] < c[m + 1]
    BY <1>3, <1>4, <1>5
  <2>1. CASE k < l
    <3>1. m = k /\ a[k + 1] < b[k + 1]
      BY <1>1, <1>4, <2>1 DEF SplitAt
    <3>2. b[k + 1] = c[k + 1]
      <4>1. k + 1 \in 1 .. l
        BY <2>1
      <4> QED BY <1>2, <4>1 DEF SplitAt
    <3> QED BY <3>1, <3>2
  <2>2. CASE l < k
    <3>1. m = l /\ l < Len(b)
      BY <1>1, <1>4, <2>2 DEF SplitAt
    <3>2. b[l + 1] < c[l + 1]
      BY <1>2, <1>4, <3>1 DEF SplitAt
    <3>3. a[l + 1] = b[l + 1]
      <4>1. l + 1 \in 1 .. k
        BY <2>2
      <4> QED BY <1>1, <4>1 DEF SplitAt
    <3> QED BY <3>1, <3>2, <3>3
  <2>3. CASE k = l
    <3>1. m = k /\ m < Len(b) /\ m < Len(c)
      BY <1>1, <1>2, <1>4, <2>3 DEF SplitAt
    <3>2. a[m + 1] < b[m + 1] /\ b[m + 1] < c[m + 1]
      BY <1>1, <1>2, <1>4, <2>3, <3>1 DEF SplitAt
    <3> HIDE DEF m
    <3>3. a[m + 1] \in Nat /\ b[m + 1] \in Nat /\ c[m + 1] \in Nat
      BY SMTT(30), <1>3, <3>1
    <3> QED BY <3>2, <3>3
  <2> QED BY <2>1, <2>2, <2>3
<1>7. SplitAt(a, c, m)
  <2> HIDE DEF m
  <2> QED BY <1>3, <1>5, <1>6 DEF SplitAt
<1> HIDE DEF m
<1> QED BY <1>3, <1>7, BeforeIs

\* Where two names part, if they do.
LEMMA NamesPart ==
    ASSUME NEW a \in Seq(Nat), NEW b \in Seq(Nat)
    PROVE  \E k \in Nat : /\ k <= Len(a) /\ k <= Len(b)
                          /\ \A i \in 1 .. k : a[i] = b[i]
                          /\ k = Len(a) \/ k = Len(b) \/ a[k + 1] # b[k + 1]
<1> DEFINE S == {k \in Nat : k = Len(a) \/ k = Len(b) \/ a[k + 1] # b[k + 1]}
<1>1. Len(a) \in Nat /\ Len(b) \in Nat
  OBVIOUS
<1>2. Len(a) \in S /\ Len(b) \in S /\ S \in SUBSET Nat
  BY <1>1
<1>3. PICK k \in S : \A l \in S : k <= l
  BY <1>2, LeastNumber
<1>4. ASSUME NEW i \in 1 .. k PROVE a[i] = b[i]
  <2>1. i - 1 \in Nat /\ ~(k <= i - 1) /\ (i - 1) + 1 = i
    OBVIOUS
  <2>2. i - 1 \notin S
    BY <1>3, <2>1
  <2> QED BY <2>1, <2>2
<1>5. k <= Len(a) /\ k <= Len(b)
  BY <1>2, <1>3
<1> QED BY <1>3, <1>4, <1>5

LEMMA OneIsBefore ==
    ASSUME NEW a \in Seq(Nat), NEW b \in Seq(Nat), a # b
    PROVE  IsBefore(a, b) \/ IsBefore(b, a)
<1>1. PICK k \in Nat : /\ k <= Len(a) /\ k <= Len(b)
                       /\ \A i \in 1 .. k : a[i] = b[i]
                       /\ k = Len(a) \/ k = Len(b) \/ a[k + 1] # b[k + 1]
  BY NamesPart
<1>2. Len(a) \in Nat /\ Len(b) \in Nat
  OBVIOUS
<1>3. CASE k = Len(a) /\ k = Len(b)
  <2>1. \A i \in 1 .. Len(a) : a[i] = b[i]
    BY <1>1, <1>3
  <2> QED BY <1>3, <2>1, SeqEqual
<1>4. CASE k = Len(a) /\ k < Len(b)
  <2>1. SplitAt(a, b, k)
    BY <1>1, <1>4 DEF SplitAt
  <2> QED BY <2>1, BeforeIs
<1>5. CASE k < Len(a) /\ k = Len(b)
  <2>1. SplitAt(b, a, k)
    BY <1>1, <1>5 DEF SplitAt
  <2> QED BY <2>1, BeforeIs
<1>6. CASE k < Len(a) /\ k < Len(b)
  <2>1. a[k + 1] \in Nat /\ b[k + 1] \in Nat /\ a[k + 1] # b[k + 1]
    BY <1>1, <1>6
  <2>2. SplitAt(a, b, k) \/ SplitAt(b, a, k)
    BY <1>1, <1>6, <2>1 DEF SplitAt
  <2> QED BY <2>2, BeforeIs
<1> QED BY <1>1, <1>2, <1>3, <1>4, <1>5, <1>6

\* What begins with a directory's name stands together.
LEMMA PrefixBetween ==
    ASSUME NEW f \in Seq(Nat), NEW a \in Seq(Nat), NEW b \in Seq(Nat), NEW c \in Seq(Nat),
           IsPrefix(f, a), IsPrefix(f, c), IsBefore(a, b), IsBefore(b, c)
    PROVE  IsPrefix(f, b)
<1>1. PICK k \in Nat : SplitAt(a, b, k)
  BY BeforeIs
<1>2. PICK l \in Nat : SplitAt(b, c, l)
  BY BeforeIs
<1>3. Len(f) \in Nat /\ Len(a) \in Nat /\ Len(b) \in Nat /\ Len(c) \in Nat
  OBVIOUS
<1>4. /\ Len(f) <= Len(a) /\ \A i \in 1 .. Len(f) : f[i] = a[i]
      /\ Len(f) <= Len(c) /\ \A i \in 1 .. Len(f) : f[i] = c[i]
  BY PrefixIs
<1>5. CASE Len(f) <= k
  <2>1. Len(f) <= Len(b) /\ \A i \in 1 .. Len(f) : f[i] = b[i]
    BY <1>1, <1>3, <1>4, <1>5 DEF SplitAt
  <2> QED BY <2>1, PrefixIs
<1>6. CASE Len(f) <= l
  <2>1. Len(f) <= Len(b) /\ \A i \in 1 .. Len(f) : f[i] = b[i]
    BY <1>2, <1>3, <1>4, <1>6 DEF SplitAt
  <2> QED BY <2>1, PrefixIs
<1>7. CASE k < Len(f) /\ l < Len(f)
  <2>1. k < Len(a) /\ k < Len(b) /\ a[k + 1] < b[k + 1]
    BY <1>1, <1>3, <1>4, <1>7 DEF SplitAt
  <2>2. l <= Len(b) /\ (l = Len(b) \/ b[l + 1] < c[l + 1])
    BY <1>2 DEF SplitAt
  <2>3. a[k + 1] = c[k + 1] /\ a[l + 1] = c[l + 1]
    <3>1. k + 1 \in 1 .. Len(f) /\ l + 1 \in 1 .. Len(f)
      BY <1>3, <1>7
    <3>2. \A i \in 1 .. Len(f) : a[i] = c[i]
      BY <1>4
    <3> QED BY <3>1, <3>2
  <2>4. CASE l < k
    <3>1. l + 1 \in 1 .. k /\ l < Len(b)
      BY <1>3, <2>1, <2>4
    <3>2. a[l + 1] = b[l + 1]
      BY <1>1, <3>1 DEF SplitAt
    <3>3. b[l + 1] < c[l + 1] /\ b[l + 1] \in Nat
      BY <1>3, <2>2, <3>1
    <3> QED BY <2>3, <3>2, <3>3
  <2>5. CASE k < l
    <3>1. k + 1 \in 1 .. l
      BY <2>5
    <3>2. b[k + 1] = c[k + 1]
      BY <1>2, <3>1 DEF SplitAt
    <3>3. b[k + 1] \in Nat
      BY <1>3, <2>1
    <3> QED BY <2>1, <2>3, <3>2, <3>3
  <2>6. CASE k = l
    <3>1. a[k + 1] \in Nat /\ b[k + 1] \in Nat
      BY SMTT(30), <1>3, <2>1
    <3>2. b[k + 1] < c[k + 1]
      BY <1>3, <2>1, <2>2, <2>6
    <3> QED BY <2>1, <2>3, <3>1, <3>2
  <2> QED BY <2>4, <2>5, <2>6
<1> QED BY <1>3, <1>5, <1>6, <1>7

-----------------------------------------------------------------------------
(* The entries in their order.                                             *)

IsEntries(E) == \A e \in E : e.name \in Seq(Nat)

InOrder(es) == \A i, j \in 1 .. Len(es) : i < j => IsBefore(es[i].name, es[j].name)

\* The search has come so near: what is below low is before the name, what is
\* above high is after it, and no more than this is between them.
Nearing(es, name, n, s) ==
    /\ s \in [low : Int, high : Int]
    /\ 1 <= s.low /\ s.low <= s.high + 1 /\ s.high <= Len(es)
    /\ \A i \in 1 .. Len(es) : /\ i < s.low => IsBefore(es[i].name, name)
                               /\ i > s.high => IsBefore(name, es[i].name)
    /\ s.low <= s.high => s.high - s.low + 1 <= Len(es) - n

LEMMA BisectedType ==
    ASSUME NEW es, NEW name, NEW s \in [low : Int, high : Int]
    PROVE  Bisected(es, name, s) \in [low : Int, high : Int]
<1> DEFINE mid == s.low + (s.high - s.low) \div 2
<1>1. mid \in Int
  OBVIOUS
<1> HIDE DEF mid
<1> QED BY <1>1 DEF Bisected, mid

LEMMA BisectedNears ==
    ASSUME NEW E, IsEntries(E), NEW es \in Seq(E), InOrder(es), NEW name \in Seq(Nat),
           \A i \in 1 .. Len(es) : es[i].name # name,
           NEW n \in Nat, NEW s, Nearing(es, name, n, s)
    PROVE  Nearing(es, name, n + 1, Bisected(es, name, s))
<1> DEFINE mid == s.low + (s.high - s.low) \div 2
           r == Bisected(es, name, s)
<1> SUFFICES Nearing(es, name, n + 1, r)
  OBVIOUS
<1>1. s \in [low : Int, high : Int] /\ s.low \in Int /\ s.high \in Int /\ Len(es) \in Nat
  BY DEF Nearing
<1>2. CASE s.low > s.high
  <2>1. r = s /\ ~(s.low <= s.high)
    BY <1>1, <1>2 DEF Bisected
  <2> HIDE DEF r
  <2> QED BY <2>1 DEF Nearing
<1>3. CASE s.low <= s.high
  <2>1. mid \in Int /\ s.low <= mid /\ mid <= s.high
    BY <1>1, <1>3
  <2>2. mid \in 1 .. Len(es)
    BY <1>1, <2>1 DEF Nearing
  <2>3. es[mid].name # name /\ es[mid].name \in Seq(Nat) /\ es[mid] \in E
    BY <2>2 DEF IsEntries
  <2>4. r = IF IsBefore(es[mid].name, name) THEN [s EXCEPT !.low = mid + 1]
            ELSE [s EXCEPT !.high = mid - 1]
    BY <1>1, <1>3, <2>3 DEF Bisected
  <2> HIDE DEF mid, r
  <2>5. \A i \in 1 .. Len(es) : es[i].name \in Seq(Nat)
    BY DEF IsEntries
  <2>6. CASE IsBefore(es[mid].name, name)
    <3>1. r \in [low : Int, high : Int] /\ r.low = mid + 1 /\ r.high = s.high
      BY <1>1, <2>1, <2>4, <2>6
    <3>2. ASSUME NEW i \in 1 .. Len(es), i < r.low PROVE IsBefore(es[i].name, name)
      <4>1. CASE i = mid
        BY <2>6, <4>1
      <4>2. CASE i < mid
        <5>1. IsBefore(es[i].name, es[mid].name)
          BY <2>2, <4>2 DEF InOrder
        <5> QED BY <2>3, <2>5, <2>6, <5>1, BeforeGoesOn
      <4>3. i = mid \/ i < mid
        BY <2>1, <3>1, <3>2
      <4> QED BY <4>1, <4>2, <4>3
    <3>3. \A i \in 1 .. Len(es) : i > r.high => IsBefore(name, es[i].name)
      BY <3>1 DEF Nearing
    <3>4. /\ 1 <= r.low /\ r.low <= r.high + 1 /\ r.high <= Len(es)
          /\ r.low <= r.high => r.high - r.low + 1 <= Len(es) - (n + 1)
      BY <1>1, <1>3, <2>1, <3>1 DEF Nearing
    <3> QED BY <3>1, <3>2, <3>3, <3>4 DEF Nearing
  <2>7. CASE ~IsBefore(es[mid].name, name)
    <3>1. r \in [low : Int, high : Int] /\ r.low = s.low /\ r.high = mid - 1
      BY <1>1, <2>1, <2>4, <2>7
    <3>2. IsBefore(name, es[mid].name)
      BY <2>3, <2>7, OneIsBefore
    <3>3. ASSUME NEW i \in 1 .. Len(es), i > r.high PROVE IsBefore(name, es[i].name)
      <4>1. CASE i = mid
        BY <3>2, <4>1
      <4>2. CASE mid < i
        <5>1. IsBefore(es[mid].name, es[i].name)
          BY <2>2, <4>2 DEF InOrder
        <5> QED BY <2>3, <2>5, <3>2, <5>1, BeforeGoesOn
      <4>3. i = mid \/ mid < i
        BY <2>1, <3>1, <3>3
      <4> QED BY <4>1, <4>2, <4>3
    <3>4. \A i \in 1 .. Len(es) : i < r.low => IsBefore(es[i].name, name)
      BY <3>1 DEF Nearing
    <3>5. /\ 1 <= r.low /\ r.low <= r.high + 1 /\ r.high <= Len(es)
          /\ r.low <= r.high => r.high - r.low + 1 <= Len(es) - (n + 1)
      BY <1>1, <1>3, <2>1, <3>1 DEF Nearing
    <3> QED BY <3>1, <3>3, <3>4, <3>5 DEF Nearing
  <2> QED BY <2>6, <2>7
<1> QED BY <1>1, <1>2, <1>3

\* The search ends where the name belongs.
LEMMA TargetIs ==
    ASSUME NEW E, IsEntries(E), NEW es \in Seq(E), InOrder(es), NEW name \in Seq(Nat),
           \A i \in 1 .. Len(es) : es[i].name # name
    PROVE  /\ Target(es, name) \in 1 .. Len(es) + 1
           /\ \A i \in 1 .. Len(es) : IF i < Target(es, name) THEN IsBefore(es[i].name, name)
                                      ELSE IsBefore(name, es[i].name)
<1> DEFINE V == [low : Int, high : Int]
           b == [low |-> 1, high |-> Len(es)]
           step == [n \in Nat |-> [s \in V |-> Bisected(es, name, s)]]
           Body(g) == [n \in Nat |-> IF n = 0 THEN b ELSE Bisected(es, name, g[n - 1])]
           turn == CHOOSE g : g = Body(g)
<1>1. Len(es) \in Nat /\ b \in V
  OBVIOUS
<1> HIDE DEF b, V
<1>2. step \in [Nat -> [V -> V]]
  BY BisectedType DEF V
<1>3. \A n \in Nat, s \in V : step[n][s] = Bisected(es, name, s)
  OBVIOUS
<1> HIDE DEF step
<1>4. PICK f : Iterates(f, V, b, step)
  BY <1>1, <1>2, Iteration, Zenon
<1>5. f = Body(f)
  <2>1. ASSUME NEW n \in Nat, n # 0 PROVE f[n] = Bisected(es, name, f[n - 1])
    <3>1. n - 1 \in Nat /\ (n - 1) + 1 = n
      BY <2>1
    <3> QED BY <1>3, <1>4, <3>1 DEF Iterates
  <2> QED BY <1>4, <2>1 DEF Iterates
<1>6. turn = Body(turn)
  <2> HIDE DEF Body
  <2> QED BY <1>5
<1>7. Target(es, name) = turn[Len(es)].high + 1
  BY DEF Target, b
<1>8. turn[0] = b /\ \A n \in Nat : turn[n + 1] = Bisected(es, name, turn[n])
  <2> HIDE DEF turn
  <2> QED BY <1>6
<1> HIDE DEF turn
<1> DEFINE S == {n \in Nat : Nearing(es, name, n, turn[n])}
<1>9. 0 \in S
  <2>1. b \in [low : Int, high : Int] /\ b.low = 1 /\ b.high = Len(es)
    BY <1>1 DEF b
  <2>2. Nearing(es, name, 0, b)
    BY <1>1, <2>1 DEF Nearing
  <2> QED BY <1>8, <2>2
<1>10. \A n \in Nat : n \in S => n + 1 \in S
  <2>1. ASSUME NEW n \in Nat, NEW s, Nearing(es, name, n, s)
        PROVE  Nearing(es, name, n + 1, Bisected(es, name, s))
    BY <2>1, BisectedNears
  <2> QED BY <1>8, <2>1
<1> HIDE DEF S
<1>11. Nat \subseteq S
  BY <1>9, <1>10, Induction
<1> DEFINE s == turn[Len(es)]
<1>12. Nearing(es, name, Len(es), s)
  BY <1>1, <1>11 DEF S
<1> HIDE DEF s
<1>13. s.low \in Int /\ s.high \in Int /\ s.low = s.high + 1 /\ 1 <= s.low /\ s.high <= Len(es)
  BY <1>1, <1>12 DEF Nearing
<1>14. Target(es, name) = s.low
  BY <1>7, <1>13 DEF s
<1> QED BY <1>1, <1>12, <1>13, <1>14 DEF Nearing

\* new has this entry and those of es, in their order.
HasToo(E, es, e, new) ==
    /\ new \in Seq(E) /\ Len(new) = Len(es) + 1 /\ InOrder(new)
    /\ {new[i] : i \in 1 .. Len(new)} = {es[i] : i \in 1 .. Len(es)} \cup {e}

\* An entry goes between those before and those after it.
LEMMA WithEntryIs ==
    ASSUME NEW E, IsEntries(E), NEW es \in Seq(E), InOrder(es), NEW e \in E,
           \A i \in 1 .. Len(es) : es[i].name # e.name
    PROVE  HasToo(E, es, e, WithEntry(es, e))
<1> DEFINE t == Target(es, e.name)
           front == SubSeq(es, 1, t - 1)
           back == SubSeq(es, t, Len(es))
           new == WithEntry(es, e)
<1>1. Len(es) \in Nat /\ e.name \in Seq(Nat) /\ \A i \in 1 .. Len(es) : es[i] \in E /\ es[i].name \in Seq(Nat)
  BY DEF IsEntries
<1>2. /\ t \in 1 .. Len(es) + 1
      /\ \A i \in 1 .. Len(es) : IF i < t THEN IsBefore(es[i].name, e.name)
                                 ELSE IsBefore(e.name, es[i].name)
  BY <1>1, TargetIs
<1>3. new = front \o <<e>> \o back
  BY DEF WithEntry, InsertAt
<1> HIDE DEF t, new
<1>4. front \in Seq(E) /\ Len(front) = t - 1 /\ \A i \in 1 .. t - 1 : front[i] = es[i]
  <2>1. 1 \in Int /\ t - 1 \in Int /\ (\A i \in 1 .. t - 1 : es[i] \in E) /\ (t - 1) - 1 + 1 = t - 1
    BY <1>1, <1>2
  <2>2. /\ front \in Seq(E) /\ Len(front) = IF 1 <= t - 1 THEN (t - 1) - 1 + 1 ELSE 0
        /\ \A i \in 1 .. (t - 1) - 1 + 1 : front[i] = es[1 + i - 1]
    BY <2>1, SubSeqProperties
  <2> HIDE DEF front
  <2>3. Len(front) = t - 1
    BY <1>2, <2>2
  <2>4. ASSUME NEW i \in 1 .. t - 1 PROVE front[i] = es[i]
    <3>1. 1 + i - 1 = i
      OBVIOUS
    <3> QED BY <2>1, <2>2, <3>1
  <2> QED BY <2>2, <2>3, <2>4
<1>5. back \in Seq(E) /\ Len(back) = Len(es) - t + 1 /\ \A i \in 1 .. Len(es) - t + 1 : back[i] = es[t + i - 1]
  <2>1. t \in Int /\ Len(es) \in Int /\ (\A i \in t .. Len(es) : es[i] \in E)
    BY <1>1, <1>2
  <2>2. /\ back \in Seq(E) /\ Len(back) = IF t <= Len(es) THEN Len(es) - t + 1 ELSE 0
        /\ \A i \in 1 .. Len(es) - t + 1 : back[i] = es[t + i - 1]
    BY <2>1, SubSeqProperties
  <2> HIDE DEF back
  <2> QED BY <1>2, <2>1, <2>2
<1> HIDE DEF front, back
<1>6. <<e>> \in Seq(E) /\ Len(<<e>>) = 1 /\ <<e>>[1] = e
  OBVIOUS
<1>7. /\ front \o <<e>> \in Seq(E) /\ Len(front \o <<e>>) = t
      /\ \A i \in 1 .. t : (front \o <<e>>)[i] = IF i < t THEN es[i] ELSE e
  <2>1. /\ front \o <<e>> \in Seq(E) /\ Len(front \o <<e>>) = Len(front) + Len(<<e>>)
        /\ \A i \in 1 .. Len(front) + Len(<<e>>) :
              (front \o <<e>>)[i] = IF i <= Len(front) THEN front[i] ELSE <<e>>[i - Len(front)]
    BY <1>4, <1>6, ConcatProperties
  <2> QED BY <1>2, <1>4, <1>6, <2>1
<1>8. /\ new \in Seq(E) /\ Len(new) = Len(es) + 1
      /\ \A i \in 1 .. Len(es) + 1 :
            new[i] = IF i < t THEN es[i] ELSE IF i = t THEN e ELSE es[i - 1]
  <2> DEFINE most == front \o <<e>>
  <2>1. most \in Seq(E) /\ Len(most) = t /\ \A i \in 1 .. t : most[i] = IF i < t THEN es[i] ELSE e
    BY <1>7
  <2> HIDE DEF most
  <2>2. /\ most \o back \in Seq(E) /\ Len(most \o back) = Len(most) + Len(back)
        /\ \A i \in 1 .. Len(most) + Len(back) :
              (most \o back)[i] = IF i <= Len(most) THEN most[i] ELSE back[i - Len(most)]
    BY <1>5, <2>1, ConcatProperties
  <2>3. new = most \o back
    BY <1>3 DEF most
  <2>4. Len(most) + Len(back) = Len(es) + 1
    BY <1>1, <1>2, <1>5, <2>1
  <2>5. ASSUME NEW i \in 1 .. Len(es) + 1
        PROVE  new[i] = IF i < t THEN es[i] ELSE IF i = t THEN e ELSE es[i - 1]
    <3>1. new[i] = IF i <= t THEN most[i] ELSE back[i - t]
      BY <2>1, <2>2, <2>3, <2>4
    <3>2. CASE i <= t
      BY <1>2, <2>1, <3>1, <3>2
    <3>3. CASE i > t
      <4>1. i - t \in 1 .. Len(es) - t + 1 /\ t + (i - t) - 1 = i - 1
        BY <1>1, <1>2, <3>3
      <4> QED BY <1>2, <1>5, <3>1, <3>3, <4>1
    <3> QED BY <1>2, <3>2, <3>3
  <2> QED BY <2>2, <2>3, <2>4, <2>5
<1>9. {new[i] : i \in 1 .. Len(new)} = {es[i] : i \in 1 .. Len(es)} \cup {e}
  <2>1. ASSUME NEW i \in 1 .. Len(new) PROVE new[i] \in {es[k] : k \in 1 .. Len(es)} \cup {e}
    <3>1. CASE i < t
      BY <1>1, <1>2, <1>8, <3>1
    <3>2. CASE i = t
      BY <1>1, <1>2, <1>8, <3>2
    <3>3. CASE i > t
      <4>1. i - 1 \in 1 .. Len(es) /\ new[i] = es[i - 1]
        BY <1>1, <1>2, <1>8, <3>3
      <4> QED BY <4>1
    <3> QED BY <1>2, <3>1, <3>2, <3>3
  <2>2. e \in {new[i] : i \in 1 .. Len(new)}
    <3>1. t \in 1 .. Len(new) /\ new[t] = e
      BY <1>1, <1>2, <1>8
    <3> QED BY <3>1
  <2>3. ASSUME NEW k \in 1 .. Len(es) PROVE es[k] \in {new[i] : i \in 1 .. Len(new)}
    <3>1. CASE k < t
      <4>1. k \in 1 .. Len(new) /\ new[k] = es[k]
        BY <1>1, <1>2, <1>8, <3>1
      <4> QED BY <4>1
    <3>2. CASE k >= t
      <4>1. k + 1 \in 1 .. Len(new) /\ (k + 1) - 1 = k
        BY <1>1, <1>8
      <4>2. ~(k + 1 < t) /\ k + 1 # t
        BY <1>2, <3>2
      <4>3. new[k + 1] = es[k]
        BY <1>8, <4>1, <4>2
      <4> QED BY <4>1, <4>3
    <3> QED BY <1>2, <3>1, <3>2
  <2> QED BY <2>1, <2>2, <2>3
<1>10. ASSUME NEW i \in 1 .. Len(new), NEW j \in 1 .. Len(new), i < j
       PROVE  IsBefore(new[i].name, new[j].name)
  <2>1. new[i] = IF i < t THEN es[i] ELSE IF i = t THEN e ELSE es[i - 1]
    BY <1>1, <1>8
  <2>2. new[j] = IF j < t THEN es[j] ELSE IF j = t THEN e ELSE es[j - 1]
    BY <1>1, <1>8
  <2>3. CASE j < t
    <3>1. i < t /\ i \in 1 .. Len(es) /\ j \in 1 .. Len(es)
      BY <1>1, <1>2, <1>8, <1>10, <2>3
    <3> QED BY <1>10, <2>1, <2>2, <2>3, <3>1 DEF InOrder
  <2>4. CASE j = t
    <3>1. i < t /\ i \in 1 .. Len(es)
      BY <1>1, <1>2, <1>8, <1>10, <2>4
    <3> QED BY <1>2, <2>1, <2>2, <2>4, <3>1
  <2>5. CASE j > t /\ i < t
    <3>1. j - 1 \in 1 .. Len(es) /\ i \in 1 .. Len(es) /\ i < j - 1
      BY <1>1, <1>2, <1>8, <2>5
    <3>2. new[i] = es[i] /\ new[j] = es[j - 1]
      BY <1>2, <2>1, <2>2, <2>5
    <3> QED BY <3>1, <3>2 DEF InOrder
  <2>6. CASE j > t /\ i = t
    <3>1. j - 1 \in 1 .. Len(es) /\ ~(j - 1 < t)
      BY <1>1, <1>2, <1>8, <2>6
    <3>2. new[i] = e /\ new[j] = es[j - 1]
      BY <1>2, <2>1, <2>2, <2>6
    <3> QED BY <1>2, <3>1, <3>2
  <2>7. CASE j > t /\ i > t
    <3>1. j - 1 \in 1 .. Len(es) /\ i - 1 \in 1 .. Len(es) /\ i - 1 < j - 1
      BY <1>1, <1>2, <1>8, <1>10, <2>7
    <3>2. new[i] = es[i - 1] /\ new[j] = es[j - 1]
      BY <1>2, <2>1, <2>2, <2>7
    <3> QED BY <3>1, <3>2 DEF InOrder
  <2> QED BY <1>2, <2>3, <2>4, <2>5, <2>6, <2>7
<1> QED BY <1>8, <1>9, <1>10 DEF InOrder, HasToo, new

\* The first n entries of the directory, in order.
Filed(E, d, n, x) ==
    /\ x \in Seq(E) /\ Len(x) = n /\ InOrder(x)
    /\ {x[i] : i \in 1 .. n} = {d[i] : i \in 1 .. n}

LEMMA NoneFiled == ASSUME NEW E, NEW d PROVE Filed(E, d, 0, <<>>)
<1>1. <<>> \in Seq(E) /\ Len(<<>>) = 0 /\ 1 .. 0 = {}
  OBVIOUS
<1> QED BY <1>1 DEF Filed, InOrder

LEMMA FiledStep ==
    ASSUME NEW E, IsEntries(E), NEW d \in Seq(E),
           \A i, j \in 1 .. Len(d) : d[i].name = d[j].name => i = j,
           NEW n \in Nat, n < Len(d), NEW x, Filed(E, d, n, x)
    PROVE  Filed(E, d, n + 1, WithEntry(x, d[n + 1]))
<1> DEFINE e == d[n + 1]
           new == WithEntry(x, e)
<1>1. n + 1 \in 1 .. Len(d) /\ e \in E
  OBVIOUS
<1>2. x \in Seq(E) /\ Len(x) = n /\ InOrder(x) /\ {x[i] : i \in 1 .. n} = {d[i] : i \in 1 .. n}
  BY DEF Filed
<1>3. ASSUME NEW i \in 1 .. Len(x) PROVE x[i].name # e.name
  <2>1. PICK k \in 1 .. n : x[i] = d[k]
    BY <1>2
  <2>2. k \in 1 .. Len(d) /\ k # n + 1
    BY <1>1
  <2> QED BY <1>1, <2>1, <2>2
<1> HIDE DEF e, new
<1>4. /\ new \in Seq(E) /\ Len(new) = Len(x) + 1 /\ InOrder(new)
      /\ {new[i] : i \in 1 .. Len(new)} = {x[i] : i \in 1 .. Len(x)} \cup {e}
  <2>1. HasToo(E, x, e, new)
    BY <1>1, <1>2, <1>3, WithEntryIs DEF new
  <2> QED BY <2>1 DEF HasToo
<1>5. {d[i] : i \in 1 .. n + 1} = {d[i] : i \in 1 .. n} \cup {e}
  <2>1. \A i : i \in 1 .. n + 1 <=> i \in 1 .. n \/ i = n + 1
    OBVIOUS
  <2> QED BY <2>1 DEF e
<1>6. Filed(E, d, n + 1, new)
  BY <1>2, <1>4, <1>5 DEF Filed
<1> QED BY <1>6 DEF new, e

LEMMA SortedIs ==
    ASSUME NEW E, IsEntries(E), NEW d \in Seq(E),
           \A i, j \in 1 .. Len(d) : d[i].name = d[j].name => i = j
    PROVE  Filed(E, d, Len(d), Sorted(d))
<1> DEFINE N == Len(d)
           V == Seq(E)
           step == [n \in Nat |-> [x \in V |->
                       IF n < N /\ Filed(E, d, n, x) THEN WithEntry(x, d[n + 1]) ELSE x]]
           Body(g) == [n \in 0 .. N |-> IF n = 0 THEN <<>> ELSE WithEntry(g[n - 1], d[n])]
           first == CHOOSE g : g = Body(g)
<1>1. N \in Nat /\ <<>> \in V
  OBVIOUS
<1> HIDE DEF N
<1>2. ASSUME NEW n \in Nat, NEW x, n < N, Filed(E, d, n, x)
      PROVE  Filed(E, d, n + 1, WithEntry(x, d[n + 1]))
  BY <1>2, FiledStep DEF N
<1>3. step \in [Nat -> [V -> V]]
  <2>1. ASSUME NEW n \in Nat, NEW x \in V
        PROVE  (IF n < N /\ Filed(E, d, n, x) THEN WithEntry(x, d[n + 1]) ELSE x) \in V
    BY <1>2 DEF Filed
  <2> QED BY <2>1
<1>4. \A n \in Nat, x \in V : n < N /\ Filed(E, d, n, x) => step[n][x] = WithEntry(x, d[n + 1])
  OBVIOUS
<1> HIDE DEF step, V
<1>5. PICK f : Iterates(f, V, <<>>, step)
  BY <1>1, <1>3, Iteration, Zenon
<1>6. \A n \in Nat : n <= N => Filed(E, d, n, f[n])
  <2> DEFINE S == {n \in Nat : n <= N => Filed(E, d, n, f[n])}
  <2>1. 0 \in S
    BY <1>5, NoneFiled DEF Iterates
  <2>2. ASSUME NEW n \in Nat, n \in S PROVE n + 1 \in S
    <3> SUFFICES ASSUME n + 1 <= N PROVE Filed(E, d, n + 1, f[n + 1])
      OBVIOUS
    <3>1. n < N /\ n <= N
      BY <1>1
    <3>2. Filed(E, d, n, f[n])
      BY <2>2, <3>1
    <3>3. f[n + 1] = step[n][f[n]] /\ f[n] \in V
      BY <1>5 DEF Iterates
    <3>4. f[n + 1] = WithEntry(f[n], d[n + 1])
      BY <1>4, <3>1, <3>2, <3>3
    <3> QED BY <1>2, <3>1, <3>2, <3>4
  <2> HIDE DEF S
  <2>3. Nat \subseteq S
    BY <2>1, <2>2, Induction
  <2> QED BY <2>3 DEF S
<1> DEFINE h == [n \in 0 .. N |-> f[n]]
<1>7. h = Body(h)
  <2>1. ASSUME NEW n \in 0 .. N, n # 0 PROVE h[n] = WithEntry(h[n - 1], d[n])
    <3>1. n - 1 \in Nat /\ n - 1 \in 0 .. N /\ n - 1 < N /\ n - 1 <= N /\ (n - 1) + 1 = n
      BY <1>1, <2>1
    <3>2. Filed(E, d, n - 1, f[n - 1])
      BY <1>6, <3>1
    <3>3. f[n] = step[n - 1][f[n - 1]] /\ f[n - 1] \in V
      BY <1>5, <3>1 DEF Iterates
    <3>4. f[n] = WithEntry(f[n - 1], d[n])
      BY <1>4, <3>1, <3>2, <3>3
    <3> QED BY <3>1, <3>4
  <2>2. h[0] = <<>>
    BY <1>1, <1>5 DEF Iterates
  <2> QED BY <2>1, <2>2
<1>8. first = Body(first)
  <2> HIDE DEF Body, h
  <2> QED BY <1>7
<1>9. Sorted(d) = first[N]
  BY DEF Sorted, N
<1>10. first[0] = <<>> /\ \A n \in 1 .. N : first[n] = WithEntry(first[n - 1], d[n])
  <2> HIDE DEF first
  <2> QED BY <1>1, <1>8
<1> HIDE DEF first
<1>11. \A n \in Nat : n <= N => Filed(E, d, n, first[n])
  <2> DEFINE S == {n \in Nat : n <= N => Filed(E, d, n, first[n])}
  <2>1. 0 \in S
    BY <1>10, NoneFiled
  <2>2. ASSUME NEW n \in Nat, n \in S PROVE n + 1 \in S
    <3> SUFFICES ASSUME n + 1 <= N PROVE Filed(E, d, n + 1, first[n + 1])
      OBVIOUS
    <3>1. n < N /\ n <= N /\ n + 1 \in 1 .. N /\ (n + 1) - 1 = n
      BY <1>1
    <3>2. first[n + 1] = WithEntry(first[n], d[n + 1])
      BY <1>10, <3>1
    <3> QED BY <1>2, <2>2, <3>1, <3>2
  <2> HIDE DEF S
  <2>3. Nat \subseteq S
    BY <2>1, <2>2, Induction
  <2> QED BY <2>3 DEF S
<1> QED BY <1>1, <1>9, <1>11 DEF N
-----------------------------------------------------------------------------
(* The table of the entries.                                               *)

LEMMA HashIs ==
    ASSUME NEW name \in Seq(Nat), HashRange \in Nat \ {0}
    PROVE  ComputeHash(name) \in Nat
<1> DEFINE N == Len(name)
           step == [n \in Nat |-> [x \in Nat |-> IF n < N THEN (x * 31 + name[n + 1]) % HashRange ELSE x]]
           Body(g) == [n \in 0 .. N |-> IF n = 0 THEN 2 ELSE (g[n - 1] * 31 + name[n]) % HashRange]
           hash == CHOOSE g : g = Body(g)
<1>1. N \in Nat /\ 2 \in Nat
  OBVIOUS
<1>2. ASSUME NEW n \in Nat, n < N, NEW x \in Nat PROVE (x * 31 + name[n + 1]) % HashRange \in Nat
  <2>1. name[n + 1] \in Nat
    BY <1>2
  <2>2. x * 31 + name[n + 1] \in Nat
    BY <2>1
  <2> QED BY <2>2
<1> HIDE DEF N
<1>3. step \in [Nat -> [Nat -> Nat]]
  BY <1>2
<1>4. \A n, x \in Nat : n < N => step[n][x] = (x * 31 + name[n + 1]) % HashRange
  OBVIOUS
<1> HIDE DEF step
<1>5. PICK f : Iterates(f, Nat, 2, step)
  BY <1>1, <1>3, Iteration, Zenon
<1> DEFINE h == [n \in 0 .. N |-> f[n]]
<1>6. h = Body(h)
  <2>1. ASSUME NEW n \in 0 .. N, n # 0 PROVE h[n] = (h[n - 1] * 31 + name[n]) % HashRange
    <3>1. n - 1 \in Nat /\ n - 1 \in 0 .. N /\ n - 1 < N /\ (n - 1) + 1 = n
      BY <1>1, <2>1
    <3>2. f[n] = step[n - 1][f[n - 1]] /\ f[n - 1] \in Nat
      BY <1>5, <3>1 DEF Iterates
    <3> QED BY <1>4, <3>1, <3>2
  <2>2. h[0] = 2
    BY <1>1, <1>5 DEF Iterates
  <2> QED BY <2>1, <2>2
<1>7. hash = Body(hash)
  <2> HIDE DEF Body, h
  <2> QED BY <1>6
<1>8. ComputeHash(name) = hash[N]
  BY DEF ComputeHash, N
<1> HIDE DEF hash
<1>9. \A n \in Nat : n <= N => hash[n] \in Nat
  <2> DEFINE S == {n \in Nat : n <= N => hash[n] \in Nat}
  <2>1. 0 \in S
    BY <1>1, <1>7
  <2>2. ASSUME NEW n \in Nat, n \in S PROVE n + 1 \in S
    <3> SUFFICES ASSUME n + 1 <= N PROVE hash[n + 1] \in Nat
      OBVIOUS
    <3>1. n < N /\ n <= N /\ n + 1 \in 0 .. N /\ (n + 1) - 1 = n /\ n + 1 # 0
      BY <1>1
    <3>2. hash[n + 1] = (hash[n] * 31 + name[n + 1]) % HashRange
      BY <1>7, <3>1
    <3> QED BY <1>2, <2>2, <3>1, <3>2
  <2> HIDE DEF S
  <2>3. Nat \subseteq S
    BY <2>1, <2>2, Induction
  <2> QED BY <2>3 DEF S
<1> QED BY <1>1, <1>8, <1>9

\* The keys of the first n entries.
KeysUpTo(es, n) == {Keyed(es[i]) : i \in 1 .. n}

LEMMA AddedIs ==
    ASSUME NEW K, IsKeys(K), NEW t, NEW its, Sound(K, t, its), NEW k \in K \ its
    PROVE  Sound(K, Added(t, k), its \cup {k})
<1>1. SameName(t, k.name) = Same(t, k)
  BY DEF SameName, Same
<1> DEFINE r == mzHashTableLookup(t, k.hash, k, Same(t, k), TRUE)
<1>2. Added(t, k) = r.table
  BY <1>1 DEF Added
<1>3. Sound(K, r.table, its \cup {k})
  <2> HIDE DEF r
  <2> QED BY AddSound DEF r
<1> HIDE DEF r
<1> QED BY <1>2, <1>3

\* Tables of any size.
Tables(K) == [size : Nat \ {0}, live : Nat, dead : Nat,
              slots : UNION {[0 .. s - 1 -> SlotValues(K)] : s \in Nat \ {0}}]

LEMMA SoundIsTable == ASSUME NEW K, NEW t, NEW its, Sound(K, t, its) PROVE t \in Tables(K)
<1>1. t \in [size : Nat \ {0}, live : Nat, dead : Nat, slots : [0 .. t.size - 1 -> SlotValues(K)]]
  BY DEF Sound
<1> DEFINE W == [0 .. t.size - 1 -> SlotValues(K)]
           U == UNION {[0 .. s - 1 -> SlotValues(K)] : s \in Nat \ {0}}
<1>2. t.size \in Nat \ {0}
  BY <1>1
<1>3. W \subseteq U
  BY <1>2
<1>4. t \in [size : Nat \ {0}, live : Nat, dead : Nat, slots : W]
  BY <1>1
<1> HIDE DEF W, U
<1>5. t \in [size : Nat \ {0}, live : Nat, dead : Nat, slots : U]
  BY <1>3, <1>4
<1> QED BY <1>5 DEF Tables, U

LEMMA KeysStep ==
    ASSUME NEW K, IsKeys(K), NEW es, NEW n \in Nat, NEW m \in Nat, n < m,
           \A i \in 1 .. m : Keyed(es[i]) \in K,
           \A i, j \in 1 .. m : es[i].name = es[j].name => i = j,
           NEW t, Sound(K, t, KeysUpTo(es, n))
    PROVE  Sound(K, Added(t, Keyed(es[n + 1])), KeysUpTo(es, n + 1))
<1> DEFINE k == Keyed(es[n + 1])
<1>1. n + 1 \in 1 .. m
  OBVIOUS
<1>2. k \notin KeysUpTo(es, n)
  <2> SUFFICES ASSUME NEW i \in 1 .. n, k = Keyed(es[i]) PROVE FALSE
    BY DEF KeysUpTo
  <2>1. es[i].name = es[n + 1].name
    BY DEF Keyed
  <2>2. i \in 1 .. m /\ i # n + 1
    OBVIOUS
  <2> QED BY <1>1, <2>1, <2>2
<1>3. k \in K
  BY <1>1
<1>4. KeysUpTo(es, n + 1) = KeysUpTo(es, n) \cup {k}
  <2>1. \A i : i \in 1 .. n + 1 <=> i \in 1 .. n \/ i = n + 1
    OBVIOUS
  <2> QED BY <2>1 DEF KeysUpTo
<1> HIDE DEF k
<1>5. Sound(K, Added(t, k), KeysUpTo(es, n) \cup {k})
  BY <1>2, <1>3, AddedIs
<1> QED BY <1>4, <1>5 DEF k

LEMMA IndexedIs ==
    ASSUME NEW K, IsKeys(K), NEW E, NEW es \in Seq(E),
           \A i \in 1 .. Len(es) : Keyed(es[i]) \in K,
           \A i, j \in 1 .. Len(es) : es[i].name = es[j].name => i = j
    PROVE  Sound(K, Indexed(es), KeysUpTo(es, Len(es)))
<1> DEFINE N == Len(es)
           V == Tables(K)
           b == mzHashTableCreate(mzHashSize(Len(es)))
           step == [n \in Nat |-> [x \in V |->
                       IF n < N /\ Sound(K, x, KeysUpTo(es, n)) THEN Added(x, Keyed(es[n + 1])) ELSE x]]
           Body(g) == [n \in 0 .. N |-> IF n = 0 THEN b ELSE Added(g[n - 1], Keyed(es[n]))]
           first == CHOOSE g : g = Body(g)
<1>1. N \in Nat
  OBVIOUS
<1>2. Sound(K, b, KeysUpTo(es, 0)) /\ b \in V
  <2>1. mzHashSize(Len(es)) \in Nat \ {0}
    BY DEF mzHashSize, LoadDenom, LoadNumer
  <2>2. KeysUpTo(es, 0) = {}
    BY DEF KeysUpTo
  <2>3. Sound(K, b, {})
    BY <2>1, CreateSound
  <2> HIDE DEF b, V
  <2> QED BY <2>2, <2>3, SoundIsTable DEF V
<1> HIDE DEF N, b, V
<1>3. ASSUME NEW n \in Nat, NEW x, n < N, Sound(K, x, KeysUpTo(es, n))
      PROVE  Sound(K, Added(x, Keyed(es[n + 1])), KeysUpTo(es, n + 1))
  BY <1>1, <1>3, KeysStep DEF N
<1>4. step \in [Nat -> [V -> V]]
  <2>1. ASSUME NEW n \in Nat, NEW x \in V
        PROVE  (IF n < N /\ Sound(K, x, KeysUpTo(es, n)) THEN Added(x, Keyed(es[n + 1])) ELSE x) \in V
    BY <1>3, SoundIsTable DEF V
  <2> QED BY <2>1
<1>5. \A n \in Nat, x \in V :
         n < N /\ Sound(K, x, KeysUpTo(es, n)) => step[n][x] = Added(x, Keyed(es[n + 1]))
  OBVIOUS
<1> HIDE DEF step
<1>6. PICK f : Iterates(f, V, b, step)
  BY <1>2, <1>4, Iteration, Zenon
<1>7. \A n \in Nat : n <= N => Sound(K, f[n], KeysUpTo(es, n))
  <2> DEFINE S == {n \in Nat : n <= N => Sound(K, f[n], KeysUpTo(es, n))}
  <2>1. 0 \in S
    BY <1>2, <1>6 DEF Iterates
  <2>2. ASSUME NEW n \in Nat, n \in S PROVE n + 1 \in S
    <3> SUFFICES ASSUME n + 1 <= N PROVE Sound(K, f[n + 1], KeysUpTo(es, n + 1))
      OBVIOUS
    <3>1. n < N /\ n <= N
      BY <1>1
    <3>2. Sound(K, f[n], KeysUpTo(es, n))
      BY <2>2, <3>1
    <3>3. f[n + 1] = step[n][f[n]] /\ f[n] \in V
      BY <1>6 DEF Iterates
    <3>4. f[n + 1] = Added(f[n], Keyed(es[n + 1]))
      BY <1>5, <3>1, <3>2, <3>3
    <3> QED BY <1>3, <3>1, <3>2, <3>4
  <2> HIDE DEF S
  <2>3. Nat \subseteq S
    BY <2>1, <2>2, Induction
  <2> QED BY <2>3 DEF S
<1> DEFINE h == [n \in 0 .. N |-> f[n]]
<1>8. h = Body(h)
  <2>1. ASSUME NEW n \in 0 .. N, n # 0 PROVE h[n] = Added(h[n - 1], Keyed(es[n]))
    <3>1. n - 1 \in Nat /\ n - 1 \in 0 .. N /\ n - 1 < N /\ n - 1 <= N /\ (n - 1) + 1 = n
      BY <1>1, <2>1
    <3>2. Sound(K, f[n - 1], KeysUpTo(es, n - 1))
      BY <1>7, <3>1
    <3>3. f[n] = step[n - 1][f[n - 1]] /\ f[n - 1] \in V
      BY <1>6, <3>1 DEF Iterates
    <3>4. f[n] = Added(f[n - 1], Keyed(es[n]))
      BY <1>5, <3>1, <3>2, <3>3
    <3> QED BY <3>1, <3>4
  <2>2. h[0] = b
    BY <1>1, <1>6 DEF Iterates
  <2> QED BY <2>1, <2>2
<1>9. first = Body(first)
  <2> HIDE DEF Body, h
  <2> QED BY <1>8
<1>10. Indexed(es) = first[N]
  BY DEF Indexed, N, b
<1>11. first[0] = b /\ \A n \in 1 .. N : first[n] = Added(first[n - 1], Keyed(es[n]))
  <2> HIDE DEF first
  <2> QED BY <1>1, <1>9
<1> HIDE DEF first
<1>12. \A n \in Nat : n <= N => Sound(K, first[n], KeysUpTo(es, n))
  <2> DEFINE S == {n \in Nat : n <= N => Sound(K, first[n], KeysUpTo(es, n))}
  <2>1. 0 \in S
    BY <1>2, <1>11
  <2>2. ASSUME NEW n \in Nat, n \in S PROVE n + 1 \in S
    <3> SUFFICES ASSUME n + 1 <= N PROVE Sound(K, first[n + 1], KeysUpTo(es, n + 1))
      OBVIOUS
    <3>1. n < N /\ n <= N /\ n + 1 \in 1 .. N /\ (n + 1) - 1 = n
      BY <1>1
    <3>2. first[n + 1] = Added(first[n], Keyed(es[n + 1]))
      BY <1>11, <3>1
    <3> QED BY <1>3, <2>2, <3>1, <3>2
  <2> HIDE DEF S
  <2>3. Nat \subseteq S
    BY <2>1, <2>2, Induction
  <2> QED BY <2>3 DEF S
<1> QED BY <1>1, <1>10, <1>12 DEF N

\* What a look-up by name finds in a table.
FoundByName(t, k, item) == mzHashTableLookup(t, k.hash, item, SameName(t, k.name), FALSE).result

LEMMA NameFinds ==
    ASSUME NEW K, IsKeys(K), NEW t, NEW its, Sound(K, t, its), NEW k \in K, NEW item
    PROVE  FoundByName(t, k, item) = IF k \in its THEN Slot(k, k.hash) ELSE Nothing
<1>1. SameName(t, k.name) = Same(t, k)
  BY DEF SameName, Same
<1>2. Probe(t.slots, t.size, k.hash, {Slot(i, k.hash) : i \in SameName(t, k.name)}) = Ends(t, k)
  BY <1>1 DEF Ends
<1>3. t.size \in Nat
  BY SoundType
<1>4. CASE k \in its
  <2>1. Ends(t, k) \in 0 .. t.size - 1 /\ t.slots[Ends(t, k)] = Slot(k, k.hash)
    BY <1>4, LookupFinds
  <2>2. Ends(t, k) # Never
    BY <1>3, <2>1 DEF Never
  <2>3. Slot(k, k.hash) # Empty
    BY SlotIs
  <2> QED BY <1>2, <1>4, <2>1, <2>2, <2>3 DEF FoundByName, mzHashTableLookup
<1>5. CASE k \notin its
  <2>1. Ends(t, k) \in 0 .. t.size - 1 /\ t.slots[Ends(t, k)] = Empty
    BY <1>5, LookupMisses
  <2>2. Ends(t, k) # Never
    BY <1>3, <2>1 DEF Never
  <2> QED BY <1>2, <1>5, <2>1, <2>2 DEF FoundByName, mzHashTableLookup
<1> QED BY <1>4, <1>5
-----------------------------------------------------------------------------
(* An opened archive.                                                      *)

Record == [name : Seq(Nat), data : Seq(Nat), how : {"stored", "deflated", "other"},
           size : Nat, link : BOOLEAN, sound : BOOLEAN, crc : Seq(Nat)]

LEMMA DirectoryIs ==
    ASSUME NEW d, IsDirectory(d)
    PROVE  /\ d \in Seq(Record) /\ IsEntries(Record)
           /\ \A i, j \in 1 .. Len(d) : d[i].name = d[j].name => i = j
<1>1. d \in Seq(Record)
  BY DEF IsDirectory, Record
<1>2. IsEntries(Record)
  BY DEF IsEntries, Record
<1>3. DOMAIN d = 1 .. Len(d)
  BY <1>1
<1> QED BY <1>1, <1>2, <1>3 DEF IsDirectory

\* The entries of an archive are those of its directory, in their order.
LEMMA EntriesAre ==
    ASSUME NEW d, IsDirectory(d)
    PROVE  /\ Sorted(d) \in Seq(Record) /\ InOrder(Sorted(d)) /\ ToSet(Sorted(d)) = ToSet(d)
           /\ \A i, j \in 1 .. Len(Sorted(d)) : Sorted(d)[i].name = Sorted(d)[j].name => i = j
<1> DEFINE es == Sorted(d)
<1>1. d \in Seq(Record) /\ Filed(Record, d, Len(d), es)
  BY DirectoryIs, SortedIs
<1> HIDE DEF es
<1>2. es \in Seq(Record) /\ Len(es) = Len(d) /\ InOrder(es)
  BY <1>1 DEF Filed
<1>3. ToSet(es) = ToSet(d)
  <2>1. DOMAIN es = 1 .. Len(d) /\ DOMAIN d = 1 .. Len(d)
    BY <1>1, <1>2
  <2> QED BY <1>1, <2>1 DEF Filed, ToSet
<1>4. ASSUME NEW i \in 1 .. Len(es), NEW j \in 1 .. Len(es), es[i].name = es[j].name, i # j PROVE FALSE
  <2>1. es[i].name \in Seq(Nat)
    BY <1>2, DirectoryIs DEF IsEntries
  <2>2. i < j \/ j < i
    BY <1>4
  <2>3. IsBefore(es[i].name, es[i].name)
    BY <1>2, <1>4, <2>2 DEF InOrder
  <2> QED BY <2>1, <2>3, BeforeNotSelf
<1> QED BY <1>2, <1>3, <1>4 DEF es

\* The table holds the key of every entry, and a look-up tells whether a key is
\* one of these.
LEMMA FindsIn ==
    ASSUME HashRange \in Nat \ {0}, NEW d, IsDirectory(d), NEW k, k.hash = ComputeHash(k.name),
           k.name \in Seq(Nat),
           \A e \in ToSet(d) : e.name = k.name => Keyed(e) = k
    PROVE  mzFindZipEntry([opened |-> TRUE, entries |-> Sorted(d), hash |-> Indexed(Sorted(d))], k.name)
              = IF \E e \in ToSet(d) : e.name = k.name THEN Slot(k, k.hash) ELSE Nothing
<1> DEFINE es == Sorted(d)
           K == {Keyed(e) : e \in ToSet(d)} \cup {k}
           its == KeysUpTo(es, Len(es))
           a == [opened |-> TRUE, entries |-> es, hash |-> Indexed(es)]
<1>1. /\ es \in Seq(Record) /\ ToSet(es) = ToSet(d)
      /\ \A i, j \in 1 .. Len(es) : es[i].name = es[j].name => i = j
  BY EntriesAre
<1>2. ToSet(es) = {es[i] : i \in 1 .. Len(es)}
  BY <1>1 DEF ToSet
<1>3. a.hash = Indexed(es)
  OBVIOUS
<1> HIDE DEF es
<1>4. its = {Keyed(e) : e \in ToSet(d)}
  BY <1>1, <1>2 DEF KeysUpTo
<1> HIDE DEF its, a
<1>5. IsKeys(K)
  <2>1. ASSUME NEW e \in ToSet(d)
        PROVE  Keyed(e).hash \in Nat /\ Keyed(e).name = e.name /\ Keyed(e).hash = ComputeHash(e.name)
    <3>1. e \in Record
      BY <1>1, <1>2
    <3>2. e.name \in Seq(Nat)
      BY <3>1 DEF Record
    <3> QED BY <3>2, HashIs DEF Keyed
  <2>2. k.hash \in Nat
    BY HashIs
  <2>3. ASSUME NEW e \in ToSet(d), NEW f \in ToSet(d), e.name = f.name PROVE e = f
    <3>1. PICK i \in 1 .. Len(es) : e = es[i]
      BY <1>1, <1>2
    <3>2. PICK j \in 1 .. Len(es) : f = es[j]
      BY <1>1, <1>2
    <3> QED BY <1>1, <2>3, <3>1, <3>2
  <2> QED BY <2>1, <2>2, <2>3 DEF IsKeys
<1>6. Sound(K, Indexed(es), its)
  <2>1. \A i \in 1 .. Len(es) : Keyed(es[i]) \in K
    BY <1>1, <1>2
  <2> HIDE DEF K
  <2> QED BY <1>1, <1>5, <2>1, IndexedIs DEF its
<1>7. k \in its <=> \E e \in ToSet(d) : e.name = k.name
  BY <1>4 DEF Keyed
<1>8. k \in K
  OBVIOUS
<1> HIDE DEF K
<1>9. mzFindZipEntry(a, k.name) = IF k \in its THEN Slot(k, k.hash) ELSE Nothing
  <2>1. \A item : FoundByName(Indexed(es), k, item) = IF k \in its THEN Slot(k, k.hash) ELSE Nothing
    BY <1>5, <1>6, <1>8, NameFinds
  <2> QED BY <1>3, <2>1 DEF FoundByName, mzFindZipEntry
<1> QED BY <1>7, <1>9 DEF a, es

LEMMA Opened ==
    ASSUME HashRange \in Nat \ {0}, Names \subseteq Seq(Nat), NEW d, IsDirectory(d),
           ParseZipArchive(d).opened
    PROVE  OpenedRight(d, ParseZipArchive(d))
<1> DEFINE es == Sorted(d)
           a == [opened |-> TRUE, entries |-> es, hash |-> Indexed(es)]
<1>1. ParseZipArchive(d) = a
  BY DEF ParseZipArchive, NotOpened
<1>2. es \in Seq(Record) /\ InOrder(es) /\ ToSet(es) = ToSet(d)
  BY EntriesAre
<1>3. a.entries = es
  OBVIOUS
<1>4. \A e \in ToSet(d) : Keyed(e).name = e.name /\ Keyed(e).hash = ComputeHash(e.name) /\ Keyed(e).entry = e
  BY DEF Keyed
<1>5. ASSUME NEW e \in ToSet(d), NEW f \in ToSet(d), e.name = f.name PROVE e = f
  <2>1. d \in Seq(Record) /\ \A i, j \in 1 .. Len(d) : d[i].name = d[j].name => i = j
    BY DirectoryIs
  <2>2. ToSet(d) = {d[i] : i \in 1 .. Len(d)}
    BY <2>1 DEF ToSet
  <2> QED BY <1>5, <2>1, <2>2
<1>6. ASSUME NEW n \in Names
      PROVE  IF \E e \in ToSet(d) : e.name = n
             THEN /\ mzFindZipEntry(a, n).kind = "item" /\ mzFindZipEntry(a, n).item.entry \in ToSet(d)
                  /\ mzFindZipEntry(a, n).item.entry.name = n
             ELSE mzFindZipEntry(a, n) = Nothing
  <2>1. n \in Seq(Nat)
    OBVIOUS
  <2>2. CASE \E e \in ToSet(d) : e.name = n
    <3>1. PICK e \in ToSet(d) : e.name = n
      BY <2>2
    <3> DEFINE k == Keyed(e)
    <3>2. k.name = n /\ k.hash = ComputeHash(k.name) /\ k.entry = e
      BY <1>4, <3>1
    <3>3. \A f \in ToSet(d) : f.name = k.name => Keyed(f) = k
      BY <1>5, <3>1, <3>2
    <3> HIDE DEF k, a, es
    <3>4. mzFindZipEntry(a, n) = Slot(k, k.hash)
      <4>1. mzFindZipEntry([opened |-> TRUE, entries |-> Sorted(d), hash |-> Indexed(Sorted(d))], k.name)
              = IF \E f \in ToSet(d) : f.name = k.name THEN Slot(k, k.hash) ELSE Nothing
        BY <2>1, <3>2, <3>3, FindsIn
      <4> QED BY <2>2, <3>2, <4>1 DEF a, es
    <3> QED BY <2>2, <3>1, <3>2, <3>4, SlotIs
  <2>3. CASE ~ \E e \in ToSet(d) : e.name = n
    <3> DEFINE k == [name |-> n, hash |-> ComputeHash(n)]
    <3>1. k.name = n /\ k.hash = ComputeHash(k.name)
      OBVIOUS
    <3> HIDE DEF k, a, es
    <3>2. mzFindZipEntry([opened |-> TRUE, entries |-> Sorted(d), hash |-> Indexed(Sorted(d))], k.name)
              = IF \E f \in ToSet(d) : f.name = k.name THEN Slot(k, k.hash) ELSE Nothing
      BY <2>1, <2>3, <3>1, FindsIn
    <3> QED BY <2>3, <3>1, <3>2 DEF a, es
  <2> QED BY <2>2, <2>3
<1>7. \A i, j \in DOMAIN es : i < j => IsBefore(es[i].name, es[j].name)
  <2> HIDE DEF es
  <2> QED BY <1>2 DEF InOrder
<1> HIDE DEF a, es
<1> QED BY <1>1, <1>2, <1>3, <1>6, <1>7 DEF OpenedRight
-----------------------------------------------------------------------------
(* Trees                                                                   *)

Trees == UNION {[D -> Nodes] : D \in SUBSET Seq(Nat)}

LEMMA TreeIs ==
    ASSUME NEW tree
    PROVE  tree \in Trees <=> DOMAIN tree \subseteq Seq(Nat) /\ tree \in [DOMAIN tree -> Nodes]
<1>1. ASSUME tree \in Trees PROVE DOMAIN tree \subseteq Seq(Nat) /\ tree \in [DOMAIN tree -> Nodes]
  <2>1. PICK D \in SUBSET Seq(Nat) : tree \in [D -> Nodes]
    BY <1>1 DEF Trees
  <2> QED BY <2>1
<1>2. ASSUME DOMAIN tree \subseteq Seq(Nat), tree \in [DOMAIN tree -> Nodes] PROVE tree \in Trees
  BY <1>2 DEF Trees
<1> QED BY <1>1, <1>2

\* The tree new has this node too, at path.
HasNode(tree, path, node, new) ==
    /\ new \in Trees /\ DOMAIN new = DOMAIN tree \cup {path} /\ new[path] = node
    /\ \A p \in DOMAIN tree : p # path => new[p] = tree[p]

LEMMA WithIs ==
    ASSUME NEW tree \in Trees, NEW path \in Seq(Nat), NEW node \in Nodes
    PROVE  HasNode(tree, path, node, With(tree, path, node))
<1> DEFINE new == With(tree, path, node)
<1>1. DOMAIN tree \subseteq Seq(Nat) /\ tree \in [DOMAIN tree -> Nodes]
  BY TreeIs
<1>2. /\ DOMAIN new = DOMAIN tree \cup {path} /\ new[path] = node
      /\ \A p \in DOMAIN tree : p # path => new[p] = tree[p]
      /\ new \in [DOMAIN tree \cup {path} -> Nodes]
  BY <1>1 DEF With
<1> HIDE DEF new
<1>3. new \in Trees
  BY <1>1, <1>2, TreeIs
<1> QED BY <1>2, <1>3 DEF new, HasNode

LEMMA DirNode == ASSUME NEW node \in Nodes, node.kind = "dir" PROVE node = Dir
BY DEF Nodes

LEMMA NodesAre ==
    /\ Dir \in Nodes /\ Dir.kind = "dir"
    /\ \A data \in Seq(Nat) : /\ File(data) \in Nodes /\ File(data).kind = "file"
                              /\ Link(data) \in Nodes /\ Link(data).kind = "link"
BY DEF Nodes, Dir, File, Link

LEMMA DirsAre ==
    ASSUME NEW path \in Seq(Nat), NEW i \in Breaks(path)
    PROVE  /\ i \in 2 .. Len(path) /\ i - 1 \in 1 .. Len(path)
           /\ SubSeq(path, 1, i - 1) \in Seq(Nat) /\ Len(SubSeq(path, 1, i - 1)) = i - 1
           /\ \A j \in 1 .. i - 1 : SubSeq(path, 1, i - 1)[j] = path[j]
<1>1. i \in 1 .. Len(path) /\ i > 1 /\ Len(path) \in Nat
  BY DEF Breaks
<1>2. i \in 2 .. Len(path) /\ i - 1 \in 1 .. Len(path) /\ i - 1 \in Nat /\ i - 1 <= Len(path)
  BY <1>1
<1> DEFINE k == i - 1
<1>3. k \in Nat /\ k <= Len(path) /\ k >= 1
  BY <1>2
<1> HIDE DEF k
<1>4. \A j \in 1 .. k : path[j] \in Nat
  BY <1>3
<1>5. SubSeq(path, 1, k) \in Seq(Nat) /\ Len(SubSeq(path, 1, k)) = k /\ \A j \in 1 .. k : SubSeq(path, 1, k)[j] = path[j]
  BY <1>3, <1>4
<1> QED BY <1>2, <1>5 DEF k

LEMMA DirsOfDir ==
    ASSUME NEW path \in Seq(Nat), NEW d \in DirsOf(path)
    PROVE  d \in Seq(Nat) /\ DirsOf(d) \subseteq DirsOf(path)
<1>1. PICK i \in Breaks(path) : d = SubSeq(path, 1, i - 1)
  BY DEF DirsOf
<1>2. /\ i \in 2 .. Len(path) /\ i - 1 \in 1 .. Len(path)
      /\ d \in Seq(Nat) /\ Len(d) = i - 1 /\ \A j \in 1 .. i - 1 : d[j] = path[j]
  BY <1>1, DirsAre
<1>3. ASSUME NEW j \in Breaks(d) PROVE j \in Breaks(path) /\ SubSeq(d, 1, j - 1) = SubSeq(path, 1, j - 1)
  <2>1. /\ j \in 2 .. Len(d) /\ SubSeq(d, 1, j - 1) \in Seq(Nat) /\ Len(SubSeq(d, 1, j - 1)) = j - 1
        /\ \A m \in 1 .. j - 1 : SubSeq(d, 1, j - 1)[m] = d[m]
    BY <1>2, DirsAre
  <2>2. j \in 1 .. i - 1 /\ j - 1 \in 1 .. i - 1 /\ j \in 1 .. Len(path) /\ j > 1
    <3>1. j \in 2 .. i - 1 /\ i \in 2 .. Len(path)
      BY <1>2, <2>1
    <3> QED BY <3>1
  <2>3. d[j] = Slash /\ d[j - 1] # Slash
    BY DEF Breaks
  <2>4. j \in Breaks(path)
    BY SMTT(30), <1>2, <2>2, <2>3 DEF Breaks
  <2>5. /\ SubSeq(path, 1, j - 1) \in Seq(Nat) /\ Len(SubSeq(path, 1, j - 1)) = j - 1
        /\ \A m \in 1 .. j - 1 : SubSeq(path, 1, j - 1)[m] = path[m]
    BY <2>4, DirsAre
  <2>6. \A m \in 1 .. j - 1 : m \in 1 .. i - 1
    BY <1>2, <2>2
  <2>7. SubSeq(d, 1, j - 1) = SubSeq(path, 1, j - 1)
    <3> DEFINE a == SubSeq(d, 1, j - 1)
               b == SubSeq(path, 1, j - 1)
    <3>1. \A m \in 1 .. j - 1 : a[m] = b[m]
      BY <1>2, <2>1, <2>5, <2>6
    <3>2. a \in Seq(Nat) /\ b \in Seq(Nat) /\ Len(a) = j - 1 /\ Len(b) = j - 1
      BY <2>1, <2>5
    <3> HIDE DEF a, b
    <3>3. a = b
      BY <3>1, <3>2, SeqEqual
    <3> QED BY <3>3 DEF a, b
  <2> QED BY <2>4, <2>7
<1> QED BY <1>2, <1>3 DEF DirsOf

-----------------------------------------------------------------------------
(* Directories are made.                                                   *)

\* From one tree to another nothing is lost, only files among these paths are
\* changed, and what is new is a directory among dirs or at one of these paths.
Placing(old, new, dirs, at) ==
    /\ \A p \in DOMAIN old : /\ p \in DOMAIN new
                             /\ p \notin at \/ old[p].kind # "file" => new[p] = old[p]
    /\ \A p \in DOMAIN new \ DOMAIN old : (p \in dirs /\ new[p] = Dir) \/ p \in at

\* All of these are directories; those of them that exist are.
AllDirs(tree, dirs) == \A d \in dirs : d \in DOMAIN tree /\ tree[d] = Dir
Clear(tree, dirs) == \A d \in dirs : d \in DOMAIN tree => tree[d] = Dir

Makings == [tree : Trees, ok : BOOLEAN]

LEMMA MakeDirIs ==
    ASSUME NEW s \in Makings, NEW path \in Seq(Nat), NEW broken
    PROVE  LET r == MakeDir(s, path, broken)
           IN  /\ r \in Makings
               /\ Placing(s.tree, r.tree, {path}, {})
               /\ r.ok => s.ok /\ path \in DOMAIN r.tree /\ r.tree[path] = Dir
               /\ s.ok /\ broken = {} /\ Clear(s.tree, {path} \cup DirsOf(path)) => r.ok
<1> DEFINE r == MakeDir(s, path, broken)
           status == PathDirStatus(s.tree, path)
           tree == s.tree
           new == With(tree, path, Dir)
           ok == [op |-> "utime", path |-> path] \notin broken
<1> SUFFICES /\ r \in Makings
             /\ Placing(s.tree, r.tree, {path}, {})
             /\ r.ok => s.ok /\ path \in DOMAIN r.tree /\ r.tree[path] = Dir
             /\ s.ok /\ broken = {} /\ Clear(s.tree, {path} \cup DirsOf(path)) => r.ok
  OBVIOUS
<1>1. tree \in Trees /\ s.ok \in BOOLEAN /\ s = [tree |-> tree, ok |-> s.ok] /\ s.tree = tree
  BY DEF Makings
<1>2. DOMAIN tree \subseteq Seq(Nat) /\ tree \in [DOMAIN tree -> Nodes]
  BY <1>1, TreeIs
<1>3. /\ r = IF ~s.ok \/ status = "dir" THEN s
             ELSE IF status = "illegal" \/ path \in DOMAIN tree \/ [op |-> "mkdir", path |-> path] \in broken
             THEN [s EXCEPT !.ok = FALSE] ELSE [tree |-> new, ok |-> ok]
  BY DEF MakeDir
<1>4. /\ status = "dir" => path \in DOMAIN tree /\ tree[path].kind = "dir"
      /\ status = "illegal" => \E d \in {path} \cup DirsOf(path) : d \in DOMAIN tree /\ tree[d].kind = "file"
      /\ path \in DOMAIN tree /\ tree[path].kind = "dir" => status = "dir"
  BY DEF PathDirStatus
<1>5. new \in Trees /\ DOMAIN new = DOMAIN tree \cup {path} /\ new[path] = Dir
      /\ \A p \in DOMAIN tree : p # path => new[p] = tree[p]
  <2>1. HasNode(tree, path, Dir, new)
    BY <1>1, WithIs, NodesAre
  <2> QED BY <2>1 DEF HasNode
<1>6. ok \in BOOLEAN
  OBVIOUS
<1> HIDE DEF r, status, tree, new
<1>7. Placing(tree, tree, {path}, {})
  BY DEF Placing
<1>8. CASE ~s.ok
  <2>1. r = s
    BY <1>3, <1>8
  <2> QED BY <1>1, <1>7, <1>8, <2>1
<1>9. CASE s.ok /\ status = "dir"
  <2>1. r = s
    BY <1>3, <1>9
  <2>2. path \in DOMAIN tree /\ tree[path] = Dir
    BY <1>2, <1>4, <1>9, DirNode
  <2> QED BY <1>1, <1>7, <1>9, <2>1, <2>2
<1>10. CASE /\ s.ok /\ status # "dir"
            /\ status = "illegal" \/ path \in DOMAIN tree \/ [op |-> "mkdir", path |-> path] \in broken
  <2>1. r = [s EXCEPT !.ok = FALSE]
    BY <1>3, <1>10
  <2>2. r \in Makings /\ r.tree = tree /\ r.ok = FALSE
    BY <1>1, <2>1 DEF Makings
  <2>3. ~(broken = {} /\ Clear(tree, {path} \cup DirsOf(path)))
    BY <1>4, <1>10, NodesAre DEF Clear
  <2> QED BY <1>1, <1>7, <2>2, <2>3
<1>11. CASE /\ s.ok /\ status # "dir"
            /\ ~(status = "illegal" \/ path \in DOMAIN tree \/ [op |-> "mkdir", path |-> path] \in broken)
  <2>1. r = [tree |-> new, ok |-> ok]
    BY <1>3, <1>11
  <2>2. r \in Makings /\ r.tree = new /\ r.ok = ok
    BY <1>5, <1>6, <2>1 DEF Makings
  <2>3. Placing(tree, new, {path}, {})
    BY <1>5, <1>11 DEF Placing
  <2>4. broken = {} => ok
    OBVIOUS
  <2> HIDE DEF ok
  <2> QED BY <1>1, <1>5, <1>11, <2>2, <2>3, <2>4
<1> QED BY <1>8, <1>9, <1>10, <1>11

LEMMA PlacingOn ==
    ASSUME NEW a, NEW b, NEW c, NEW dirs, NEW at, Placing(a, b, dirs, {}), Placing(b, c, dirs, at)
    PROVE  Placing(a, c, dirs, at)
<1>1. ASSUME NEW p \in DOMAIN a PROVE p \in DOMAIN c /\ (p \notin at \/ a[p].kind # "file" => c[p] = a[p])
  <2>1. p \in DOMAIN b /\ b[p] = a[p]
    BY DEF Placing
  <2> QED BY <2>1 DEF Placing
<1>2. ASSUME NEW p \in DOMAIN c \ DOMAIN a PROVE (p \in dirs /\ c[p] = Dir) \/ p \in at
  <2>1. CASE p \in DOMAIN b
    <3>1. p \in dirs /\ b[p] = Dir
      BY <2>1 DEF Placing
    <3>2. b[p].kind # "file"
      BY <3>1, NodesAre
    <3> QED BY <2>1, <3>1, <3>2 DEF Placing
  <2>2. CASE p \notin DOMAIN b
    BY <2>2 DEF Placing
  <2> QED BY <2>1, <2>2
<1> QED BY <1>1, <1>2 DEF Placing

LEMMA PlacingMore ==
    ASSUME NEW a, NEW b, NEW dirs, NEW more, NEW at, Placing(a, b, dirs, at), dirs \subseteq more
    PROVE  Placing(a, b, more, at)
BY DEF Placing

LEMMA PlacingKeeps ==
    ASSUME NEW a, NEW b, NEW dirs, NEW at, Placing(a, b, dirs, at), NEW ds, AllDirs(a, ds)
    PROVE  AllDirs(b, ds)
BY NodesAre DEF Placing, AllDirs

LEMMA PlacingClear ==
    ASSUME NEW a, NEW b, NEW dirs, Placing(a, b, dirs, {}), NEW ds, Clear(a, ds)
    PROVE  Clear(b, ds)
<1> SUFFICES ASSUME NEW d \in ds, d \in DOMAIN b PROVE b[d] = Dir
  BY DEF Clear
<1>1. CASE d \in DOMAIN a
  BY <1>1 DEF Placing, Clear
<1>2. CASE d \notin DOMAIN a
  BY <1>2 DEF Placing
<1> QED BY <1>1, <1>2

\* The directories on the way to a path that end within its first n characters.
OnTheWay(path, n) == {SubSeq(path, 1, i - 1) : i \in {j \in Breaks(path) : j <= n}}

\* So far has DirCreateHierarchy come.
Making(tree, path, broken, n, s) ==
    /\ s \in Makings /\ Placing(tree, s.tree, DirsOf(path), {})
    /\ s.ok => AllDirs(s.tree, OnTheWay(path, n))
    /\ broken = {} /\ Clear(tree, DirsOf(path)) => s.ok

LEMMA MakingStep ==
    ASSUME NEW tree, NEW path \in Seq(Nat), NEW broken, NEW n \in Nat, NEW s, Making(tree, path, broken, n, s)
    PROVE  Making(tree, path, broken, n + 1,
                  IF n + 1 \in Breaks(path) THEN MakeDir(s, SubSeq(path, 1, n), broken) ELSE s)
<1> DEFINE r == IF n + 1 \in Breaks(path) THEN MakeDir(s, SubSeq(path, 1, n), broken) ELSE s
<1> SUFFICES Making(tree, path, broken, n + 1, r)
  OBVIOUS
<1>1. CASE n + 1 \notin Breaks(path)
  <2>1. \A j \in Breaks(path) : j <= n + 1 <=> j <= n
    BY <1>1 DEF Breaks
  <2>2. OnTheWay(path, n + 1) = OnTheWay(path, n)
    BY <2>1 DEF OnTheWay
  <2>3. r = s
    BY <1>1
  <2> HIDE DEF r
  <2> QED BY <2>2, <2>3 DEF Making
<1>2. CASE n + 1 \in Breaks(path)
  <2> DEFINE d == SubSeq(path, 1, n)
  <2>1. (n + 1) - 1 = n
    OBVIOUS
  <2>2. d \in Seq(Nat) /\ d \in DirsOf(path)
    BY <1>2, <2>1, DirsAre DEF DirsOf
  <2>3. r = MakeDir(s, d, broken)
    BY <1>2
  <2>4. OnTheWay(path, n + 1) = OnTheWay(path, n) \cup {d}
    <3>1. \A j \in Breaks(path) : j <= n + 1 <=> j <= n \/ j = n + 1
      BY DEF Breaks
    <3>2. ASSUME NEW x, x \in OnTheWay(path, n + 1) PROVE x \in OnTheWay(path, n) \cup {d}
      BY <2>1, <3>1, <3>2 DEF OnTheWay
    <3>3. ASSUME NEW x, x \in OnTheWay(path, n) PROVE x \in OnTheWay(path, n + 1)
      BY <3>1, <3>3 DEF OnTheWay
    <3>4. d \in OnTheWay(path, n + 1)
      BY <1>2, <2>1 DEF OnTheWay
    <3> QED BY <3>2, <3>3, <3>4
  <2> HIDE DEF r, d
  <2>5. s \in Makings /\ Placing(tree, s.tree, DirsOf(path), {})
    BY DEF Making
  <2>6. /\ r \in Makings
        /\ Placing(s.tree, r.tree, {d}, {})
        /\ r.ok => s.ok /\ d \in DOMAIN r.tree /\ r.tree[d] = Dir
        /\ s.ok /\ broken = {} /\ Clear(s.tree, {d} \cup DirsOf(d)) => r.ok
    BY <2>2, <2>3, <2>5, MakeDirIs
  <2>7. Placing(tree, r.tree, DirsOf(path), {})
    <3>1. Placing(s.tree, r.tree, DirsOf(path), {})
      BY <2>2, <2>6, PlacingMore
    <3> QED BY <2>5, <3>1, PlacingOn
  <2>8. r.ok => AllDirs(r.tree, OnTheWay(path, n + 1))
    <3> SUFFICES ASSUME r.ok PROVE AllDirs(r.tree, OnTheWay(path, n + 1))
      OBVIOUS
    <3>1. AllDirs(s.tree, OnTheWay(path, n))
      BY <2>6 DEF Making
    <3>2. AllDirs(r.tree, OnTheWay(path, n))
      BY <2>6, <3>1, PlacingKeeps
    <3> QED BY <2>4, <2>6, <3>2 DEF AllDirs
  <2>9. broken = {} /\ Clear(tree, DirsOf(path)) => r.ok
    <3> SUFFICES ASSUME broken = {}, Clear(tree, DirsOf(path)) PROVE r.ok
      OBVIOUS
    <3>1. Clear(s.tree, DirsOf(path))
      BY <2>5, PlacingClear
    <3>2. {d} \cup DirsOf(d) \subseteq DirsOf(path)
      BY <2>2, DirsOfDir
    <3>3. Clear(s.tree, {d} \cup DirsOf(d))
      BY <3>1, <3>2 DEF Clear
    <3>4. s.ok
      BY DEF Making
    <3> QED BY <2>6, <3>3, <3>4
  <2> QED BY <2>6, <2>7, <2>8, <2>9 DEF Making
<1> QED BY <1>1, <1>2

\* What dirCreateHierarchy does: it makes only directories on the way, all of
\* them when it does not fail, and it does not fail without a reason.
LEMMA HierarchyIs ==
    ASSUME NEW tree \in Trees, NEW path \in Seq(Nat), NEW broken
    PROVE  LET r == DirCreateHierarchy(tree, path, broken)
           IN  /\ r \in Makings /\ Placing(tree, r.tree, DirsOf(path), {})
               /\ r.ok => AllDirs(r.tree, DirsOf(path))
               /\ broken = {} /\ Clear(tree, DirsOf(path)) => r.ok
<1> DEFINE N == Len(path)
           b == [tree |-> tree, ok |-> TRUE]
           V == {s \in Makings : Placing(tree, s.tree, DirsOf(path), {})}
           Next1(n, s) == IF n + 1 \in Breaks(path) THEN MakeDir(s, SubSeq(path, 1, n), broken) ELSE s
           step == [n \in Nat |-> [s \in Makings |-> Next1(n, s)]]
           Body(g) == [n \in 0 .. N |->
                         IF n = 0 THEN [tree |-> tree, ok |-> TRUE]
                         ELSE IF n \in Breaks(path) THEN MakeDir(g[n - 1], SubSeq(path, 1, n - 1), broken)
                         ELSE g[n - 1]]
           upto == CHOOSE g : g = Body(g)
           r == DirCreateHierarchy(tree, path, broken)
<1> SUFFICES /\ r \in Makings /\ Placing(tree, r.tree, DirsOf(path), {})
             /\ r.ok => AllDirs(r.tree, DirsOf(path))
             /\ broken = {} /\ Clear(tree, DirsOf(path)) => r.ok
  OBVIOUS
<1>1. N \in Nat /\ b \in Makings
  BY DEF Makings
<1>2. Making(tree, path, broken, 0, b)
  <2>1. OnTheWay(path, 0) = {}
    BY DEF OnTheWay, Breaks
  <2>2. b.tree = tree /\ b.ok
    OBVIOUS
  <2> HIDE DEF b
  <2> QED BY <1>1, <2>1, <2>2 DEF Making, Placing, AllDirs
<1>3. ASSUME NEW n \in Nat, NEW s, Making(tree, path, broken, n, s)
      PROVE  Making(tree, path, broken, n + 1, Next1(n, s))
  BY <1>3, MakingStep
<1>4. ASSUME NEW n \in Nat, NEW s \in Makings PROVE Next1(n, s) \in Makings
  <2>1. CASE n + 1 \in Breaks(path)
    <3>1. (n + 1) - 1 = n
      OBVIOUS
    <3>2. SubSeq(path, 1, n) \in Seq(Nat)
      BY <2>1, <3>1, DirsAre
    <3> QED BY <2>1, <3>2, MakeDirIs
  <2>2. CASE n + 1 \notin Breaks(path)
    BY <2>2
  <2> QED BY <2>1, <2>2
<1>5. step \in [Nat -> [Makings -> Makings]]
  <2> HIDE DEF Next1
  <2> QED BY <1>4
<1>6. \A n \in Nat, s \in Makings : step[n][s] = Next1(n, s)
  <2> HIDE DEF Next1
  <2> QED OBVIOUS
<1> HIDE DEF N, b, step
<1>7. PICK f : Iterates(f, Makings, b, step)
  BY <1>1, <1>5, Iteration, Zenon
<1> DEFINE h == [n \in 0 .. N |-> f[n]]
<1>8. h = Body(h)
  <2>1. ASSUME NEW n \in 0 .. N, n # 0
        PROVE  h[n] = IF n \in Breaks(path) THEN MakeDir(h[n - 1], SubSeq(path, 1, n - 1), broken) ELSE h[n - 1]
    <3>1. n - 1 \in Nat /\ n - 1 \in 0 .. N /\ (n - 1) + 1 = n
      BY <1>1, <2>1
    <3>2. f[n] = step[n - 1][f[n - 1]] /\ f[n - 1] \in Makings
      BY <1>7, <3>1 DEF Iterates
    <3>3. f[n] = Next1(n - 1, f[n - 1])
      BY <1>6, <3>1, <3>2
    <3> QED BY <3>1, <3>3
  <2>2. h[0] = [tree |-> tree, ok |-> TRUE]
    BY <1>1, <1>7 DEF Iterates, b
  <2> QED BY <2>1, <2>2
<1>9. upto = Body(upto)
  <2> HIDE DEF Body, h
  <2> QED BY <1>8
<1>10. r = upto[N]
  BY DEF DirCreateHierarchy, N
<1>11. upto[0] = b /\ \A n \in 1 .. N : upto[n] = Next1(n - 1, upto[n - 1])
  <2> HIDE DEF upto
  <2>1. upto[0] = b
    BY <1>1, <1>9 DEF b
  <2>2. ASSUME NEW n \in 1 .. N PROVE upto[n] = Next1(n - 1, upto[n - 1])
    <3>1. n \in 0 .. N /\ n # 0 /\ (n - 1) + 1 = n
      BY <1>1
    <3> QED BY <1>9, <3>1
  <2> QED BY <2>1, <2>2
<1> HIDE DEF upto, Next1
<1>12. \A n \in Nat : n <= N => Making(tree, path, broken, n, upto[n])
  <2> DEFINE S == {n \in Nat : n <= N => Making(tree, path, broken, n, upto[n])}
  <2>1. 0 \in S
    BY <1>2, <1>11
  <2>2. ASSUME NEW n \in Nat, n \in S PROVE n + 1 \in S
    <3> SUFFICES ASSUME n + 1 <= N PROVE Making(tree, path, broken, n + 1, upto[n + 1])
      OBVIOUS
    <3>1. n <= N /\ n + 1 \in 1 .. N /\ (n + 1) - 1 = n
      BY <1>1
    <3>2. upto[n + 1] = Next1(n, upto[n])
      BY <1>11, <3>1
    <3> QED BY <1>3, <2>2, <3>1, <3>2
  <2> HIDE DEF S
  <2>3. Nat \subseteq S
    BY <2>1, <2>2, Induction
  <2> QED BY <2>3 DEF S
<1> HIDE DEF r
<1>13. Making(tree, path, broken, N, r)
  BY <1>1, <1>10, <1>12
<1>14. OnTheWay(path, N) = DirsOf(path)
  <2>1. \A j \in Breaks(path) : j <= N
    BY DEF Breaks, N
  <2> QED BY <2>1 DEF OnTheWay, DirsOf
<1> QED BY <1>13, <1>14 DEF Making
-----------------------------------------------------------------------------
(* An entry is extracted.                                                  *)

States == [tree : Trees, ok : BOOLEAN, seenMatch : BOOLEAN, stopped : BOOLEAN]

LEMMA GoIs ==
    ASSUME NEW s \in States, NEW tree \in Trees
    PROVE  /\ Go(s, tree) \in States /\ Go(s, tree).tree = tree /\ Go(s, tree).ok = s.ok
           /\ Go(s, tree).seenMatch = s.seenMatch /\ Go(s, tree).stopped = s.stopped
BY DEF Go, States

LEMMA StopIs ==
    ASSUME NEW s \in States, NEW tree \in Trees, NEW ok \in BOOLEAN
    PROVE  /\ Stop(s, tree, ok) \in States /\ Stop(s, tree, ok).tree = tree /\ Stop(s, tree, ok).ok = ok
           /\ Stop(s, tree, ok).seenMatch = s.seenMatch /\ Stop(s, tree, ok).stopped = TRUE
BY DEF Stop, States

LEMMA ProcessedIs ==
    ASSUME NEW e \in Record
    PROVE  /\ Processed(e).data \in Seq(Nat) /\ Processed(e).ok \in BOOLEAN
           /\ Processed(e).ok <=> Whole(e)
           /\ Whole(e) => Processed(e).data = e.data
<1>1. e.data \in Seq(Nat) /\ <<>> \in Seq(Nat) /\ e.how \in {"stored", "deflated", "other"}
  BY DEF Record
<1>2. Processed(e).data \in Seq(Nat)
  BY <1>1 DEF Processed
<1>3. Processed(e).ok \in BOOLEAN /\ (Processed(e).ok <=> Whole(e))
  BY DEF Processed, Whole
<1>4. Whole(e) => Processed(e).data = e.data
  BY <1>1 DEF Processed, Whole
<1> QED BY <1>2, <1>3, <1>4

\* A failure to fill a file.
NotFilled(e, path, broken) ==
    ~Whole(e) \/ \E op \in {"write", "utime"} : [op |-> op, path |-> path] \in broken

\* The entry's node is put at its path: without a failure it is there, and there
\* is none without a reason.
Puts(s, e, path, node, broken, r) ==
    /\ r \in States /\ r.seenMatch = s.seenMatch
    /\ Placing(s.tree, r.tree, {}, {path})
    /\ ~r.stopped => r.ok /\ path \in DOMAIN r.tree /\ r.tree[path] = node
    /\ r.stopped /\ r.ok => node.kind = "file" /\ NotFilled(e, path, broken)
    /\ /\ broken = {} /\ Whole(e) /\ Fits(e)
       /\ path \in DOMAIN s.tree => node.kind = "file" /\ s.tree[path].kind = "file"
       => r.ok

LEMMA FilePuts ==
    ASSUME NEW s \in States, s.ok = TRUE, s.stopped = FALSE, NEW e \in Record, NEW path \in Seq(Nat), NEW broken
    PROVE  Puts(s, e, path, File(e.data), broken, ExtractFile(s, e, path, broken))
<1> DEFINE r == ExtractFile(s, e, path, broken)
           p == Processed(e)
           filled == p.ok /\ [op |-> "write", path |-> path] \notin broken
           data == IF filled THEN p.data ELSE <<>>
           tree == With(s.tree, path, File(data))
           old == s.tree
           late == [op |-> "utime", path |-> path] \in broken
           node == File(e.data)
<1> SUFFICES Puts(s, e, path, node, broken, r)
  OBVIOUS
<1>1. old \in Trees
  BY DEF States
<1>2. p.data \in Seq(Nat) /\ p.ok \in BOOLEAN /\ (p.ok <=> Whole(e)) /\ (Whole(e) => p.data = e.data)
  BY ProcessedIs
<1> HIDE DEF p
<1>3. data \in Seq(Nat) /\ filled \in BOOLEAN
  BY <1>2
<1>4. filled => data = e.data
  BY <1>2
<1> HIDE DEF data
<1>5. File(data) \in Nodes /\ File(data).kind = "file"
  BY <1>3, NodesAre
<1>6. /\ tree \in Trees /\ DOMAIN tree = DOMAIN old \cup {path} /\ tree[path] = File(data)
      /\ \A q \in DOMAIN old : q # path => tree[q] = old[q]
  <2>1. HasNode(old, path, File(data), tree)
    BY <1>1, <1>5, WithIs
  <2> HIDE DEF tree
  <2> QED BY <2>1 DEF HasNode
<1>7. r = IF path \in DOMAIN old /\ old[path].kind # "file" THEN Stop(s, old, FALSE)
          ELSE IF [op |-> "creat", path |-> path] \in broken THEN Stop(s, old, FALSE)
          ELSE IF ~filled \/ late THEN Stop(s, tree, TRUE)
          ELSE Go(s, tree)
  BY DEF ExtractFile, p, data
<1>8. node.kind = "file"
  BY DEF File
<1>9. /\ ~filled \/ late => NotFilled(e, path, broken)
  BY <1>2 DEF NotFilled
<1> HIDE DEF r, filled, tree, late, node, old
<1>10. Placing(old, old, {}, {path})
  BY DEF Placing
<1>11. CASE path \in DOMAIN old /\ old[path].kind # "file"
  <2>1. r = Stop(s, old, FALSE)
    BY <1>7, <1>11
  <2>2. r \in States /\ r.tree = old /\ r.ok = FALSE /\ r.seenMatch = s.seenMatch /\ r.stopped = TRUE
    BY <1>1, <2>1, StopIs
  <2> QED BY <1>10, <1>11, <2>2 DEF Puts, old
<1>12. CASE ~(path \in DOMAIN old /\ old[path].kind # "file") /\ [op |-> "creat", path |-> path] \in broken
  <2>1. r = Stop(s, old, FALSE)
    BY <1>7, <1>12
  <2>2. r \in States /\ r.tree = old /\ r.ok = FALSE /\ r.seenMatch = s.seenMatch /\ r.stopped = TRUE
    BY <1>1, <2>1, StopIs
  <2> QED BY <1>10, <1>12, <2>2 DEF Puts, old
<1>13. CASE ~(path \in DOMAIN old /\ old[path].kind # "file") /\ [op |-> "creat", path |-> path] \notin broken
  <2>1. Placing(old, tree, {}, {path})
    BY <1>6, <1>13 DEF Placing
  <2>2. CASE ~filled \/ late
    <3>1. r = Stop(s, tree, TRUE)
      BY <1>7, <1>13, <2>2
    <3>2. r \in States /\ r.tree = tree /\ r.ok = TRUE /\ r.seenMatch = s.seenMatch /\ r.stopped = TRUE
      BY <1>6, <3>1, StopIs
    <3> QED BY <1>8, <1>9, <2>1, <2>2, <3>2 DEF Puts, old
  <2>3. CASE ~(~filled \/ late)
    <3>1. r = Go(s, tree)
      BY <1>7, <1>13, <2>3
    <3>2. r \in States /\ r.tree = tree /\ r.ok = s.ok /\ r.seenMatch = s.seenMatch /\ r.stopped = s.stopped
      BY <1>6, <3>1, GoIs
    <3>3. tree[path] = node
      BY <1>4, <1>6, <2>3 DEF node
    <3> QED BY <1>6, <2>1, <3>2, <3>3 DEF Puts, old
  <2> QED BY <2>2, <2>3
<1> QED BY <1>11, <1>12, <1>13

LEMMA LinkPuts ==
    ASSUME NEW s \in States, s.ok = TRUE, s.stopped = FALSE, NEW e \in Record, e.link, NEW path \in Seq(Nat), NEW broken
    PROVE  Puts(s, e, path, Link(e.data), broken, ExtractLink(s, e, path, broken))
<1> DEFINE r == ExtractLink(s, e, path, broken)
           node == Link(e.data)
           old == s.tree
           tree == With(old, path, node)
           fails == \/ e.size = 0 \/ ~ReadEntry(e, e.size) \/ path \in DOMAIN old
                    \/ [op |-> "symlink", path |-> path] \in broken
<1> SUFFICES Puts(s, e, path, node, broken, r)
  OBVIOUS
<1>1. old \in Trees /\ e.data \in Seq(Nat) /\ e.size \in Nat
  BY DEF States, Record
<1>2. node \in Nodes /\ node.kind = "link"
  BY <1>1, NodesAre
<1> HIDE DEF node
<1>3. /\ tree \in Trees /\ DOMAIN tree = DOMAIN old \cup {path} /\ tree[path] = node
      /\ \A q \in DOMAIN old : q # path => tree[q] = old[q]
  <2>1. HasNode(old, path, node, tree)
    BY <1>1, <1>2, WithIs
  <2> HIDE DEF tree
  <2> QED BY <2>1 DEF HasNode
<1>4. r = IF fails THEN Stop(s, old, FALSE) ELSE Go(s, tree)
  BY DEF ExtractLink, node
<1>5. broken = {} /\ Whole(e) /\ Fits(e) /\ path \notin DOMAIN old => ~fails
  <2>1. Processed(e).ok <=> Whole(e)
    BY ProcessedIs
  <2> QED BY <1>1, <2>1 DEF ReadEntry, Fits
<1>6. path \in DOMAIN old => fails
  OBVIOUS
<1> HIDE DEF r, tree, fails, old
<1>7. CASE fails
  <2>1. r = Stop(s, old, FALSE)
    BY <1>4, <1>7
  <2>2. r \in States /\ r.tree = old /\ r.ok = FALSE /\ r.seenMatch = s.seenMatch /\ r.stopped = TRUE
    BY <1>1, <2>1, StopIs
  <2>3. Placing(old, old, {}, {path})
    BY DEF Placing
  <2> QED BY <1>2, <1>5, <1>7, <2>2, <2>3 DEF Puts, old
<1>8. CASE ~fails
  <2>1. r = Go(s, tree)
    BY <1>4, <1>8
  <2>2. r \in States /\ r.tree = tree /\ r.ok = s.ok /\ r.seenMatch = s.seenMatch /\ r.stopped = s.stopped
    BY <1>3, <2>1, GoIs
  <2>3. Placing(old, tree, {}, {path})
    BY <1>3, <1>6, <1>8 DEF Placing
  <2> QED BY <1>3, <2>2, <2>3 DEF Puts, old
<1> QED BY <1>7, <1>8

\* What becomes of an entry under the directory that is wanted: sel, it is to be
\* there; filled, as a file or a link.
Extracts(s, e, path, sel, filled, node, broken, r) ==
    /\ r \in States /\ r.seenMatch = s.seenMatch
    /\ ~sel => r = s
    /\ sel => Placing(s.tree, r.tree, DirsOf(path), IF filled THEN {path} ELSE {})
    /\ sel /\ ~r.stopped =>
          /\ r.ok /\ AllDirs(r.tree, DirsOf(path))
          /\ filled => path \in DOMAIN r.tree /\ r.tree[path] = node
    /\ r.stopped /\ r.ok => filled /\ node.kind = "file" /\ NotFilled(e, path, broken)
    /\ /\ broken = {} /\ (sel => Clear(s.tree, DirsOf(path)))
       /\ filled => /\ Whole(e) /\ Fits(e) /\ path \notin DirsOf(path)
                    /\ path \in DOMAIN s.tree => node.kind = "file" /\ s.tree[path].kind = "file"
       => r.ok

\* Are an entry and its node in the tree, and as what?
Wanted(e, flags) == "DRY_RUN" \notin flags /\ (Last(e.name) = Slash => "FILES_ONLY" \notin flags)
Leaf(e, flags) == Wanted(e, flags) /\ Last(e.name) # Slash
NodeIn(e, flags) == IF e.link /\ "FILES_ONLY" \notin flags THEN Link(e.data) ELSE File(e.data)

LEMMA ExtractIs ==
    ASSUME NEW s \in States, s.ok = TRUE, s.stopped = FALSE, NEW e \in Record, NEW path \in Seq(Nat), NEW flags, NEW broken
    PROVE  Extracts(s, e, path, Wanted(e, flags), Leaf(e, flags), NodeIn(e, flags), broken,
                    Extract(s, e, path, flags, broken))
<1> DEFINE r == Extract(s, e, path, flags, broken)
           made == DirCreateHierarchy(s.tree, path, broken)
           sel == Wanted(e, flags)
           filled == Leaf(e, flags)
           node == NodeIn(e, flags)
           on == Go(s, made.tree)
<1> SUFFICES Extracts(s, e, path, sel, filled, node, broken, r)
  OBVIOUS
<1>1. s.tree \in Trees
  BY DEF States
<1>2. /\ made \in Makings /\ Placing(s.tree, made.tree, DirsOf(path), {})
      /\ made.ok => AllDirs(made.tree, DirsOf(path))
      /\ broken = {} /\ Clear(s.tree, DirsOf(path)) => made.ok
  BY <1>1, HierarchyIs
<1> HIDE DEF made
<1>3. made.tree \in Trees
  BY <1>2 DEF Makings
<1>4. on \in States /\ on.tree = made.tree /\ on.ok = s.ok /\ on.seenMatch = s.seenMatch /\ on.stopped = s.stopped
  BY <1>3, GoIs
<1>5. ASSUME ~sel PROVE Extracts(s, e, path, sel, filled, node, broken, r)
  <2>1. r = s
    BY <1>5 DEF Extract, Wanted
  <2>2. ~filled
    BY <1>5 DEF Leaf
  <2> HIDE DEF r, sel, filled, node
  <2> QED BY <1>5, <2>1, <2>2 DEF Extracts
<1>6. ASSUME sel, ~filled PROVE Extracts(s, e, path, sel, filled, node, broken, r)
  <2>1. r = IF made.ok THEN on ELSE Stop(s, made.tree, FALSE)
    BY <1>6 DEF Extract, Wanted, Leaf, made
  <2> HIDE DEF r, sel, filled, node, on
  <2>2. CASE made.ok
    <3>1. r = on
      BY <2>1, <2>2
    <3> QED BY <1>2, <1>4, <1>6, <2>2, <3>1 DEF Extracts
  <2>3. CASE ~made.ok
    <3>1. r = Stop(s, made.tree, FALSE)
      BY <2>1, <2>3
    <3>2. r \in States /\ r.tree = made.tree /\ r.ok = FALSE /\ r.seenMatch = s.seenMatch /\ r.stopped = TRUE
      BY <1>3, <3>1, StopIs
    <3> QED BY <1>2, <1>6, <2>3, <3>2 DEF Extracts
  <2> QED BY <2>2, <2>3
<1>7. ASSUME filled PROVE Extracts(s, e, path, sel, filled, node, broken, r)
  <2>1. sel
    BY <1>7 DEF Leaf
  <2>2. r = IF ~made.ok THEN Stop(s, made.tree, FALSE)
            ELSE IF "FILES_ONLY" \notin flags /\ e.link THEN ExtractLink(on, e, path, broken)
            ELSE ExtractFile(on, e, path, broken)
    BY <1>7 DEF Extract, Wanted, Leaf, made
  <2>3. CASE ~made.ok
    <3> HIDE DEF r, sel, filled, node, on
    <3>1. r = Stop(s, made.tree, FALSE)
      BY <2>2, <2>3
    <3>2. r \in States /\ r.tree = made.tree /\ r.ok = FALSE /\ r.seenMatch = s.seenMatch /\ r.stopped = TRUE
      BY <1>3, <3>1, StopIs
    <3>3. Placing(s.tree, made.tree, DirsOf(path), {path})
      BY <1>2 DEF Placing
    <3> QED BY <1>2, <1>7, <2>1, <2>3, <3>2, <3>3 DEF Extracts
  <2>4. CASE made.ok
    <3>1. Puts(on, e, path, node, broken, r)
      <4> HIDE DEF on, r
      <4>1. CASE "FILES_ONLY" \notin flags /\ e.link
        <5>1. r = ExtractLink(on, e, path, broken) /\ node = Link(e.data)
          BY <2>2, <2>4, <4>1 DEF NodeIn
        <5> QED BY <1>4, <4>1, <5>1, LinkPuts
      <4>2. CASE ~("FILES_ONLY" \notin flags /\ e.link)
        <5>1. r = ExtractFile(on, e, path, broken) /\ node = File(e.data)
          BY <2>2, <2>4, <4>2 DEF NodeIn
        <5> QED BY <1>4, <5>1, FilePuts
      <4> QED BY <4>1, <4>2
    <3> HIDE DEF r, sel, filled, node, on
    <3>2. r \in States /\ r.seenMatch = s.seenMatch
      BY <1>4, <3>1 DEF Puts
    <3>3. Placing(made.tree, r.tree, {}, {path})
      BY <1>4, <3>1 DEF Puts
    <3>4. Placing(s.tree, r.tree, DirsOf(path), {path})
      <4>1. Placing(made.tree, r.tree, DirsOf(path), {path})
        BY <3>3, PlacingMore
      <4> QED BY <1>2, <4>1, PlacingOn
    <3>5. AllDirs(r.tree, DirsOf(path))
      BY <1>2, <2>4, <3>3, PlacingKeeps
    <3>6. ~r.stopped => r.ok /\ path \in DOMAIN r.tree /\ r.tree[path] = node
      BY <3>1 DEF Puts
    <3>7. r.stopped /\ r.ok => node.kind = "file" /\ NotFilled(e, path, broken)
      BY <3>1 DEF Puts
    <3>8. ASSUME broken = {}, Whole(e), Fits(e), path \notin DirsOf(path),
                 path \in DOMAIN s.tree => node.kind = "file" /\ s.tree[path].kind = "file"
          PROVE  r.ok
      <4>1. path \in DOMAIN made.tree => node.kind = "file" /\ made.tree[path].kind = "file"
        BY <1>2, <3>8 DEF Placing
      <4> QED BY <1>4, <3>1, <3>8, <4>1 DEF Puts
    <3> QED BY <1>7, <2>1, <3>2, <3>4, <3>5, <3>6, <3>7, <3>8 DEF Extracts
  <2> QED BY <2>3, <2>4
<1> QED BY <1>5, <1>6, <1>7
-----------------------------------------------------------------------------
(* The paths of a call.                                                    *)

LEMMA FolderIs ==
    ASSUME Slash \in Nat, NEW dir \in Seq(Nat)
    PROVE  Canonical(dir) = Folder(dir) /\ Folder(dir) \in Seq(Nat)
<1>1. Append(dir, Slash) = dir \o <<Slash>> /\ dir \o <<Slash>> \in Seq(Nat)
  <2>1. <<Slash>> \in Seq(Nat) /\ Append(dir, Slash) \in Seq(Nat)
    OBVIOUS
  <2>2. dir \o <<Slash>> \in Seq(Nat) /\ Len(dir \o <<Slash>>) = Len(Append(dir, Slash))
    BY <2>1
  <2>3. \A i \in 1 .. Len(Append(dir, Slash)) : Append(dir, Slash)[i] = (dir \o <<Slash>>)[i]
    OBVIOUS
  <2> QED BY <2>1, <2>2, <2>3, SeqEqual
<1> QED BY <1>1 DEF Canonical, Folder, Last

LEMMA RestIs ==
    ASSUME NEW f \in Seq(Nat), NEW a \in Seq(Nat), Len(f) <= Len(a)
    PROVE  /\ SubSeq(a, Len(f) + 1, Len(a)) \in Seq(Nat)
           /\ Len(SubSeq(a, Len(f) + 1, Len(a))) = Len(a) - Len(f)
           /\ \A i \in 1 .. Len(a) - Len(f) : SubSeq(a, Len(f) + 1, Len(a))[i] = a[Len(f) + i]
<1> DEFINE k == Len(f)
           m == Len(a)
<1>1. k \in Nat /\ m \in Nat /\ k <= m
  OBVIOUS
<1>2. a \in [1 .. m -> Nat]
  OBVIOUS
<1> HIDE DEF k, m
<1>3. \A i \in k + 1 .. m : a[i] \in Nat
  BY <1>1, <1>2
<1>4. SubSeq(a, k + 1, m) \in Seq(Nat)
  BY <1>1, <1>3
<1>5. Len(SubSeq(a, k + 1, m)) = m - k
  BY <1>1
<1>6. \A i \in 1 .. m - k : SubSeq(a, k + 1, m)[i] = a[k + i]
  BY <1>1
<1> QED BY <1>4, <1>5, <1>6 DEF k, m

\* Under one directory different names have different paths.
LEMMA SamePath ==
    ASSUME NEW f \in Seq(Nat), NEW a \in Seq(Nat), NEW b \in Seq(Nat), IsPrefix(f, a), IsPrefix(f, b),
           SubSeq(a, Len(f) + 1, Len(a)) = SubSeq(b, Len(f) + 1, Len(b))
    PROVE  a = b
<1> DEFINE x == SubSeq(a, Len(f) + 1, Len(a))
           y == SubSeq(b, Len(f) + 1, Len(b))
           k == Len(f)
<1>1. /\ k \in Nat /\ k <= Len(a) /\ k <= Len(b) /\ Len(a) \in Nat /\ Len(b) \in Nat
      /\ \A i \in 1 .. k : f[i] = a[i] /\ f[i] = b[i]
  BY PrefixIs
<1>2. /\ Len(x) = Len(a) - k /\ \A i \in 1 .. Len(a) - k : x[i] = a[k + i]
      /\ Len(y) = Len(b) - k /\ \A i \in 1 .. Len(b) - k : y[i] = b[k + i]
  BY <1>1, RestIs
<1>3. x = y
  OBVIOUS
<1> HIDE DEF x, y, k
<1>4. Len(a) = Len(b)
  BY <1>1, <1>2, <1>3
<1>5. ASSUME NEW i \in 1 .. Len(a) PROVE a[i] = b[i]
  <2>1. CASE i <= k
    BY <1>1, <2>1
  <2>2. CASE i > k
    <3>1. i - k \in 1 .. Len(a) - k /\ k + (i - k) = i
      BY SMTT(30), <1>1, <2>2
    <3> QED BY <1>2, <1>3, <1>4, <3>1
  <2> QED BY <1>1, <2>1, <2>2
<1> QED BY <1>4, <1>5, SeqEqual

IsUnzip(c) == IsDirectory(c.directory) /\ c.dir \in Seq(Nat) /\ IsTree(c.tree)

LEMMA SelectedAre ==
    ASSUME NEW c, NEW e \in ToSet(c.directory)
    PROVE  /\ e \in Selected(c) <=> IsPrefix(Folder(c.dir), e.name) /\ Wanted(e, c.flags)
           /\ e \in Filled(c) <=> IsPrefix(Folder(c.dir), e.name) /\ Leaf(e, c.flags)
           /\ NodeOf(c, e) = NodeIn(e, c.flags)
           /\ PathOf(c, e) = TargetEntryPath(Folder(c.dir), e.name)
<1>1. Last(e.name) = e.name[Len(e.name)]
  BY DEF Last
<1>2. e \in Selected(c) <=> IsPrefix(Folder(c.dir), e.name) /\ Wanted(e, c.flags)
  BY <1>1 DEF Selected, Wanted
<1>3. e \in Filled(c) <=> IsPrefix(Folder(c.dir), e.name) /\ Leaf(e, c.flags)
  BY <1>1, <1>2 DEF Filled, Leaf
<1>4. NodeOf(c, e) = NodeIn(e, c.flags) /\ PathOf(c, e) = TargetEntryPath(Folder(c.dir), e.name)
  BY DEF NodeOf, NodeIn, PathOf, TargetEntryPath
<1> QED BY <1>2, <1>3, <1>4

LEMMA PathsAre ==
    ASSUME Slash \in Nat, NEW c, IsUnzip(c), NEW e \in Selected(c)
    PROVE  /\ e \in ToSet(c.directory) /\ e \in Record
           /\ PathOf(c, e) \in Seq(Nat)
           /\ \A g \in Selected(c) : PathOf(c, e) = PathOf(c, g) => e = g
<1>1. c.directory \in Seq(Record) /\ \A i, j \in 1 .. Len(c.directory) :
          c.directory[i].name = c.directory[j].name => i = j
  BY DirectoryIs DEF IsUnzip
<1>2. ToSet(c.directory) = {c.directory[i] : i \in 1 .. Len(c.directory)}
  BY <1>1 DEF ToSet
<1> DEFINE f == Folder(c.dir)
<1>3. f \in Seq(Nat)
  BY FolderIs DEF IsUnzip
<1>4. ASSUME NEW g \in Selected(c) PROVE g \in ToSet(c.directory) /\ g \in Record /\ g.name \in Seq(Nat) /\ IsPrefix(f, g.name)
  <2>1. g \in ToSet(c.directory) /\ IsPrefix(f, g.name)
    BY DEF Selected
  <2>2. g \in Record
    BY <1>1, <1>2, <2>1
  <2> QED BY <2>1, <2>2 DEF Record
<1> HIDE DEF f
<1>5. PathOf(c, e) \in Seq(Nat)
  <2>1. Len(f) <= Len(e.name)
    BY <1>3, <1>4, PrefixIs
  <2>2. SubSeq(e.name, Len(f) + 1, Len(e.name)) \in Seq(Nat)
    BY <1>3, <1>4, <2>1, RestIs
  <2> QED BY <2>2 DEF PathOf, f
<1>6. ASSUME NEW g \in Selected(c), PathOf(c, e) = PathOf(c, g) PROVE e = g
  <2>1. SubSeq(e.name, Len(f) + 1, Len(e.name)) = SubSeq(g.name, Len(f) + 1, Len(g.name))
    BY <1>6 DEF PathOf, f
  <2>2. e.name = g.name
    BY <1>3, <1>4, <2>1, SamePath
  <2>3. PICK i \in 1 .. Len(c.directory) : e = c.directory[i]
    BY <1>2, <1>4
  <2>4. PICK j \in 1 .. Len(c.directory) : g = c.directory[j]
    BY <1>2, <1>4
  <2> QED BY <1>1, <2>2, <2>3, <2>4
<1> QED BY <1>4, <1>5, <1>6

-----------------------------------------------------------------------------
(* The loop over the entries.                                              *)

UpTo(es, n) == {es[i] : i \in 1 .. n}

\* Where the first n entries have put a file or a link.
Tops(c, es, n) == {PathOf(c, e) : e \in Filled(c) \cap UpTo(es, n)}

Kept(old, new, paths) ==
    \A p \in (DOMAIN new \cup DOMAIN old) \ paths : p \in DOMAIN new /\ p \in DOMAIN old /\ new[p] = old[p]

Done(c, es, n, tree) ==
    /\ \A e \in Filled(c) \cap UpTo(es, n) : PathOf(c, e) \in DOMAIN tree /\ tree[PathOf(c, e)] = NodeOf(c, e)
    /\ \A e \in Selected(c) \cap UpTo(es, n) : AllDirs(tree, DirsOf(PathOf(c, e)))

Seen(c, es, n) == \E i \in 1 .. n : IsPrefix(Folder(c.dir), es[i].name)

NothingFails(c) == c.broken = {} /\ Free(c) /\ \A e \in Filled(c) : Whole(e) /\ Fits(e)

\* What holds after n entries.
Unpacking(c, es, n, s) ==
    /\ s \in States
    /\ Kept(c.tree, s.tree, Tops(c, es, n) \cup Needed(c))
    /\ s.stopped = FALSE => s.ok = TRUE /\ Done(c, es, n, s.tree) /\ (s.seenMatch = TRUE <=> Seen(c, es, n))
    /\ s.stopped = TRUE /\ s.ok = TRUE => Unreported(c) \/ Complete(c, s.tree)
    /\ NothingFails(c) => s.ok = TRUE /\ Clear(s.tree, Needed(c))

\* The entries of an opened archive.
Entries(c, es) ==
    /\ es \in Seq(Record) /\ InOrder(es) /\ ToSet(es) = ToSet(c.directory)
    /\ \A i, j \in 1 .. Len(es) : es[i].name = es[j].name => i = j

LEMMA UpToNext ==
    ASSUME NEW es, NEW n \in Nat
    PROVE  UpTo(es, n + 1) = UpTo(es, n) \cup {es[n + 1]}
<1>1. \A i : i \in 1 .. n + 1 <=> i \in 1 .. n \/ i = n + 1
  OBVIOUS
<1> QED BY <1>1 DEF UpTo

LEMMA SeenNext ==
    ASSUME NEW c, NEW es, NEW n \in Nat
    PROVE  Seen(c, es, n + 1) <=> Seen(c, es, n) \/ IsPrefix(Folder(c.dir), es[n + 1].name)
<1>1. \A i : i \in 1 .. n + 1 <=> i \in 1 .. n \/ i = n + 1
  OBVIOUS
<1> QED BY <1>1 DEF Seen

LEMMA UpToAll ==
    ASSUME NEW c, NEW es, Entries(c, es)
    PROVE  UpTo(es, Len(es)) = ToSet(c.directory)
<1>1. DOMAIN es = 1 .. Len(es) /\ ToSet(es) = ToSet(c.directory)
  BY DEF Entries
<1>2. ToSet(es) = {es[i] : i \in 1 .. Len(es)}
  BY <1>1 DEF ToSet
<1> QED BY <1>1, <1>2 DEF UpTo

LEMMA DoneIsComplete ==
    ASSUME NEW c, NEW es, NEW n, NEW tree, Done(c, es, n, tree), Selected(c) \subseteq UpTo(es, n)
    PROVE  Complete(c, tree)
<1>1. Filled(c) \subseteq Selected(c)
  BY DEF Filled
<1>2. \A e \in Filled(c) : PathOf(c, e) \in DOMAIN tree /\ tree[PathOf(c, e)] = NodeOf(c, e)
  BY <1>1 DEF Done
<1>3. ASSUME NEW d \in Needed(c) PROVE d \in DOMAIN tree /\ tree[d] = Dir
  <2>1. PICK e \in Selected(c) : d \in DirsOf(PathOf(c, e))
    BY DEF Needed
  <2>2. AllDirs(tree, DirsOf(PathOf(c, e)))
    BY DEF Done
  <2> QED BY <2>1, <2>2 DEF AllDirs
<1> QED BY <1>2, <1>3 DEF Complete

\* After the matches and one entry that is none there is no other match.
LEMMA NoLaterMatch ==
    ASSUME Slash \in Nat, NEW c, IsUnzip(c), NEW es, Entries(c, es), NEW n \in Nat, n < Len(es),
           Seen(c, es, n), ~IsPrefix(Folder(c.dir), es[n + 1].name)
    PROVE  Selected(c) \subseteq UpTo(es, n)
<1> DEFINE f == Folder(c.dir)
<1>1. f \in Seq(Nat)
  BY FolderIs DEF IsUnzip
<1>2. PICK i \in 1 .. n : IsPrefix(f, es[i].name)
  BY DEF Seen
<1>3. es \in Seq(Record) /\ InOrder(es) /\ Len(es) \in Nat
  BY DEF Entries
<1>4. ~IsPrefix(f, es[n + 1].name)
  OBVIOUS
<1>5. \A e \in Selected(c) : e \in ToSet(c.directory) /\ IsPrefix(f, e.name)
  BY DEF Selected
<1> HIDE DEF f
<1>6. ASSUME NEW j \in 1 .. Len(es) PROVE es[j].name \in Seq(Nat)
  <2>1. es[j] \in Record
    BY <1>3
  <2> QED BY <2>1 DEF Record
<1>7. ASSUME NEW e \in Selected(c) PROVE e \in UpTo(es, n)
  <2>1. PICK j \in 1 .. Len(es) : e = es[j]
    <3>1. e \in UpTo(es, Len(es))
      BY <1>5, UpToAll
    <3> QED BY <3>1 DEF UpTo
  <2>2. CASE j <= n
    <3>1. j \in 1 .. n
      BY <2>2
    <3> QED BY <2>1, <3>1 DEF UpTo
  <2>3. CASE j = n + 1
    BY <1>4, <1>5, <2>1, <2>3
  <2>4. CASE j > n + 1
    <3>1. i \in 1 .. Len(es) /\ n + 1 \in 1 .. Len(es) /\ i < n + 1 /\ n + 1 < j
      BY <1>3, <2>4
    <3>2. IsBefore(es[i].name, es[n + 1].name) /\ IsBefore(es[n + 1].name, es[j].name)
      BY <1>3, <3>1 DEF InOrder
    <3>3. IsPrefix(f, es[j].name)
      BY <1>5, <2>1
    <3>4. es[i].name \in Seq(Nat) /\ es[n + 1].name \in Seq(Nat) /\ es[j].name \in Seq(Nat)
      BY <1>6, <3>1
    <3> QED BY <1>1, <1>2, <1>4, <3>2, <3>3, <3>4, PrefixBetween
  <2> QED BY <1>3, <2>2, <2>3, <2>4
<1> QED BY <1>7

LEMMA KeptMore ==
    ASSUME NEW a, NEW b, NEW P, NEW Q, Kept(a, b, P), P \subseteq Q
    PROVE  Kept(a, b, Q)
BY DEF Kept

LEMMA TopsGrow == ASSUME NEW c, NEW es, NEW n \in Nat PROVE Tops(c, es, n) \subseteq Tops(c, es, n + 1)
BY UpToNext DEF Tops

LEMMA StoppedStays ==
    ASSUME NEW c, NEW es, NEW n \in Nat, NEW s, Unpacking(c, es, n, s), s.stopped = TRUE
    PROVE  Unpacking(c, es, n + 1, s)
<1>1. Tops(c, es, n) \cup Needed(c) \subseteq Tops(c, es, n + 1) \cup Needed(c)
  BY TopsGrow
<1>2. Kept(c.tree, s.tree, Tops(c, es, n) \cup Needed(c))
  BY DEF Unpacking
<1>3. Kept(c.tree, s.tree, Tops(c, es, n + 1) \cup Needed(c))
  BY <1>1, <1>2, KeptMore
<1> QED BY <1>3 DEF Unpacking

LEMMA PassesBy ==
    ASSUME Slash \in Nat, NEW c, IsUnzip(c), NEW es, Entries(c, es), NEW n \in Nat, n < Len(es),
           NEW s, Unpacking(c, es, n, s), s.stopped = FALSE, ~IsPrefix(Folder(c.dir), es[n + 1].name)
    PROVE  Unpacking(c, es, n + 1, [s EXCEPT !.stopped = s.seenMatch])
<1> DEFINE r == [s EXCEPT !.stopped = s.seenMatch]
           e == es[n + 1]
<1> SUFFICES Unpacking(c, es, n + 1, r)
  OBVIOUS
<1>1. s \in States
  BY DEF Unpacking
<1>2. /\ r \in States /\ r.tree = s.tree /\ r.ok = s.ok /\ r.seenMatch = s.seenMatch
      /\ r.stopped = s.seenMatch
  BY <1>1 DEF States
<1>3. e \notin Selected(c)
  BY DEF Selected
<1>4. Filled(c) \subseteq Selected(c)
  BY DEF Filled
<1>5. UpTo(es, n + 1) = UpTo(es, n) \cup {e}
  BY UpToNext
<1> HIDE DEF r, e
<1>6. Filled(c) \cap UpTo(es, n + 1) = Filled(c) \cap UpTo(es, n) /\ Selected(c) \cap UpTo(es, n + 1) = Selected(c) \cap UpTo(es, n)
  BY <1>3, <1>4, <1>5
<1>7. Tops(c, es, n + 1) = Tops(c, es, n)
  BY <1>6 DEF Tops
<1>8. Done(c, es, n, s.tree) /\ s.ok = TRUE /\ (s.seenMatch = TRUE <=> Seen(c, es, n))
  BY DEF Unpacking
<1>9. Done(c, es, n + 1, s.tree)
  BY <1>6, <1>8 DEF Done
<1>10. Seen(c, es, n + 1) <=> Seen(c, es, n)
  BY SeenNext DEF e
<1>11. ASSUME s.seenMatch = TRUE PROVE Complete(c, s.tree)
  <2>1. Selected(c) \subseteq UpTo(es, n)
    BY <1>8, <1>11, NoLaterMatch
  <2> QED BY <1>8, <2>1, DoneIsComplete
<1>12. Kept(c.tree, s.tree, Tops(c, es, n + 1) \cup Needed(c))
  BY <1>7 DEF Unpacking
<1>13. NothingFails(c) => s.ok = TRUE /\ Clear(s.tree, Needed(c))
  BY DEF Unpacking
<1> QED BY <1>2, <1>8, <1>9, <1>10, <1>11, <1>12, <1>13 DEF Unpacking

\* One match more: what Extracts says of it keeps what holds of the loop.
LEMMA MatchGoesOn ==
    ASSUME Slash \in Nat, NEW c, IsUnzip(c), NEW es, Entries(c, es), NEW n \in Nat, n < Len(es),
           NEW s, Unpacking(c, es, n, s), s.stopped = FALSE, IsPrefix(Folder(c.dir), es[n + 1].name),
           NEW x, x \in States, x.tree = s.tree, x.ok = TRUE, x.seenMatch = TRUE, x.stopped = FALSE,
           NEW path, path = PathOf(c, es[n + 1]), NEW sel, sel = (es[n + 1] \in Selected(c)),
           NEW filled, filled = (es[n + 1] \in Filled(c)), NEW r,
           Extracts(x, es[n + 1], path, sel, filled, NodeOf(c, es[n + 1]), c.broken, r)
    PROVE  Unpacking(c, es, n + 1, r)
<1> DEFINE e == es[n + 1]
           node == NodeOf(c, e)
           at == IF filled THEN {path} ELSE {}
           broken == c.broken
<1>1. e \in ToSet(c.directory)
  <2>1. n + 1 \in 1 .. Len(es)
    BY DEF Entries
  <2>2. e \in UpTo(es, Len(es))
    BY <2>1 DEF UpTo
  <2> QED BY <2>2, UpToAll
<1>2. path = PathOf(c, e) /\ (sel <=> e \in Selected(c)) /\ (filled <=> e \in Filled(c))
  OBVIOUS
<1>3. Extracts(x, e, path, sel, filled, node, broken, r)
  OBVIOUS
<1>4. UpTo(es, n + 1) = UpTo(es, n) \cup {e}
  BY UpToNext
<1>5. Seen(c, es, n + 1)
  BY SeenNext
<1>6. broken = c.broken /\ node = NodeOf(c, e)
  OBVIOUS
<1> HIDE DEF e, node, broken
<1>7. Filled(c) \subseteq Selected(c)
  BY DEF Filled
<1>8. filled => sel
  BY <1>2, <1>7
<1>9. Done(c, es, n, s.tree) /\ s \in States /\ Kept(c.tree, s.tree, Tops(c, es, n) \cup Needed(c))
  BY DEF Unpacking
<1>10. sel => DirsOf(path) \subseteq Needed(c)
  BY <1>2 DEF Needed
<1>11. filled => path \in Tops(c, es, n + 1)
  BY <1>2, <1>4 DEF Tops
<1>12. ASSUME filled, NEW g \in Selected(c), g # e PROVE PathOf(c, g) # path
  <2>1. e \in Selected(c)
    BY <1>2, <1>8, <1>12
  <2> QED BY <1>2, <1>12, <2>1, PathsAre
<1>13. r \in States /\ r.seenMatch = TRUE
  BY <1>3 DEF Extracts
<1>14. /\ ~sel => r = x
       /\ sel => Placing(s.tree, r.tree, DirsOf(path), at)
  BY <1>3 DEF Extracts
<1>15. Kept(c.tree, r.tree, Tops(c, es, n + 1) \cup Needed(c))
  <2>1. Tops(c, es, n) \cup Needed(c) \subseteq Tops(c, es, n + 1) \cup Needed(c)
    BY TopsGrow
  <2>2. Kept(c.tree, s.tree, Tops(c, es, n + 1) \cup Needed(c))
    BY <1>9, <2>1, KeptMore
  <2>3. CASE ~sel
    BY <1>14, <2>2, <2>3
  <2>4. CASE sel
    <3>1. Placing(s.tree, r.tree, DirsOf(path), at)
      BY <1>14, <2>4
    <3>2. at \subseteq Tops(c, es, n + 1) /\ DirsOf(path) \subseteq Needed(c)
      BY <1>10, <1>11, <2>4
    <3> HIDE DEF at
    <3> SUFFICES ASSUME NEW p \in (DOMAIN r.tree \cup DOMAIN c.tree) \ (Tops(c, es, n + 1) \cup Needed(c))
                 PROVE  p \in DOMAIN r.tree /\ p \in DOMAIN c.tree /\ r.tree[p] = c.tree[p]
      BY DEF Kept
    <3>3. p \notin at /\ p \notin DirsOf(path)
      BY <3>2
    <3>4. p \in DOMAIN s.tree
      <4>1. CASE p \in DOMAIN r.tree
        BY <3>1, <3>3, <4>1 DEF Placing
      <4>2. CASE p \in DOMAIN c.tree
        BY <2>2, <4>2 DEF Kept
      <4> QED BY <4>1, <4>2
    <3>5. p \in DOMAIN c.tree /\ s.tree[p] = c.tree[p]
      BY <2>2, <3>4 DEF Kept
    <3>6. p \in DOMAIN r.tree /\ r.tree[p] = s.tree[p]
      BY <3>1, <3>3, <3>4 DEF Placing
    <3> QED BY <3>5, <3>6
  <2> QED BY <2>3, <2>4, <1>2
<1>16. ASSUME r.stopped = FALSE PROVE r.ok = TRUE /\ Done(c, es, n + 1, r.tree)
  <2>1. CASE ~sel
    <3>1. Filled(c) \cap UpTo(es, n + 1) = Filled(c) \cap UpTo(es, n) /\ Selected(c) \cap UpTo(es, n + 1) = Selected(c) \cap UpTo(es, n)
      BY <1>2, <1>4, <1>7, <2>1
    <3>2. r.tree = s.tree /\ r.ok = TRUE
      BY <1>14, <2>1
    <3> QED BY <1>9, <3>1, <3>2 DEF Done
  <2>2. CASE sel
    <3>1. Placing(s.tree, r.tree, DirsOf(path), at)
      BY <1>14, <2>2
    <3>2. /\ r.ok = TRUE /\ AllDirs(r.tree, DirsOf(path))
          /\ filled => path \in DOMAIN r.tree /\ r.tree[path] = node
      BY <1>3, <1>13, <1>16, <2>2 DEF Extracts, States
    <3>3. ASSUME NEW g \in Filled(c) \cap UpTo(es, n + 1)
          PROVE  PathOf(c, g) \in DOMAIN r.tree /\ r.tree[PathOf(c, g)] = NodeOf(c, g)
      <4>1. CASE g = e
        BY <1>2, <1>6, <3>2, <3>3, <4>1
      <4>2. CASE g # e
        <5>1. g \in Filled(c) \cap UpTo(es, n) /\ g \in Selected(c)
          BY <1>4, <1>7, <4>2
        <5>2. PathOf(c, g) \in DOMAIN s.tree /\ s.tree[PathOf(c, g)] = NodeOf(c, g)
          BY <1>9, <5>1 DEF Done
        <5>3. PathOf(c, g) \notin at
          BY <1>12, <4>2, <5>1
        <5> HIDE DEF at
        <5> QED BY <3>1, <5>2, <5>3 DEF Placing
      <4> QED BY <4>1, <4>2
    <3>4. ASSUME NEW g \in Selected(c) \cap UpTo(es, n + 1)
          PROVE  AllDirs(r.tree, DirsOf(PathOf(c, g)))
      <4>1. CASE g = e
        BY <1>2, <3>2, <4>1
      <4>2. CASE g # e
        <5>1. g \in Selected(c) \cap UpTo(es, n)
          BY <1>4, <4>2
        <5>2. AllDirs(s.tree, DirsOf(PathOf(c, g)))
          BY <1>9, <5>1 DEF Done
        <5> HIDE DEF at
        <5> QED BY <3>1, <5>2, PlacingKeeps
      <4> QED BY <4>1, <4>2
    <3> QED BY <3>2, <3>3, <3>4 DEF Done
  <2> QED BY <2>1, <2>2, <1>2
<1>17. ASSUME r.stopped = TRUE, r.ok = TRUE PROVE Unreported(c)
  <2>1. filled /\ node.kind = "file" /\ NotFilled(e, path, broken)
    BY <1>3, <1>17 DEF Extracts
  <2>2. e \in Filled(c) /\ NodeOf(c, e).kind = "file"
    BY <1>2, <1>6, <2>1
  <2>3. ~Whole(e) \/ \E op \in {"write", "utime"} : [op |-> op, path |-> PathOf(c, e)] \in c.broken
    BY <1>2, <1>6, <2>1 DEF NotFilled
  <2> QED BY <2>2, <2>3 DEF Unreported
<1>18. ASSUME NothingFails(c) PROVE r.ok = TRUE /\ Clear(r.tree, Needed(c))
  <2>1. /\ broken = {} /\ Clear(s.tree, Needed(c))
        /\ \A g \in Filled(c) : /\ Whole(g) /\ Fits(g) /\ PathOf(c, g) \notin Needed(c)
                                /\ PathOf(c, g) \in DOMAIN c.tree =>
                                      NodeOf(c, g).kind = "file" /\ c.tree[PathOf(c, g)].kind = "file"
    BY <1>6, <1>18 DEF NothingFails, Free, Unpacking
  <2>2. sel => Clear(s.tree, DirsOf(path))
    BY <1>10, <2>1 DEF Clear
  <2>3. ASSUME filled
        PROVE  /\ Whole(e) /\ Fits(e) /\ path \notin DirsOf(path) /\ path \notin Needed(c)
               /\ path \in DOMAIN s.tree => node.kind = "file" /\ s.tree[path].kind = "file"
    <3>1. e \in Filled(c)
      BY <1>2, <2>3
    <3>2. path \notin Needed(c) /\ path \notin DirsOf(path)
      BY <1>2, <1>8, <1>10, <2>1, <2>3, <3>1
    <3>3. path \notin Tops(c, es, n)
      <4> SUFFICES ASSUME NEW g \in Filled(c) \cap UpTo(es, n), path = PathOf(c, g) PROVE FALSE
        BY DEF Tops
      <4>1. g = e
        BY <1>7, <1>12, <2>3
      <4>2. e \notin UpTo(es, n)
        <5> SUFFICES ASSUME NEW i \in 1 .. n, es[i] = es[n + 1] PROVE FALSE
          BY DEF UpTo, e
        <5>1. i \in 1 .. Len(es) /\ n + 1 \in 1 .. Len(es) /\ i # n + 1
          BY DEF Entries
        <5> QED BY <5>1 DEF Entries
      <4> QED BY <4>1, <4>2
    <3>4. path \in DOMAIN s.tree => path \in DOMAIN c.tree /\ s.tree[path] = c.tree[path]
      BY <1>9, <3>2, <3>3 DEF Kept
    <3> QED BY <1>2, <1>6, <2>1, <3>1, <3>2, <3>4
  <2>4. r.ok = TRUE
    <3>1. x.tree = s.tree
      OBVIOUS
    <3>2. sel => Clear(x.tree, DirsOf(path))
      BY <2>2, <3>1
    <3>3. filled => /\ Whole(e) /\ Fits(e) /\ path \notin DirsOf(path)
                    /\ path \in DOMAIN x.tree => node.kind = "file" /\ x.tree[path].kind = "file"
      BY <2>3, <3>1
    <3>4. r.ok
      BY <1>3, <2>1, <3>2, <3>3 DEF Extracts
    <3> QED BY <1>13, <3>4 DEF States
  <2>5. Clear(r.tree, Needed(c))
    <3>1. CASE ~sel
      BY <1>14, <2>1, <3>1
    <3>2. CASE sel
      <4>1. Placing(s.tree, r.tree, DirsOf(path), at)
        BY <1>14, <3>2
      <4>2. ASSUME NEW d \in Needed(c) PROVE d \notin at
        BY <2>3
      <4> HIDE DEF at
      <4> SUFFICES ASSUME NEW d \in Needed(c), d \in DOMAIN r.tree PROVE r.tree[d] = Dir
        BY DEF Clear
      <4>3. CASE d \in DOMAIN s.tree
        BY <2>1, <4>1, <4>2, <4>3 DEF Placing, Clear
      <4>4. CASE d \notin DOMAIN s.tree
        BY <4>1, <4>2, <4>4 DEF Placing
      <4> QED BY <4>3, <4>4
    <3> QED BY <3>1, <3>2, <1>2
  <2> QED BY <2>4, <2>5
<1> QED BY <1>5, <1>13, <1>15, <1>16, <1>17, <1>18 DEF Unpacking

LEMMA OneMore ==
    ASSUME Slash \in Nat, NEW c, IsUnzip(c), NEW es, Entries(c, es), NEW n \in Nat, n < Len(es),
           NEW s, Unpacking(c, es, n, s)
    PROVE  Unpacking(c, es, n + 1, ExtractOne(s, es[n + 1], Canonical(c.dir), c.flags, c.broken))
<1> DEFINE e == es[n + 1]
           f == Folder(c.dir)
           r == ExtractOne(s, e, Canonical(c.dir), c.flags, c.broken)
           x == [s EXCEPT !.seenMatch = TRUE]
           path == TargetEntryPath(f, e.name)
<1> SUFFICES Unpacking(c, es, n + 1, r)
  OBVIOUS
<1>1. Canonical(c.dir) = f /\ f \in Seq(Nat)
  BY FolderIs DEF IsUnzip
<1>2. s \in States /\ s.stopped \in BOOLEAN
  BY DEF Unpacking, States
<1>3. r = IF s.stopped THEN s
          ELSE IF ~IsPrefix(f, e.name) THEN [s EXCEPT !.stopped = s.seenMatch]
          ELSE Extract(x, e, path, c.flags, c.broken)
  BY <1>1 DEF ExtractOne
<1>4. e \in Record /\ e \in ToSet(c.directory)
  <2>1. n + 1 \in 1 .. Len(es) /\ es \in Seq(Record) /\ ToSet(es) = ToSet(c.directory)
    BY DEF Entries
  <2>2. e \in Record
    BY <2>1
  <2>3. e \in UpTo(es, Len(es))
    BY <2>1 DEF UpTo
  <2> QED BY <2>2, <2>3, UpToAll
<1>5. CASE s.stopped = TRUE
  <2>1. r = s
    BY <1>3, <1>5
  <2> QED BY <1>5, <2>1, StoppedStays
<1>6. CASE s.stopped = FALSE /\ ~IsPrefix(f, e.name)
  <2>1. r = [s EXCEPT !.stopped = s.seenMatch]
    BY <1>3, <1>6
  <2> HIDE DEF r
  <2> QED BY <1>6, <2>1, PassesBy
<1>7. CASE s.stopped = FALSE /\ IsPrefix(f, e.name)
  <2>1. r = Extract(x, e, path, c.flags, c.broken)
    BY <1>3, <1>7
  <2>2. x \in States /\ x.tree = s.tree /\ x.ok = s.ok /\ x.seenMatch = TRUE /\ x.stopped = FALSE
    BY <1>2, <1>7 DEF States
  <2>3. s.ok = TRUE
    BY <1>7 DEF Unpacking
  <2> DEFINE sel == e \in Selected(c)
             filled == e \in Filled(c)
             node == NodeOf(c, e)
  <2>4. /\ sel <=> Wanted(e, c.flags)
        /\ filled <=> Leaf(e, c.flags)
        /\ node = NodeIn(e, c.flags) /\ path = PathOf(c, e)
    BY <1>4, <1>7, SelectedAre
  <2>5. path \in Seq(Nat)
    <3>1. e.name \in Seq(Nat)
      BY <1>4 DEF Record
    <3>2. Len(f) <= Len(e.name)
      BY <1>1, <1>7, <3>1, PrefixIs
    <3> HIDE DEF e, f
    <3> QED BY <1>1, <3>1, <3>2, RestIs DEF TargetEntryPath
  <2>6. Wanted(e, c.flags) \in BOOLEAN /\ Leaf(e, c.flags) \in BOOLEAN
    BY DEF Wanted, Leaf
  <2> HIDE DEF r, x, path
  <2>7. Extracts(x, e, path, Wanted(e, c.flags), Leaf(e, c.flags), NodeIn(e, c.flags), c.broken, r)
    BY <1>4, <2>1, <2>2, <2>3, <2>5, ExtractIs
  <2>8. Extracts(x, e, path, sel, filled, node, c.broken, r)
    <3>1. sel = Wanted(e, c.flags) /\ filled = Leaf(e, c.flags) /\ node = NodeIn(e, c.flags)
      BY <2>4, <2>6
    <3> HIDE DEF sel, filled, node
    <3> QED BY <2>7, <3>1
  <2>9. x.ok = TRUE /\ path = PathOf(c, es[n + 1]) /\ IsPrefix(Folder(c.dir), es[n + 1].name)
    BY <1>7, <2>2, <2>3, <2>4
  <2> QED BY <1>7, <2>2, <2>8, <2>9, MatchGoesOn
<1> QED BY <1>2, <1>5, <1>6, <1>7

LEMMA NoneYet ==
    ASSUME NEW c, IsUnzip(c), NEW es
    PROVE  Unpacking(c, es, 0, [tree |-> c.tree, ok |-> TRUE, seenMatch |-> FALSE, stopped |-> FALSE])
<1> DEFINE s == [tree |-> c.tree, ok |-> TRUE, seenMatch |-> FALSE, stopped |-> FALSE]
<1>1. c.tree \in Trees
  BY TreeIs DEF IsUnzip, IsTree
<1>2. s \in States /\ s.tree = c.tree /\ s.ok = TRUE /\ s.seenMatch = FALSE /\ s.stopped = FALSE
  BY <1>1 DEF States
<1>3. UpTo(es, 0) = {} /\ ~Seen(c, es, 0)
  BY DEF UpTo, Seen
<1>4. Done(c, es, 0, c.tree)
  BY <1>3 DEF Done
<1>5. Kept(c.tree, c.tree, Tops(c, es, 0) \cup Needed(c))
  BY DEF Kept
<1>6. NothingFails(c) => Clear(c.tree, Needed(c))
  BY DEF NothingFails, Free, Clear
<1> HIDE DEF s
<1>7. Unpacking(c, es, 0, s)
  BY <1>2, <1>3, <1>4, <1>5, <1>6 DEF Unpacking
<1> QED BY <1>7 DEF s

\* The loop, to its end.
LEMMA ExtractRecursiveIs ==
    ASSUME Slash \in Nat, NEW c, IsUnzip(c), NEW es, Entries(c, es), NEW archive, archive.entries = es
    PROVE  LET r == mzExtractRecursive(archive, c.dir, c.tree, c.flags, c.broken)
           IN  IF c.dir # <<>> /\ Head(c.dir) = Slash THEN r = [tree |-> c.tree, ok |-> FALSE]
               ELSE \E s : Unpacking(c, es, Len(es), s) /\ r = [tree |-> s.tree, ok |-> s.ok]
<1> DEFINE N == Len(es)
           b == [tree |-> c.tree, ok |-> TRUE, seenMatch |-> FALSE, stopped |-> FALSE]
           After1(n, s) == ExtractOne(s, es[n + 1], Canonical(c.dir), c.flags, c.broken)
           step == [n \in Nat |-> [s \in States |->
                       IF n < N /\ Unpacking(c, es, n, s) THEN After1(n, s) ELSE s]]
           Body(g) == [n \in 0 .. Len(archive.entries) |->
                         IF n = 0 THEN [tree |-> c.tree, ok |-> TRUE, seenMatch |-> FALSE, stopped |-> FALSE]
                         ELSE ExtractOne(g[n - 1], archive.entries[n], Canonical(c.dir), c.flags, c.broken)]
           after == CHOOSE g : g = Body(g)
           r == mzExtractRecursive(archive, c.dir, c.tree, c.flags, c.broken)
<1>1. N \in Nat /\ Len(archive.entries) = N
  BY DEF Entries
<1>2. Unpacking(c, es, 0, b)
  BY NoneYet
<1>3. b \in States
  <2> HIDE DEF b
  <2> QED BY <1>2 DEF Unpacking
<1>4. ASSUME NEW n \in Nat, NEW s, n < N, Unpacking(c, es, n, s)
      PROVE  Unpacking(c, es, n + 1, After1(n, s))
  BY <1>4, OneMore
<1> HIDE DEF N, After1, b
<1>5. step \in [Nat -> [States -> States]]
  <2>1. ASSUME NEW n \in Nat, NEW s \in States
        PROVE  (IF n < N /\ Unpacking(c, es, n, s) THEN After1(n, s) ELSE s) \in States
    BY <1>4 DEF Unpacking
  <2> QED BY <2>1
<1>6. \A n \in Nat, s \in States : n < N /\ Unpacking(c, es, n, s) => step[n][s] = After1(n, s)
  OBVIOUS
<1> HIDE DEF step
<1>7. PICK g : Iterates(g, States, b, step)
  BY <1>3, <1>5, Iteration, Zenon
<1>8. \A n \in Nat : n <= N => Unpacking(c, es, n, g[n])
  <2> DEFINE S == {n \in Nat : n <= N => Unpacking(c, es, n, g[n])}
  <2>1. 0 \in S
    BY <1>2, <1>7 DEF Iterates
  <2>2. ASSUME NEW n \in Nat, n \in S PROVE n + 1 \in S
    <3> SUFFICES ASSUME n + 1 <= N PROVE Unpacking(c, es, n + 1, g[n + 1])
      OBVIOUS
    <3>1. n < N /\ n <= N
      BY <1>1
    <3>2. Unpacking(c, es, n, g[n])
      BY <2>2, <3>1
    <3>3. g[n + 1] = step[n][g[n]] /\ g[n] \in States
      BY <1>7 DEF Iterates
    <3>4. g[n + 1] = After1(n, g[n])
      BY <1>6, <3>1, <3>2, <3>3
    <3> QED BY <1>4, <3>1, <3>2, <3>4
  <2> HIDE DEF S
  <2>3. Nat \subseteq S
    BY <2>1, <2>2, Induction
  <2> QED BY <2>3 DEF S
<1> DEFINE h == [n \in 0 .. Len(archive.entries) |-> g[n]]
<1>9. h = Body(h)
  <2>1. ASSUME NEW n \in 0 .. Len(archive.entries), n # 0
        PROVE  h[n] = ExtractOne(h[n - 1], archive.entries[n], Canonical(c.dir), c.flags, c.broken)
    <3>1. n - 1 \in Nat /\ n - 1 \in 0 .. Len(archive.entries) /\ n - 1 < N /\ n - 1 <= N /\ (n - 1) + 1 = n
      BY <1>1, <2>1
    <3>2. Unpacking(c, es, n - 1, g[n - 1])
      BY <1>8, <3>1
    <3>3. g[n] = step[n - 1][g[n - 1]] /\ g[n - 1] \in States
      BY <1>7, <3>1 DEF Iterates
    <3>4. g[n] = After1(n - 1, g[n - 1])
      BY <1>6, <3>1, <3>2, <3>3
    <3>5. g[n] = ExtractOne(g[n - 1], archive.entries[n], Canonical(c.dir), c.flags, c.broken)
      BY <3>1, <3>4 DEF After1
    <3> QED BY <3>1, <3>5
  <2>2. h[0] = b
    BY <1>1, <1>7 DEF Iterates
  <2> QED BY <2>1, <2>2 DEF b
<1>10. after = Body(after)
  <2> HIDE DEF Body, h
  <2> QED BY <1>9
<1>11. r = IF c.dir # <<>> /\ Head(c.dir) = Slash THEN [tree |-> c.tree, ok |-> FALSE]
           ELSE [tree |-> after[N].tree, ok |-> after[N].ok]
  BY <1>1 DEF mzExtractRecursive
<1>12. after[0] = b /\ \A n \in 1 .. N : after[n] = After1(n - 1, after[n - 1])
  <2> HIDE DEF after
  <2>1. after[0] = b
    BY <1>1, <1>10 DEF b
  <2>2. ASSUME NEW n \in 1 .. N PROVE after[n] = After1(n - 1, after[n - 1])
    <3>1. n \in 0 .. Len(archive.entries) /\ n # 0 /\ (n - 1) + 1 = n
      BY <1>1
    <3> QED BY <1>10, <3>1 DEF After1
  <2> QED BY <2>1, <2>2
<1> HIDE DEF after
<1>13. \A n \in Nat : n <= N => Unpacking(c, es, n, after[n])
  <2> DEFINE S == {n \in Nat : n <= N => Unpacking(c, es, n, after[n])}
  <2>1. 0 \in S
    BY <1>2, <1>12
  <2>2. ASSUME NEW n \in Nat, n \in S PROVE n + 1 \in S
    <3> SUFFICES ASSUME n + 1 <= N PROVE Unpacking(c, es, n + 1, after[n + 1])
      OBVIOUS
    <3>1. n < N /\ n <= N /\ n + 1 \in 1 .. N /\ (n + 1) - 1 = n
      BY <1>1
    <3>2. after[n + 1] = After1(n, after[n])
      BY <1>12, <3>1
    <3> QED BY <1>4, <2>2, <3>1, <3>2
  <2> HIDE DEF S
  <2>3. Nat \subseteq S
    BY <2>1, <2>2, Induction
  <2> QED BY <2>3 DEF S
<1>14. Unpacking(c, es, N, after[N])
  BY <1>1, <1>13
<1> HIDE DEF r
<1> QED BY <1>11, <1>14 DEF N, r

\* What is unpacked is in its place, or a failure is reported, and nothing else
\* is touched.
LEMMA Unpacked ==
    ASSUME Slash \in Nat, NEW c, IsUnzip(c), NEW archive, archive.entries = Sorted(c.directory)
    PROVE  UnpackedRight(c, mzExtractRecursive(archive, c.dir, c.tree, c.flags, c.broken))
<1> DEFINE es == Sorted(c.directory)
           r == mzExtractRecursive(archive, c.dir, c.tree, c.flags, c.broken)
<1> SUFFICES UnpackedRight(c, r)
  OBVIOUS
<1>1. Entries(c, es)
  BY EntriesAre DEF Entries, IsUnzip
<1>2. archive.entries = es
  OBVIOUS
<1> HIDE DEF es
<1>3. IF c.dir # <<>> /\ Head(c.dir) = Slash THEN r = [tree |-> c.tree, ok |-> FALSE]
      ELSE \E s : Unpacking(c, es, Len(es), s) /\ r = [tree |-> s.tree, ok |-> s.ok]
  BY <1>1, <1>2, ExtractRecursiveIs
<1> HIDE DEF r
<1>4. CASE c.dir # <<>> /\ Head(c.dir) = Slash
  <2>1. r.tree = c.tree /\ r.ok = FALSE
    BY <1>3, <1>4
  <2> QED BY <1>4, <2>1 DEF UnpackedRight
<1>5. CASE ~(c.dir # <<>> /\ Head(c.dir) = Slash)
  <2>1. PICK s : Unpacking(c, es, Len(es), s) /\ r = [tree |-> s.tree, ok |-> s.ok]
    BY <1>3, <1>5
  <2>2. r.tree = s.tree /\ r.ok = s.ok /\ s.ok \in BOOLEAN /\ s.stopped \in BOOLEAN
    BY <2>1 DEF Unpacking, States
  <2>3. Filled(c) \subseteq Selected(c) /\ Selected(c) \subseteq UpTo(es, Len(es))
    <3>1. Selected(c) \subseteq ToSet(c.directory)
      BY DEF Selected
    <3> QED BY <1>1, <3>1, UpToAll DEF Filled
  <2>4. ASSUME s.ok = TRUE PROVE Complete(c, s.tree) \/ Unreported(c)
    <3>1. CASE s.stopped = TRUE
      BY <2>1, <2>4, <3>1 DEF Unpacking
    <3>2. CASE s.stopped = FALSE
      <4>1. Done(c, es, Len(es), s.tree)
        BY <2>1, <3>2 DEF Unpacking
      <4> QED BY <2>3, <4>1, DoneIsComplete
    <3> QED BY <2>2, <3>1, <3>2
  <2>5. Tops(c, es, Len(es)) \subseteq Placed(c)
    BY DEF Tops, Placed
  <2>6. Kept(c.tree, s.tree, Placed(c) \cup Needed(c))
    <3>1. Kept(c.tree, s.tree, Tops(c, es, Len(es)) \cup Needed(c))
      BY <2>1 DEF Unpacking
    <3>2. Tops(c, es, Len(es)) \cup Needed(c) \subseteq Placed(c) \cup Needed(c)
      BY <2>5
    <3> QED BY <3>1, <3>2, KeptMore
  <2>7. NothingFails(c) => s.ok = TRUE
    BY <2>1 DEF Unpacking
  <2> QED BY <2>2, <2>4, <2>6, <2>7 DEF UnpackedRight, Kept, NothingFails
<1> QED BY <1>4, <1>5
-----------------------------------------------------------------------------
(* Walks through a tree.                                                   *)

LEMMA WalkIs ==
    ASSUME NEW tree, IsTree(tree), NEW path, NEW w \in Walks(tree, path)
    PROVE  /\ Len(w) \in Nat /\ DOMAIN w = 1 .. Len(w) /\ w \in Seq(AllOf(tree, path))
           /\ AllOf(tree, path) = UpTo(w, Len(w))
           /\ \A i, j \in 1 .. Len(w) : w[i] = w[j] => i = j
<1> DEFINE all == AllOf(tree, path)
           N == Cardinality(all)
<1>1. IsFiniteSet(all)
  <2>1. IsFiniteSet(DOMAIN tree)
    BY DEF IsTree
  <2>2. IsFiniteSet(Under(tree, path))
    <3>1. Under(tree, path) \subseteq DOMAIN tree
      BY DEF Under
    <3> QED BY <2>1, <3>1, FS_Subset
  <2>3. IsFiniteSet(Under(tree, path) \cup {path})
    BY <2>2, FS_AddElement
  <2>4. all = Under(tree, path) \cup {path}
    BY DEF AllOf
  <2> HIDE DEF all
  <2> QED BY <2>3, <2>4
<1>2. w \in [1 .. N -> all] /\ IsWalk(w, tree, path)
  BY DEF Walks
<1>3. ToSet(w) = all
  BY <1>2 DEF IsWalk
<1> HIDE DEF all
<1>4. N \in Nat
  BY <1>1, FS_CardinalityType
<1>5. IsFiniteSet(1 .. N) /\ Cardinality(1 .. N) = N
  BY <1>4, FS_Interval
<1> HIDE DEF N
<1>6. w \in Seq(all) /\ Len(w) = N /\ DOMAIN w = 1 .. N
  BY <1>2, <1>4
<1>7. all = UpTo(w, N)
  BY <1>3, <1>6 DEF ToSet, UpTo
<1>8. w \in Surjection(1 .. N, all)
  BY <1>2, <1>7 DEF Surjection, UpTo
<1>9. w \in Injection(1 .. N, all)
  BY <1>5, <1>8, FS_Surjection DEF N
<1>10. \A i, j \in 1 .. N : w[i] = w[j] => i = j
  BY <1>6, <1>9 DEF Injection, IsInjective
<1> QED BY <1>4, <1>6, <1>7, <1>10 DEF all

\* A walk that is not stopped passes all it has, one that is stopped not all.
LEMMA PassedIs ==
    ASSUME NEW V, NEW w \in Seq(V), NEW F, F \in SUBSET (1 .. Len(w))
    PROVE  /\ F = {} => Passed(w, F) = UpTo(w, Len(w))
           /\ \E m \in Nat : m <= Len(w) /\ Passed(w, F) = UpTo(w, m)
           /\ F # {} => \E m \in 1 .. Len(w) : Passed(w, F) = UpTo(w, m - 1)
<1>1. Len(w) \in Nat
  OBVIOUS
<1>2. CASE F = {}
  <2>1. Passed(w, F) = UpTo(w, Len(w))
    BY <1>2 DEF Passed, UpTo
  <2> QED BY <1>1, <1>2, <2>1
<1>3. CASE F # {}
  <2>1. F \in SUBSET Nat
    OBVIOUS
  <2>2. Min(F) \in F
    BY <1>3, <2>1, MinIs
  <2> DEFINE m == Min(F)
  <2>3. m \in 1 .. Len(w)
    BY <2>2
  <2>4. Passed(w, F) = UpTo(w, m - 1)
    BY <1>3 DEF Passed, UpTo
  <2> HIDE DEF m
  <2>5. m - 1 \in Nat /\ m - 1 <= Len(w)
    BY <1>1, <2>3
  <2> QED BY <1>3, <2>3, <2>4, <2>5
<1> QED BY <1>2, <1>3

\* What is in a directory is under it.
LEMMA InIsUnder ==
    ASSUME Slash \in Nat, NEW tree, NEW p \in DOMAIN tree, p \in Seq(Nat), NEW d \in DirsOf(p)
    PROVE  p \in Under(tree, d)
<1>1. PICK i \in Breaks(p) : d = SubSeq(p, 1, i - 1)
  BY DEF DirsOf
<1>2. /\ i \in 2 .. Len(p) /\ d \in Seq(Nat) /\ Len(d) = i - 1
      /\ \A j \in 1 .. i - 1 : d[j] = p[j]
  BY <1>1, DirsAre
<1>3. p[i] = Slash
  BY DEF Breaks
<1> DEFINE a == Append(d, Slash)
<1>4. a \in Seq(Nat) /\ Len(a) = i
  BY <1>2
<1>5. ASSUME NEW j \in 1 .. i PROVE a[j] = p[j]
  <2>1. CASE j = i
    BY <1>2, <1>3, <2>1
  <2>2. CASE j < i
    <3>1. j \in 1 .. i - 1 /\ j \in 1 .. Len(d)
      BY <1>2, <2>2
    <3>2. a[j] = d[j]
      BY <1>2, <3>1
    <3> QED BY <1>2, <3>1, <3>2
  <2>3. j = i \/ j < i
    BY <1>2
  <2> QED BY <2>1, <2>2, <2>3
<1> HIDE DEF a
<1>6. IsPrefix(a, p)
  BY SMTT(30), <1>2, <1>4, <1>5, PrefixIs
<1> QED BY <1>6 DEF Under, a

\* What a walk has not passed has lost no directory.
LEMMA NoneLost ==
    ASSUME Slash \in Nat, NEW tree, IsTree(tree), NEW path, NEW w \in Walks(tree, path),
           NEW m \in Nat, m <= Len(w), NEW p \in DOMAIN tree, p \notin UpTo(w, m)
    PROVE  DirsOf(p) \cap UpTo(w, m) = {}
<1> SUFFICES ASSUME NEW d \in DirsOf(p), d \in UpTo(w, m) PROVE FALSE
  OBVIOUS
<1>1. PICK i \in 1 .. m : d = w[i]
  BY DEF UpTo
<1>2. Len(w) \in Nat /\ DOMAIN w = 1 .. Len(w)
  BY WalkIs
<1>3. p \in Under(tree, d)
  BY InIsUnder DEF IsTree
<1>4. i \in DOMAIN w
  BY <1>2
<1>5. Under(tree, w[i]) = {w[j] : j \in DOMAIN w \cap (i - Cardinality(Under(tree, w[i]))) .. i - 1}
  BY <1>4 DEF Walks, IsWalk
<1> DEFINE k == i - Cardinality(Under(tree, w[i]))
<1>6. p \in {w[j] : j \in DOMAIN w \cap k .. i - 1}
  BY <1>1, <1>3, <1>5
<1> HIDE DEF k
<1>7. PICK j \in DOMAIN w \cap k .. i - 1 : p = w[j]
  BY <1>6
<1>8. i - Cardinality(Under(tree, w[i])) \in Int
  <2>1. IsFiniteSet(Under(tree, w[i]))
    <3>1. Under(tree, w[i]) \subseteq DOMAIN tree /\ IsFiniteSet(DOMAIN tree)
      BY DEF Under, IsTree
    <3> QED BY <3>1, FS_Subset
  <2>2. Cardinality(Under(tree, w[i])) \in Nat
    BY <2>1, FS_CardinalityType
  <2> QED BY <2>2
<1>9. j \in 1 .. m
  BY <1>2, <1>7, <1>8 DEF k
<1> QED BY <1>7, <1>9 DEF UpTo

LEMMA UnlinkedIs ==
    ASSUME Slash \in Nat, NEW tree, IsTree(tree), NEW path, NEW w \in Walks(tree, path), NEW broken
    PROVE  LET r == DirUnlinkHierarchy(tree, path, w, broken)
               gone == DOMAIN tree \ DOMAIN r.tree
           IN  /\ gone \subseteq AllOf(tree, path) /\ r.ok = (gone = AllOf(tree, path))
               /\ \A p \in DOMAIN r.tree : DirsOf(p) \subseteq DOMAIN r.tree
<1> DEFINE r == DirUnlinkHierarchy(tree, path, w, broken)
           gone == DOMAIN tree \ DOMAIN r.tree
           all == AllOf(tree, path)
           F == {i \in DOMAIN w : [op |-> "unlink", path |-> w[i]] \in broken}
           P == Passed(w, F)
<1> SUFFICES /\ gone \subseteq all /\ r.ok = (gone = all)
             /\ \A p \in DOMAIN r.tree : DirsOf(p) \subseteq DOMAIN r.tree
  OBVIOUS
<1>1. \A p \in DOMAIN tree : DirsOf(p) \subseteq DOMAIN tree
  BY DEF IsTree
<1>2. path \in all
  BY DEF AllOf
<1>3. CASE path \notin DOMAIN tree
  <2>1. r = [tree |-> tree, ok |-> FALSE]
    BY <1>3 DEF DirUnlinkHierarchy
  <2>2. r.tree = tree /\ r.ok = FALSE
    BY <2>1
  <2> HIDE DEF r, all
  <2> QED BY <1>1, <1>2, <2>2
<1>4. CASE path \in DOMAIN tree
  <2>1. r = [tree |-> [p \in DOMAIN tree \ P |-> tree[p]], ok |-> F = {}]
    BY <1>4 DEF DirUnlinkHierarchy
  <2>2. DOMAIN r.tree = DOMAIN tree \ P /\ r.ok = (F = {})
    BY <2>1
  <2>3. /\ Len(w) \in Nat /\ DOMAIN w = 1 .. Len(w) /\ w \in Seq(all)
        /\ all = UpTo(w, Len(w))
        /\ \A i, j \in 1 .. Len(w) : w[i] = w[j] => i = j
    BY WalkIs
  <2>4. F \in SUBSET (1 .. Len(w))
    BY <2>3
  <2>5. all \subseteq DOMAIN tree
    BY <1>4 DEF AllOf, Under
  <2> HIDE DEF r, F, P, all
  <2>6. /\ F = {} => P = all
        /\ \E m \in Nat : m <= Len(w) /\ P = UpTo(w, m)
        /\ F # {} => \E m \in 1 .. Len(w) : P = UpTo(w, m - 1)
    BY <2>3, <2>4, PassedIs DEF P
  <2>7. PICK m \in Nat : m <= Len(w) /\ P = UpTo(w, m)
    BY <2>6
  <2>8. P \subseteq all
    BY <2>3, <2>7 DEF UpTo
  <2>9. gone = P
    BY <2>2, <2>5, <2>8
  <2>10. F # {} => P # all
    <3> SUFFICES ASSUME F # {} PROVE P # all
      OBVIOUS
    <3>1. PICK k \in 1 .. Len(w) : P = UpTo(w, k - 1)
      BY <2>6
    <3>2. w[k] \notin P
      <4> SUFFICES ASSUME NEW i \in 1 .. k - 1, w[i] = w[k] PROVE FALSE
        BY <3>1 DEF UpTo
      <4>1. i \in 1 .. Len(w) /\ i # k
        BY <2>3
      <4> QED BY <2>3, <4>1
    <3> QED BY <2>3, <3>2 DEF UpTo
  <2>11. ASSUME NEW p \in DOMAIN r.tree PROVE DirsOf(p) \subseteq DOMAIN r.tree
    <3>1. p \in DOMAIN tree /\ p \notin P
      BY <2>2, <2>11
    <3>2. DirsOf(p) \cap P = {}
      BY <2>7, <3>1, NoneLost
    <3> QED BY <1>1, <2>2, <3>1, <3>2
  <2> QED BY <2>2, <2>6, <2>8, <2>9, <2>10, <2>11
<1> QED BY <1>3, <1>4

LEMMA OwnedIs ==
    ASSUME NEW tree, IsTree(tree), NEW path, NEW w \in Walks(tree, path), NEW broken,
           DirSetHierarchyPermissions(tree, path, Reverse(w), broken).ok
    PROVE  DirSetHierarchyPermissions(tree, path, Reverse(w), broken).set
              = {p \in AllOf(tree, path) : tree[p].kind # "link"}
<1> DEFINE r == DirSetHierarchyPermissions(tree, path, Reverse(w), broken)
           all == AllOf(tree, path)
           v == Reverse(w)
           F == {i \in DOMAIN v : tree[v[i]].kind # "link" /\ [op |-> "chown", path |-> v[i]] \in broken}
<1> SUFFICES r.set = {p \in all : tree[p].kind # "link"}
  OBVIOUS
<1>1. r = IF path \notin DOMAIN tree THEN [set |-> {}, ok |-> FALSE]
          ELSE [set |-> {p \in Passed(v, F) : tree[p].kind # "link"}, ok |-> F = {}]
  BY DEF DirSetHierarchyPermissions
<1>2. r.ok
  OBVIOUS
<1>3. /\ Len(w) \in Nat /\ DOMAIN w = 1 .. Len(w) /\ w \in Seq(all)
      /\ all = UpTo(w, Len(w))
  BY WalkIs
<1> HIDE DEF r, F, all
<1>4. F = {} /\ r.set = {p \in Passed(v, F) : tree[p].kind # "link"}
  BY <1>1, <1>2
<1>5. v = [i \in 1 .. Len(w) |-> w[(Len(w) - i) + 1]]
  BY DEF Reverse
<1> HIDE DEF v
<1>6. \A i \in 1 .. Len(w) : (Len(w) - i) + 1 \in 1 .. Len(w) /\ v[i] = w[(Len(w) - i) + 1]
  BY <1>3, <1>5
<1>7. v \in Seq(all) /\ Len(v) = Len(w)
  <2>1. v \in [1 .. Len(w) -> all]
    BY <1>3, <1>5, <1>6
  <2> QED BY <1>3, <2>1
<1>8. Passed(v, F) = UpTo(v, Len(v))
  BY <1>4, <1>7, PassedIs
<1>9. UpTo(v, Len(v)) = all
  <2>1. \A i \in 1 .. Len(w) : w[i] = v[(Len(w) - i) + 1]
    <3> SUFFICES ASSUME NEW i \in 1 .. Len(w) PROVE w[i] = v[(Len(w) - i) + 1]
      OBVIOUS
    <3>1. (Len(w) - i) + 1 \in 1 .. Len(w) /\ (Len(w) - ((Len(w) - i) + 1)) + 1 = i
      BY <1>3
    <3> QED BY <1>6, <3>1
  <2> QED BY <1>3, <1>6, <1>7, <2>1 DEF UpTo
<1> QED BY <1>4, <1>8, <1>9
-----------------------------------------------------------------------------
(* The answers of the library about archives are right, whatever the       *)
(* archive, the directory that is wanted, the tree it is unpacked into and *)
(* the calls that fail.                                                    *)

ArchiveRight ==
    /\ job \in UnzipJobs \cup WalkJobs
    /\ ArchiveUnpacks

LEMMA UnzipRight ==
    ASSUME ArchiveRight, Unzip
    PROVE  ArchiveRight'
<1> DEFINE archive == ParseZipArchive(job.directory)
           end == mzExtractRecursive(archive, job.dir, job.tree, job.flags, job.broken)
<1>1. job' = job /\ job \in UnzipJobs
  BY ArchiveAssumption DEF ArchiveRight, Unzip
<1>2. IsUnzip(job) /\ Slash \in Nat /\ HashRange \in Nat \ {0} /\ Names \subseteq Seq(Nat)
  BY <1>1, ArchiveAssumption DEF IsUnzip
<1>3. CASE ~archive.opened
  <2>1. out' = [kind |-> "refused"]
    BY <1>3 DEF Unzip
  <2>2. out'.kind = "refused"
    BY <2>1
  <2> QED BY <1>1, <2>2 DEF ArchiveRight, ArchiveUnpacks
<1>4. CASE archive.opened
  <2>1. out' = [kind |-> "unzipped", archive |-> archive, end |-> end]
    BY <1>4 DEF Unzip
  <2>2. OpenedRight(job.directory, archive)
    BY <1>2, <1>4, Opened DEF IsUnzip
  <2>3. archive.entries = Sorted(job.directory)
    BY <1>4 DEF ParseZipArchive, NotOpened
  <2> HIDE DEF archive
  <2>4. UnpackedRight(job, end)
    BY <1>2, <2>3, Unpacked
  <2> HIDE DEF end
  <2>5. out'.kind = "unzipped" /\ out'.archive = archive /\ out'.end = end
    BY <2>1
  <2> QED BY <1>1, <2>2, <2>4, <2>5 DEF ArchiveRight, ArchiveUnpacks
<1> QED BY <1>3, <1>4

LEMMA WalkTreeRight ==
    ASSUME ArchiveRight, WalkTree
    PROVE  ArchiveRight'
<1>1. job' = job /\ job \in WalkJobs
  BY ArchiveAssumption DEF ArchiveRight, WalkTree
<1>2. IsTree(job.tree) /\ Slash \in Nat
  BY <1>1, ArchiveAssumption
<1>3. PICK w \in Walks(job.tree, job.path) :
         out' = [kind |-> "walked",
                 unlinked |-> DirUnlinkHierarchy(job.tree, job.path, w, job.broken),
                 owned |-> DirSetHierarchyPermissions(job.tree, job.path, Reverse(w), job.broken)]
  BY DEF WalkTree
<1> DEFINE unlinked == DirUnlinkHierarchy(job.tree, job.path, w, job.broken)
           owned == DirSetHierarchyPermissions(job.tree, job.path, Reverse(w), job.broken)
<1>4. LET gone == DOMAIN job.tree \ DOMAIN unlinked.tree
      IN  /\ gone \subseteq AllOf(job.tree, job.path) /\ unlinked.ok = (gone = AllOf(job.tree, job.path))
          /\ \A p \in DOMAIN unlinked.tree : DirsOf(p) \subseteq DOMAIN unlinked.tree
  BY <1>2, UnlinkedIs
<1>5. owned.ok => owned.set = {p \in AllOf(job.tree, job.path) : job.tree[p].kind # "link"}
  BY <1>2, OwnedIs
<1>6. out'.kind = "walked" /\ out'.unlinked = unlinked /\ out'.owned = owned
  BY <1>3
<1> HIDE DEF unlinked, owned
<1>7. WalkedRight(job, unlinked, owned)
  BY <1>4, <1>5 DEF WalkedRight
<1> QED BY <1>1, <1>6, <1>7 DEF ArchiveRight, ArchiveUnpacks

THEOREM ArchivesUnpack == ArchiveSpec => []ArchiveUnpacks
<1>1. ASSUME job \in UnzipJobs \cup WalkJobs, out = NoAnswer PROVE ArchiveRight
  BY <1>1 DEF ArchiveRight, ArchiveUnpacks, NoAnswer
<1>2. ArchiveRight /\ [Unzip \/ WalkTree]_<<job, out>> => ArchiveRight'
  <2>1. ASSUME ArchiveRight, UNCHANGED <<job, out>> PROVE ArchiveRight'
    BY <2>1 DEF ArchiveRight, ArchiveUnpacks
  <2> QED BY <2>1, UnzipRight, WalkTreeRight
<1>3. ArchiveRight => ArchiveUnpacks
  BY DEF ArchiveRight
<1> QED BY <1>1, <1>2, <1>3, PTL DEF ArchiveSpec
=============================================================================
