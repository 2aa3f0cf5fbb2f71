------------------------------ MODULE HashTable ------------------------------
(* The open-addressing table of minzip/Hash.c.  A slot is empty, a         *)
(* tombstone, or an item with its hash value; items are pointers, so an    *)
(* item is removed by identity and looked up by a comparison function.     *)
EXTENDS Integers, FiniteSets, FiniteSetsExt

Empty == [kind |-> "empty"]
Tombstone == [kind |-> "tombstone"]
Slot(item, hash) == [kind |-> "item", item |-> item, hash |-> hash]

LoadNumer == 5
LoadDenom == 8

mzHashSize(n) == (n * LoadDenom) \div LoadNumer + 1

PowerOf2[e \in Nat] == IF e = 0 THEN 1 ELSE 2 * PowerOf2[e - 1]

\* The next power of two that is not below n.
RoundUpPower2(n) == Min({PowerOf2[e] : e \in 0 .. n} \cap n .. 2 * n)

mzHashTableCreate(initialSize) ==
    LET size == RoundUpPower2(initialSize)
    IN  [size |-> size, live |-> 0, dead |-> 0, slots |-> [i \in 0 .. size - 1 |-> Empty]]

mzHashTableClear(t) ==
    [t EXCEPT !.slots = [i \in DOMAIN t.slots |-> Empty], !.live = 0, !.dead = 0]

Tombstones(t) == {i \in DOMAIN t.slots : t.slots[i] = Tombstone}
Items(t) == {i \in DOMAIN t.slots : t.slots[i].kind = "item"}
Held(t) == {t.slots[i].item : i \in Items(t)}
-----------------------------------------------------------------------------
(* Probing                                                                 *)

\* The probe ran round the whole table; a table of one slot stops there, any
\* other never does.
Never == -1

\* The first slot from the home of hash where the probe stops: an empty one or
\* one that holds what is looked for.
Probe(slots, size, hash, wanted) ==
    LET At(d) == (hash + d) % size
        stops == {d \in 0 .. size - 1 : slots[At(d)] \in {Empty} \cup wanted}
    IN  IF stops # {} THEN At(Min(stops)) ELSE IF size = 1 THEN 0 ELSE Never

\* The new slots are filled in the order of the old ones: Moved[n] when n of
\* them have been looked at.
ResizeHash(t, newSize) ==
    LET Put(slots, s) ==
            [slots EXCEPT ![Probe(slots, newSize, s.hash, {})] = s]
        Moved[n \in Nat] ==
            IF n = 0 THEN [j \in 0 .. newSize - 1 |-> Empty]
            ELSE IF n - 1 \in Items(t) THEN Put(Moved[n - 1], t.slots[n - 1]) ELSE Moved[n - 1]
    IN  [t EXCEPT !.size = newSize, !.dead = 0, !.slots = Moved[t.size]]

TooFull(t) == (t.live + t.dead) * LoadDenom > t.size * LoadNumer

\* An answer without an item: NULL.
Nothing == [kind |-> "nothing"]

\* The item found (or added), and the table after the call.  same are the items
\* that the comparison function takes for this one.
mzHashTableLookup(t, hash, item, same, doAdd) ==
    LET at == Probe(t.slots, t.size, hash, {Slot(i, hash) : i \in same})
        added == [t EXCEPT !.slots[at] = Slot(item, hash), !.live = @ + 1]
    IN  IF at = Never THEN [table |-> t, result |-> [kind |-> "never"]]
        ELSE IF t.slots[at] # Empty THEN [table |-> t, result |-> t.slots[at]]
        ELSE IF ~doAdd THEN [table |-> t, result |-> Nothing]
        ELSE [table |-> IF TooFull(added) THEN ResizeHash(added, 2 * t.size) ELSE added,
              result |-> Slot(item, hash)]

Holding(t, item) == {t.slots[i] : i \in {j \in Items(t) : t.slots[j].item = item}}

\* A removal that leaves an empty slot, so that later probes stop early.
RemovedForGood(t, hash, item) ==
    LET at == Probe(t.slots, t.size, hash, Holding(t, item))
    IN  IF at # Never /\ t.slots[at].kind = "item"
        THEN [t EXCEPT !.slots[at] = Empty, !.live = @ - 1] ELSE t

mzHashTableRemove(t, hash, item) ==
    LET at == Probe(t.slots, t.size, hash, Holding(t, item))
    IN  IF at # Never /\ t.slots[at].kind = "item"
        THEN [t EXCEPT !.slots[at] = Tombstone, !.live = @ - 1, !.dead = @ + 1]
        ELSE t

\* mzHashForeach and mzHashTableProbeCount: the items in the order of the
\* slots, up to the first on which the callback stops, and the steps to find one
\* again.
Visited(t, stops) ==
    LET stopAt == {i \in Items(t) : t.slots[i].item \in stops}
    IN  {i \in Items(t) : stopAt = {} \/ i <= Min(stopAt)}

CountProbes(t, hash, same) ==
    LET at == Probe(t.slots, t.size, hash, {Slot(i, hash) : i \in same})
    IN  IF at = Never \/ t.slots[at].kind # "item" THEN -1 ELSE (at - hash) % t.size
=============================================================================
