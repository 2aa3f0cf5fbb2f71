----------------------------- MODULE TableCalls -----------------------------
(* The hash table of minzip under any sequence of calls, beside the set it *)
(* stands for.  A key is an item together with its hash value; the caller's *)
(* comparison function takes items of the same name for the same.          *)
EXTENDS HashTable

CONSTANTS Keys,    \* the items a caller may add
          Sizes,   \* the initial sizes a caller may ask for
          MaxTable \* the size up to which items are added

ASSUME KeysAssumption ==
    /\ Keys \subseteq [name : {k.name : k \in Keys}, hash : Nat]
    /\ Sizes \subseteq Nat \ {0}
    /\ MaxTable \in Nat

VARIABLES table, held
tableVars == <<table, held>>

Same(t, k) == {i \in Held(t) : i.name = k.name}

TableInit == /\ \E n \in Sizes : table = mzHashTableCreate(n)
             /\ held = {}

AddItem ==
    /\ table.size < MaxTable
    /\ \E k \in Keys \ held :
          LET r == mzHashTableLookup(table, k.hash, k, Same(table, k), TRUE)
          IN  /\ table' = r.table
              /\ held' = IF r.result = Slot(k, k.hash) THEN held \cup {k} ELSE held

RemoveItem ==
    \E k \in Keys :
        /\ table' = mzHashTableRemove(table, k.hash, k)
        /\ held' = held \ {k}

ClearTable == /\ held # {}
              /\ table' = mzHashTableClear(table)
              /\ held' = {}

TableNext == AddItem \/ RemoveItem \/ ClearTable

TableSpec == TableInit /\ [][TableNext]_tableVars
-----------------------------------------------------------------------------
\* After any calls the table answers as the set of what was added and not
\* removed: every such item is found, no other is, every probe ends, and the
\* counts that decide on the growth are right.
TableIsTheSet ==
    /\ \A k \in Keys :
          LET r == mzHashTableLookup(table, k.hash, k, Same(table, k), FALSE).result
          IN  IF k \notin held THEN r = Nothing
              ELSE /\ r = Slot(k, k.hash)
                   /\ CountProbes(table, k.hash, Same(table, k)) >= 0
    /\ {table.slots[i].item : i \in Visited(table, {})} = held
    /\ table.live = Cardinality(held) /\ table.dead = Cardinality(Tombstones(table))
    /\ table.live + table.dead < table.size
=============================================================================
