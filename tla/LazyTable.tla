------------------------------- MODULE LazyTable -------------------------------
(* The perfect hash table that a crate's cache keeps its items and its impls in *)
(* (lazy_collections.rs): how write chooses a seed for every bucket, and how    *)
(* get uses them.  The hash function is any function of seed and key.           *)
EXTENDS Integers, FiniteSets

CONSTANTS
  Keys,       \* what items are looked up by
  NoKey,      \* the key of an item that cannot be looked up
  Tables,     \* contents to write: functions from 0 .. n - 1 to a key or NoKey
  Hashes,     \* hash functions: [MinSeed .. 0 -> [Keys -> Nat]]
  MinSeed,    \* bound: the last seed that is tried
  Invalid     \* i32::MAX

Seeds == MinSeed .. 0

ASSUME LazyTableAssumption ==
  /\ NoKey \notin Keys
  /\ MinSeed \in Int /\ MinSeed < 0 /\ Invalid \in Nat
  /\ \A t \in Tables : \E n \in 1 .. Invalid : t \in [0 .. n - 1 -> Keys \cup {NoKey}]
  /\ \A h \in Hashes : h \in [Seeds -> [Keys -> Nat]]

VARIABLES
  items,    \* the key of every item of the array
  hash,     \* the hash function
  table1,   \* indices of items, or seeds
  table2,   \* indices of the items whose bucket has a seed
  todo,     \* buckets still to be placed
  seed      \* the seed that is tried next

vars == <<items, hash, table1, table2, todo, seed>>

--------------------------------------------------------------------------------

Keyed == {i \in DOMAIN items : items[i] # NoKey}
TableSize == Cardinality(Keyed)
Slots == 0 .. TableSize - 1

(* get_hasher, reduced modulo the size of the table. *)
HashIndex(s, key) == hash[s][key] % TableSize

Bucket(b) == {i \in Keyed : HashIndex(0, items[i]) = b}

(* Most full first; the sort is stable. *)
IsNext(b) ==
  /\ b \in todo
  /\ \A c \in todo :
       LET m == Cardinality(Bucket(b))
           n == Cardinality(Bucket(c))
       IN  m > n \/ (m = n /\ b <= c)

Init ==
  /\ items \in Tables /\ hash \in Hashes
  /\ table1 = [b \in Slots |-> Invalid] /\ table2 = [b \in Slots |-> Invalid]
  /\ todo = Slots
  /\ seed = -1

PlaceNothing(b) ==
  /\ Bucket(b) = {}
  /\ UNCHANGED table1

PlaceSingle(b) ==
  \E i \in Keyed : Bucket(b) = {i} /\ table1' = [table1 EXCEPT ![b] = i]

PlaceWithoutSeed(b) ==
  /\ IsNext(b)
  /\ PlaceNothing(b) \/ PlaceSingle(b)
  /\ todo' = todo \ {b}
  /\ UNCHANGED <<items, hash, table2, seed>>

Collide(b) == \A i \in Keyed : Bucket(b) # {i}

(* Mutant: only the slots taken by other buckets are avoided. *)
FitsBesideOthers(b) ==
  \A i \in Bucket(b) : table2[HashIndex(seed, items[i])] = Invalid

(* Every key of the bucket has a free slot of its own. *)
Fits(b) ==
  \A i \in Bucket(b) :
    /\ table2[HashIndex(seed, items[i])] = Invalid
    /\ \A j \in Bucket(b) \ {i} : HashIndex(seed, items[j]) # HashIndex(seed, items[i])

PlaceWithSeed(b) ==
  /\ IsNext(b) /\ Bucket(b) # {} /\ Collide(b) /\ seed \in Seeds /\ Fits(b)
  /\ table2' = [x \in Slots |-> IF \E i \in Bucket(b) : HashIndex(seed, items[i]) = x
                                THEN CHOOSE i \in Bucket(b) : HashIndex(seed, items[i]) = x
                                ELSE table2[x]]
  /\ table1' = [table1 EXCEPT ![b] = seed]
  /\ todo' = todo \ {b}
  /\ seed' = -1
  /\ UNCHANGED <<items, hash>>

SkipSeed(b) ==
  /\ IsNext(b) /\ Bucket(b) # {} /\ Collide(b) /\ seed \in Seeds /\ ~Fits(b)
  /\ seed' = seed - 1
  /\ UNCHANGED <<items, hash, table1, table2, todo>>

Write == \E b \in todo : PlaceWithoutSeed(b) \/ PlaceWithSeed(b) \/ SkipSeed(b)

Spec == Init /\ [][Write]_vars

--------------------------------------------------------------------------------

NotFound == -1
Panics == -2

(* LazyTable::get: the index of the item, whose key is compared in the end.  An *)
(* empty table panics: the hash is taken modulo zero.                           *)
Get(key) ==
  IF TableSize = 0 THEN Panics ELSE
  LET first == table1[HashIndex(0, key)]
      final == IF first >= 0 THEN first ELSE table2[HashIndex(first, key)]
  IN  IF final = Invalid \/ items[final] # key THEN NotFound ELSE final

(* A table that has been written and is not empty answers every key with its    *)
(* own item and any other with nothing, however keys hash and buckets collide.  *)
GetFindsItsKey ==
  todo = {} /\ TableSize > 0 =>
    /\ \A i \in Keyed : Get(items[i]) = i
    /\ \A key \in Keys : (\A i \in Keyed : items[i] # key) => Get(key) = NotFound
================================================================================
