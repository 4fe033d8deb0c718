---------------------------- MODULE LazyTableProofs ----------------------------
(* Proof that the hash table of a cache finds its keys, for every content, hash *)
(* function and number of seeds tried.  The inductive invariant says of every   *)
(* bucket that has been placed how its items are reached; it survives because   *)
(* only free slots of the second table are ever written.                        *)
EXTENDS LazyTable, FiniteSetTheorems, TLAPS

(* How get reaches the items of bucket b. *)
Placed(b) ==
  \/ Bucket(b) = {} /\ table1[b] = Invalid
  \/ \E i \in Keyed : Bucket(b) = {i} /\ table1[b] = i
  \/ /\ table1[b] \in MinSeed .. -1
     /\ \A i \in Bucket(b) : table2[HashIndex(table1[b], items[i])] = i

TableTypes ==
  /\ items \in Tables /\ hash \in Hashes
  /\ table1 \in [Slots -> Int]
  /\ table2 \in [Slots -> Int]
  /\ todo \subseteq Slots
  /\ seed \in Int /\ seed < 0

TableInv ==
  /\ TableTypes
  /\ \A b \in todo : table1[b] = Invalid
  /\ \A x \in Slots : table2[x] = Invalid \/ table2[x] \in Keyed
  /\ \A b \in Slots \ todo : Placed(b)

--------------------------------------------------------------------------------

(* Indices are numbers below Invalid, and the table is as large as it has keys. *)
LEMMA Contents ==
  ASSUME items \in Tables
  PROVE  /\ TableSize \in Nat
         /\ Keyed \subseteq Nat
         /\ \A i \in Keyed : i < Invalid /\ items[i] \in Keys
         /\ Keyed # {} => TableSize > 0
<1>1. PICK n \in 1 .. Invalid : items \in [0 .. n - 1 -> Keys \cup {NoKey}]
  BY LazyTableAssumption
<1>2. DOMAIN items = 0 .. n - 1
  BY <1>1
<1>3. Invalid \in Nat /\ n \in Nat
  BY LazyTableAssumption
<1>4. Keyed \subseteq 0 .. n - 1
  BY <1>2 DEF Keyed
<1>5. IsFiniteSet(0 .. n - 1)
  BY <1>3, FS_Interval
<1>6. IsFiniteSet(Keyed)
  BY <1>4, <1>5, FS_Subset
<1>7. TableSize \in Nat
  BY <1>6, FS_CardinalityType DEF TableSize
<1>8. Keyed # {} => TableSize > 0
  BY <1>6, <1>7, FS_EmptySet DEF TableSize
<1>9. \A i \in Keyed : i < Invalid /\ items[i] \in Keys
  <2>1. \A i \in Keyed : i \in 0 .. n - 1 /\ items[i] # NoKey
    BY <1>4 DEF Keyed
  <2>2. QED
    BY <1>1, <1>3, <2>1
<1>10. QED
  BY <1>3, <1>4, <1>7, <1>8, <1>9

(* A hash of a key is a slot of the table, if there is one. *)
LEMMA HashInTable ==
  ASSUME items \in Tables, hash \in Hashes, TableSize > 0,
         NEW s \in Seeds, NEW key \in Keys
  PROVE  HashIndex(s, key) \in Slots
<1>1. TableSize \in Nat
  BY Contents
<1>2. hash[s][key] \in Nat
  BY LazyTableAssumption
<1>3. QED
  BY <1>1, <1>2 DEF HashIndex, Slots

(* Buckets hold items with keys, each in the bucket of its hash. *)
LEMMA BucketsHoldItems ==
  ASSUME items \in Tables, NEW b
  PROVE  Bucket(b) \subseteq Keyed
BY DEF Bucket

LEMMA SeedsAreSeeds ==
  /\ 0 \in Seeds
  /\ \A s \in MinSeed .. -1 : s \in Seeds /\ s < 0 /\ s \in Int
BY LazyTableAssumption DEF Seeds

--------------------------------------------------------------------------------

LEMMA InitEstablishes == Init => TableInv
<1> SUFFICES ASSUME Init PROVE TableInv
  OBVIOUS
<1>1. Invalid \in Int
  BY LazyTableAssumption
<1>2. QED
  BY <1>1 DEF Init, TableInv, TableTypes

(* What a step that changes neither contents nor hash leaves as it was. *)
LEMMA SameBuckets ==
  ASSUME UNCHANGED <<items, hash>>
  PROVE  /\ Keyed' = Keyed /\ TableSize' = TableSize /\ Slots' = Slots
         /\ \A b : Bucket(b)' = Bucket(b)
         /\ \A s, key : HashIndex(s, key)' = HashIndex(s, key)
<1>1. Keyed' = Keyed
  BY DEF Keyed
<1>2. TableSize' = TableSize
  BY <1>1 DEF TableSize
<1>3. Slots' = Slots
  BY <1>2 DEF Slots
<1>4. ASSUME NEW s, NEW key PROVE HashIndex(s, key)' = HashIndex(s, key)
  BY <1>2 DEF HashIndex
<1>5. ASSUME NEW b PROVE Bucket(b)' = Bucket(b)
  BY <1>1, <1>2 DEF Bucket, HashIndex
<1>6. QED
  BY <1>1, <1>2, <1>3, <1>4, <1>5

LEMMA WithoutSeed ==
  ASSUME TableInv, NEW b \in todo, PlaceWithoutSeed(b)
  PROVE  TableInv'
<1>1. UNCHANGED <<items, hash>> /\ UNCHANGED <<table2, seed>> /\ todo' = todo \ {b}
  BY DEF PlaceWithoutSeed
<1> USE SameBuckets, <1>1
<1>2. b \in Slots /\ todo \subseteq Slots
  BY DEF TableInv, TableTypes
<1>3. \/ Bucket(b) = {} /\ table1' = table1
      \/ \E i \in Keyed : Bucket(b) = {i} /\ table1' = [table1 EXCEPT ![b] = i]
  BY DEF PlaceWithoutSeed, PlaceNothing, PlaceSingle
<1>4. Keyed \subseteq Nat
  BY Contents DEF TableInv, TableTypes
<1>5. table1' \in [Slots -> Int] /\ \A c \in Slots : c # b => table1'[c] = table1[c]
  BY <1>2, <1>3, <1>4 DEF TableInv, TableTypes
<1>6. TableTypes'
  BY <1>5 DEF TableInv, TableTypes
<1>7. (\A c \in todo : table1[c] = Invalid)'
  BY <1>2, <1>5 DEF TableInv
<1>8. (\A x \in Slots : table2[x] = Invalid \/ table2[x] \in Keyed)'
  BY DEF TableInv
<1>9. Placed(b)'
  BY <1>2, <1>3 DEF Placed, TableInv, TableTypes
<1>10. ASSUME NEW c \in Slots \ todo PROVE Placed(c)'
  <2>1. Placed(c) /\ c # b /\ table1'[c] = table1[c]
    BY <1>5 DEF TableInv
  <2>2. QED
    BY <2>1 DEF Placed
<1>11. (\A c \in Slots \ todo : Placed(c))'
  BY <1>2, <1>9, <1>10
<1>12. QED
  BY <1>6, <1>7, <1>8, <1>11 DEF TableInv

LEMMA WithSeed ==
  ASSUME TableInv, NEW b \in todo, PlaceWithSeed(b)
  PROVE  TableInv'
<1>1. UNCHANGED <<items, hash>> /\ todo' = todo \ {b} /\ seed' = -1
      /\ seed \in MinSeed .. -1 /\ Fits(b) /\ table1' = [table1 EXCEPT ![b] = seed]
  BY DEF PlaceWithSeed, TableInv, TableTypes, Seeds
<1> USE SameBuckets
<1>2. b \in Slots /\ todo \subseteq Slots /\ items \in Tables /\ hash \in Hashes
  BY DEF TableInv, TableTypes
<1>3. /\ Keyed \subseteq Nat /\ TableSize \in Nat
      /\ \A i \in Keyed : i < Invalid /\ items[i] \in Keys
  BY <1>2, Contents
<1>4. TableSize > 0
  BY <1>2, <1>3 DEF Slots
<1>5. Bucket(b) \subseteq Keyed
  BY <1>2, BucketsHoldItems
<1>6. seed \in Seeds
  BY <1>1, SeedsAreSeeds
<1> DEFINE At(x) == \E i \in Bucket(b) : HashIndex(seed, items[i]) = x
<1> DEFINE Of(x) == CHOOSE i \in Bucket(b) : HashIndex(seed, items[i]) = x
<1>7. table2' = [x \in Slots |-> IF At(x) THEN Of(x) ELSE table2[x]]
  BY DEF PlaceWithSeed
<1>8. ASSUME NEW x, At(x) PROVE Of(x) \in Bucket(b)
  BY <1>8
<1>9. ASSUME NEW x \in Slots, At(x) PROVE table2[x] = Invalid
  BY <1>1, <1>9 DEF Fits
<1>10. ASSUME NEW i \in Bucket(b)
       PROVE  /\ HashIndex(seed, items[i]) \in Slots
              /\ At(HashIndex(seed, items[i])) /\ Of(HashIndex(seed, items[i])) = i
  <2>1. HashIndex(seed, items[i]) \in Slots
    BY <1>2, <1>3, <1>4, <1>5, <1>6, HashInTable
  <2>2. \A j \in Bucket(b) : HashIndex(seed, items[j]) = HashIndex(seed, items[i]) => j = i
    BY <1>1 DEF Fits
  <2>3. QED
    BY <2>1, <2>2
<1> HIDE DEF At, Of
<1>11. \A x \in Slots : table2'[x] = IF At(x) THEN Of(x) ELSE table2[x]
  BY <1>7
<1>12. table1' \in [Slots -> Int] /\ table1'[b] = seed /\ \A c \in Slots : c # b => table1'[c] = table1[c]
  BY <1>1, <1>2 DEF TableInv, TableTypes
<1>13. \A x \in Slots : table2'[x] \in Int /\ (table2'[x] = Invalid \/ table2'[x] \in Keyed)
  <2>1. ASSUME NEW x \in Slots, At(x) PROVE table2'[x] \in Keyed
    BY <1>5, <1>8, <1>11, <2>1
  <2>2. ASSUME NEW x \in Slots, ~At(x) PROVE table2'[x] = table2[x]
    BY <1>11, <2>2
  <2>3. \A x \in Slots : table2[x] \in Int /\ (table2[x] = Invalid \/ table2[x] \in Keyed)
    BY DEF TableInv, TableTypes
  <2>4. Keyed \subseteq Int
    BY <1>3
  <2>5. QED
    BY <2>1, <2>2, <2>3, <2>4
<1>14. TableTypes'
  <2>1. table2' \in [Slots -> Int]
    BY <1>7, <1>11, <1>13
  <2>2. QED
    BY <1>1, <1>2, <1>12, <2>1 DEF TableTypes
<1>15. (\A c \in todo : table1[c] = Invalid)'
  BY <1>1, <1>2, <1>12 DEF TableInv
<1>16. (\A x \in Slots : table2[x] = Invalid \/ table2[x] \in Keyed)'
  BY <1>1, <1>13
<1>17. Placed(b)'
  <2>1. \A i \in Bucket(b) : table2'[HashIndex(seed, items[i])] = i
    BY <1>10, <1>11
  <2>2. QED
    BY <1>1, <1>12, <2>1 DEF Placed
<1>18. ASSUME NEW c \in Slots \ todo PROVE Placed(c)'
  <2>1. Placed(c) /\ c # b /\ table1'[c] = table1[c]
    BY <1>12 DEF TableInv
  <2>2. CASE table1[c] \in MinSeed .. -1
    <3>1. \A i \in Bucket(c) : table2[HashIndex(table1[c], items[i])] = i
      <4>1. Invalid \in Nat
        BY LazyTableAssumption
      <4>2. QED
        BY <1>3, <2>1, <2>2, <4>1 DEF Placed
    <3>2. ASSUME NEW i \in Bucket(c) PROVE table2'[HashIndex(table1[c], items[i])] = i
      <4>1. i \in Keyed
        BY <1>2, BucketsHoldItems
      <4>2. i # Invalid
        BY <1>3, <4>1, LazyTableAssumption
      <4>3. HashIndex(table1[c], items[i]) \in Slots
        BY <1>2, <1>3, <1>4, <2>2, <4>1, HashInTable, SeedsAreSeeds
      <4>4. ~At(HashIndex(table1[c], items[i]))
        BY <1>9, <3>1, <4>2, <4>3
      <4>5. QED
        BY <1>11, <3>1, <4>3, <4>4
    <3>3. QED
      BY <1>1, <2>1, <2>2, <3>2 DEF Placed
  <2>3. CASE table1[c] \notin MinSeed .. -1
    BY <1>1, <2>1, <2>3 DEF Placed
  <2>4. QED
    BY <2>2, <2>3
<1>19. (\A c \in Slots \ todo : Placed(c))'
  BY <1>1, <1>2, <1>17, <1>18
<1>20. QED
  BY <1>14, <1>15, <1>16, <1>19 DEF TableInv

LEMMA Skip ==
  ASSUME TableInv, NEW b \in todo, SkipSeed(b)
  PROVE  TableInv'
<1>1. UNCHANGED <<items, hash>> /\ UNCHANGED <<table1, table2, todo>> /\ seed' = seed - 1
  BY DEF SkipSeed
<1>2. TableTypes'
  BY <1>1, SameBuckets DEF TableInv, TableTypes
<1>3. \A c : Placed(c)' <=> Placed(c)
  BY <1>1, SameBuckets DEF Placed
<1>4. QED
  BY <1>1, <1>2, <1>3, SameBuckets DEF TableInv

LEMMA StepPreserves == TableInv /\ [Write]_vars => TableInv'
<1> SUFFICES ASSUME TableInv, [Write]_vars PROVE TableInv'
  OBVIOUS
<1>1. ASSUME NEW b \in todo, PlaceWithoutSeed(b) PROVE TableInv'
  BY <1>1, WithoutSeed
<1>2. ASSUME NEW b \in todo, PlaceWithSeed(b) PROVE TableInv'
  BY <1>2, WithSeed
<1>3. ASSUME NEW b \in todo, SkipSeed(b) PROVE TableInv'
  BY <1>3, Skip
<1>4. CASE UNCHANGED vars
  <2>1. UNCHANGED <<items, hash>> /\ UNCHANGED <<table1, table2, todo, seed>>
    BY <1>4 DEF vars
  <2>2. \A c : Placed(c)' <=> Placed(c)
    BY <2>1, SameBuckets DEF Placed
  <2>3. QED
    BY <2>1, <2>2, SameBuckets DEF TableInv, TableTypes
<1>5. QED
  BY <1>1, <1>2, <1>3, <1>4 DEF Write

--------------------------------------------------------------------------------

(* The invariant gives the answers of a finished table. *)
LEMMA InvariantAnswers == TableInv => GetFindsItsKey
<1> SUFFICES ASSUME TableInv, todo = {}, TableSize > 0 PROVE
      /\ \A i \in Keyed : Get(items[i]) = i
      /\ \A key \in Keys : (\A i \in Keyed : items[i] # key) => Get(key) = NotFound
  BY DEF GetFindsItsKey
<1>1. items \in Tables /\ hash \in Hashes /\ \A b \in Slots : Placed(b)
  BY DEF TableInv, TableTypes
<1>2. /\ Keyed \subseteq Nat /\ TableSize \in Nat
      /\ \A i \in Keyed : i < Invalid /\ items[i] \in Keys
      /\ Keyed # {} => TableSize > 0
  BY <1>1, Contents
<1>3. Invalid \in Nat
  BY LazyTableAssumption
<1>4. ASSUME NEW i \in Keyed PROVE Get(items[i]) = i
  <2> DEFINE b == HashIndex(0, items[i])
  <2>1. b \in Slots /\ i \in Bucket(b)
    BY <1>1, <1>2, HashInTable, SeedsAreSeeds DEF Bucket
  <2>2. i \in Nat /\ i < Invalid
    BY <1>2
  <2>3. CASE table1[b] = i
    BY <1>2, <1>3, <2>2, <2>3 DEF Get
  <2>4. CASE table1[b] \in MinSeed .. -1 /\ table2[HashIndex(table1[b], items[i])] = i
    BY <1>2, <1>3, <2>2, <2>4, LazyTableAssumption DEF Get
  <2>5. table1[b] = i \/ (table1[b] \in MinSeed .. -1 /\ table2[HashIndex(table1[b], items[i])] = i)
    BY <1>1, <2>1 DEF Placed
  <2>6. QED
    BY <2>3, <2>4, <2>5
<1>5. ASSUME NEW key \in Keys, \A i \in Keyed : items[i] # key PROVE Get(key) = NotFound
  <2> DEFINE first == table1[HashIndex(0, key)]
  <2> DEFINE final == IF first >= 0 THEN first ELSE table2[HashIndex(first, key)]
  <2>1. HashIndex(0, key) \in Slots
    BY <1>1, HashInTable, SeedsAreSeeds
  <2>2. \A x \in Slots : table2[x] = Invalid \/ table2[x] \in Keyed
    BY DEF TableInv
  <2>3. ASSUME first \in MinSeed .. -1 PROVE final = Invalid \/ final \in Keyed
    <3>1. HashIndex(first, key) \in Slots
      BY <1>1, <2>3, HashInTable, SeedsAreSeeds
    <3>2. final = table2[HashIndex(first, key)]
      BY <2>3, LazyTableAssumption
    <3>3. QED
      BY <2>2, <3>1, <3>2
  <2>4. ASSUME first \notin MinSeed .. -1 PROVE final = Invalid \/ final \in Keyed
    <3>1. first = Invalid \/ first \in Keyed
      BY <1>1, <2>1, <2>4 DEF Placed
    <3>2. first \in Nat
      BY <1>2, <1>3, <3>1
    <3>3. final = first
      BY <3>2
    <3>4. QED
      BY <3>1, <3>3
  <2>5. final = Invalid \/ items[final] # key
    BY <1>5, <2>3, <2>4
  <2>6. QED
    BY <1>2, <2>5 DEF Get
<1>6. QED
  BY <1>4, <1>5

(* THEOREM: for every content and every hash function, a table that write has   *)
(* finished finds what it holds and nothing else: GetFindsItsKey.  A content    *)
(* with two items of one key is never finished: no seed separates them.         *)
THEOREM TableFindsItsKeys == Spec => []GetFindsItsKey
<1>1. Init => TableInv
  BY InitEstablishes
<1>2. TableInv /\ [Write]_vars => TableInv'
  BY StepPreserves
<1>3. TableInv => GetFindsItsKey
  BY InvariantAnswers
<1>4. QED
  BY <1>1, <1>2, <1>3, PTL DEF Spec
================================================================================
