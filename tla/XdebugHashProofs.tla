-------------------------- MODULE XdebugHashProofs --------------------------
(***************************************************************************)
(* Proofs about XdebugHash, for any keys, slots, values and any way of     *)
(* distributing keys over slots, with and without a destructor.            *)
(***************************************************************************)
EXTENDS XdebugHash, FiniteSetTheorems, TLAPS

Entries == [key : Keys, ptr : Values]

(***************************************************************************)
(* The inductive invariant.  A search looks at one chain and stops at its  *)
(* first match, so a key must be in its own slot, and there once; and a    *)
(* value must be stored under one key, or the destructor would free what   *)
(* another key still finds.                                                *)
(***************************************************************************)
Chains == table \in [TableSlots -> Seq(Entries)]

KeysInSlots ==
    \A s \in TableSlots : \A i \in DOMAIN table[s] : Slot[table[s][i].key] = s

KeysOnce ==
    \A s \in TableSlots : \A i, j \in DOMAIN table[s] :
       table[s][i].key = table[s][j].key => i = j

OneKeyEach ==
    \A k, l \in Keys : Found(k) = Found(l) => k = l \/ Found(k) = NULL

Counted ==
    /\ IsFiniteSet(xdebug_hash_apply)
    /\ size = Cardinality(xdebug_hash_apply)

Shape == Chains /\ KeysInSlots /\ KeysOnce

IInv == Shape /\ OneKeyEach /\ Counted /\ NoneDestroyedInUse
-----------------------------------------------------------------------------
VisitsChains ==
    \A x : x \in xdebug_hash_apply <=>
       \E s \in TableSlots : \E i \in DOMAIN table[s] : x = table[s][i]

(* The elements the walk visits are those of the chains,                   *)
LEMMA Visited == VisitsChains
<1>1. ASSUME NEW s \in TableSlots, NEW i \in DOMAIN table[s]
      PROVE  table[s][i] \in xdebug_hash_apply
  <2>1. <<s, i>> \in Places
    BY DEF Places
  <2>2. At(<<s, i>>) = table[s][i]
    BY DEF At
  <2> QED
    BY <2>1, <2>2, Zenon DEF xdebug_hash_apply
<1>2. ASSUME NEW x \in xdebug_hash_apply
      PROVE  \E s \in TableSlots : \E i \in DOMAIN table[s] : x = table[s][i]
  <2>1. PICK p \in Places : x = At(p)
    BY Zenon DEF xdebug_hash_apply
  <2>2. PICK s \in TableSlots : \E i \in DOMAIN table[s] : p = <<s, i>>
    BY DEF Places
  <2>3. PICK i \in DOMAIN table[s] : p = <<s, i>>
    BY <2>2
  <2>4. x = table[s][i]
    BY <2>1, <2>3 DEF At
  <2> QED
    BY <2>4
<1> QED
  BY <1>1, <1>2 DEF VisitsChains

(* and their values are those stored.                                      *)
LEMMA StoredIs == Stored = {x.ptr : x \in xdebug_hash_apply}
BY Zenon DEF Stored, xdebug_hash_apply

(* Keys compare equal exactly when they are.                               *)
LEMMA ComparesKeys ==
  ASSUME NEW k1 \in Keys, NEW k2 \in Keys
  PROVE  xdebug_hash_key_compare(k1, k2) <=> k1 = k2
BY HashAssumption DEF xdebug_hash_key_compare

(* A search of a chain that has each key once finds the place of the key,  *)
(* or nothing.                                                             *)
LEMMA SearchFinds ==
  ASSUME NEW chain \in Seq(Entries), NEW key \in Keys
  PROVE  /\ \A i \in DOMAIN chain : i \in Matches(chain, key) <=> chain[i].key = key
         /\ \A i \in DOMAIN chain :
               /\ chain[i].key = key
               /\ \A j \in DOMAIN chain : chain[j].key = key => j = i
               => /\ IsFirstMatch(chain, key, i)
                  /\ (CHOOSE place \in DOMAIN chain :
                         IsFirstMatch(chain, key, place)) = i
<1>1. \A i \in DOMAIN chain : i \in Matches(chain, key) <=> chain[i].key = key
  <2>1. \A i \in DOMAIN chain : chain[i] \in Entries
    OBVIOUS
  <2>2. \A i \in DOMAIN chain : chain[i].key \in Keys
    BY <2>1 DEF Entries
  <2> QED
    BY <2>2, ComparesKeys, Zenon DEF Matches
<1>2. ASSUME NEW i \in DOMAIN chain, chain[i].key = key,
             \A j \in DOMAIN chain : chain[j].key = key => j = i
      PROVE  /\ IsFirstMatch(chain, key, i)
             /\ (CHOOSE place \in DOMAIN chain :
                    IsFirstMatch(chain, key, place)) = i
  <2>1. Matches(chain, key) = {i}
    BY <1>1, <1>2 DEF Matches
  <2>2. \A place : IsFirstMatch(chain, key, place) <=> place = i
    BY <2>1 DEF IsFirstMatch
  <2> QED
    BY <2>2
<1> QED
  BY <1>1, <1>2

FindsElements ==
    \A key \in Keys :
       /\ \A i \in DOMAIN table[Slot[key]] :
             table[Slot[key]][i].key = key => Found(key) = table[Slot[key]][i].ptr
       /\ (\A i \in DOMAIN table[Slot[key]] : table[Slot[key]][i].key # key)
             => Found(key) = NULL

(* So what is found is what is stored under the key.                       *)
LEMMA Finds == Shape => FindsElements
<1> SUFFICES ASSUME Shape, NEW key \in Keys
             PROVE  /\ \A i \in DOMAIN table[Slot[key]] :
                          table[Slot[key]][i].key = key
                             => Found(key) = table[Slot[key]][i].ptr
                    /\ (\A i \in DOMAIN table[Slot[key]] :
                          table[Slot[key]][i].key # key)
                             => Found(key) = NULL
  BY DEF FindsElements
<1> DEFINE chain == table[Slot[key]]
<1>1. Slot[key] \in TableSlots
  BY HashAssumption DEF TableSlots
<1>2. chain \in Seq(Entries)
  BY <1>1 DEF Shape, Chains
<1>3. \A i, j \in DOMAIN chain : chain[i].key = chain[j].key => i = j
  BY <1>1 DEF Shape, KeysOnce
<1>4. Found(key) = IF Matches(chain, key) = {} THEN NULL
                   ELSE chain[CHOOSE place \in DOMAIN chain : IsFirstMatch(chain, key, place)].ptr
  BY DEF Found
<1> HIDE DEF chain
<1>5. ASSUME NEW i \in DOMAIN chain, chain[i].key = key
      PROVE  Found(key) = chain[i].ptr
  <2>1. \A j \in DOMAIN chain : chain[j].key = key => j = i
    BY <1>3, <1>5
  <2>2. i \in Matches(chain, key)
    BY <1>2, <1>5, SearchFinds
  <2>3. (CHOOSE place \in DOMAIN chain : IsFirstMatch(chain, key, place)) = i
    BY <1>2, <1>5, <2>1, SearchFinds
  <2> QED
    BY <1>4, <2>2, <2>3
<1>6. ASSUME \A i \in DOMAIN chain : chain[i].key # key
      PROVE  Found(key) = NULL
  <2>1. Matches(chain, key) = {}
    BY <1>2, <1>6, SearchFinds DEF Matches
  <2> QED
    BY <1>4, <2>1
<1> QED
  BY <1>5, <1>6 DEF chain

VisitsWhatIsFound ==
    /\ \A key \in Keys : Found(key) \in Values \cup {NULL}
    /\ \A x \in xdebug_hash_apply : /\ x = [key |-> x.key, ptr |-> x.ptr]
                                    /\ x.key \in Keys /\ x.ptr \in Values
                                    /\ x.ptr = Found(x.key)
    /\ \A key \in Keys : Found(key) # NULL =>
          [key |-> key, ptr |-> Found(key)] \in xdebug_hash_apply

(* What is visited is what is found, key by key:                           *)
LEMMA VisitsFound == Shape => VisitsWhatIsFound
<1> SUFFICES ASSUME Shape PROVE VisitsWhatIsFound
  OBVIOUS
<1>1. FindsElements /\ VisitsChains
  BY Finds, Visited
<1>2. \A key \in Keys : Slot[key] \in TableSlots
  BY HashAssumption DEF TableSlots
<1>3. \A s \in TableSlots : \A i \in DOMAIN table[s] :
         /\ table[s][i] = [key |-> table[s][i].key, ptr |-> table[s][i].ptr]
         /\ table[s][i].key \in Keys /\ table[s][i].ptr \in Values
  <2> SUFFICES ASSUME NEW s \in TableSlots, NEW i \in DOMAIN table[s]
               PROVE  /\ table[s][i] = [key |-> table[s][i].key, ptr |-> table[s][i].ptr]
                      /\ table[s][i].key \in Keys /\ table[s][i].ptr \in Values
    OBVIOUS
  <2>1. table[s] \in Seq(Entries)
    BY DEF Shape, Chains
  <2>2. table[s][i] \in Entries
    BY <2>1
  <2> QED
    BY <2>2 DEF Entries
<1>4. ASSUME NEW key \in Keys
      PROVE  \/ Found(key) = NULL
             \/ \E i \in DOMAIN table[Slot[key]] :
                  /\ table[Slot[key]][i].key = key
                  /\ Found(key) = table[Slot[key]][i].ptr
  BY <1>1, Zenon DEF FindsElements
<1>5. ASSUME NEW key \in Keys, Found(key) # NULL
      PROVE  /\ Found(key) \in Values
             /\ [key |-> key, ptr |-> Found(key)] \in xdebug_hash_apply
  <2>1. PICK i \in DOMAIN table[Slot[key]] :
                  /\ table[Slot[key]][i].key = key
                  /\ Found(key) = table[Slot[key]][i].ptr
    BY <1>4, <1>5
  <2>2. table[Slot[key]][i] \in xdebug_hash_apply
    BY <1>1, <1>2, Zenon DEF VisitsChains
  <2> QED
    BY <1>2, <1>3, <2>1, <2>2
<1>6. ASSUME NEW x \in xdebug_hash_apply
      PROVE  /\ x = [key |-> x.key, ptr |-> x.ptr]
             /\ x.key \in Keys /\ x.ptr \in Values
             /\ x.ptr = Found(x.key)
  <2>1. PICK s \in TableSlots : \E i \in DOMAIN table[s] : x = table[s][i]
    BY <1>1, Zenon DEF VisitsChains
  <2>2. PICK i \in DOMAIN table[s] : x = table[s][i]
    BY <2>1
  <2>3. Slot[x.key] = s
    BY <2>2 DEF Shape, KeysInSlots
  <2>4. x = [key |-> x.key, ptr |-> x.ptr] /\ x.key \in Keys /\ x.ptr \in Values
    BY <1>3, <2>2
  <2>5. Found(x.key) = table[s][i].ptr
    BY <1>1, <2>2, <2>3, <2>4 DEF FindsElements
  <2> QED
    BY <2>2, <2>4, <2>5
<1> QED
  BY <1>5, <1>6, Zenon DEF VisitsWhatIsFound

FoundPairs == {[key |-> k, ptr |-> Found(k)] : k \in {l \in Keys : Found(l) # NULL}}

VisitsPairs ==
    /\ xdebug_hash_apply = FoundPairs
    /\ Stored = {Found(k) : k \in {l \in Keys : Found(l) # NULL}}
    /\ \A key \in Keys : Found(key) \in Values \cup {NULL}

(* the walk passes one pair for each key that finds something.             *)
LEMMA VisitsAreFound == Shape => VisitsPairs
<1> SUFFICES ASSUME Shape PROVE VisitsPairs
  OBVIOUS
<1>1. VisitsWhatIsFound
  BY VisitsFound
<1>2. \A x \in xdebug_hash_apply : x \in FoundPairs
  <2> SUFFICES ASSUME NEW x \in xdebug_hash_apply PROVE x \in FoundPairs
    OBVIOUS
  <2>1. /\ x = [key |-> x.key, ptr |-> Found(x.key)]
        /\ x.key \in Keys /\ Found(x.key) # NULL
    BY <1>1, HashAssumption DEF VisitsWhatIsFound
  <2> QED
    BY <2>1 DEF FoundPairs
<1>3. FoundPairs \subseteq xdebug_hash_apply
  BY <1>1 DEF FoundPairs, VisitsWhatIsFound
<1>4. xdebug_hash_apply = FoundPairs
  BY <1>2, <1>3
<1>5. Stored = {Found(k) : k \in {l \in Keys : Found(l) # NULL}}
  <2>1. \A v : v \in Stored <=> \E x \in FoundPairs : v = x.ptr
    BY <1>4, StoredIs
  <2>2. \A x : x \in FoundPairs <=>
           \E k \in Keys : Found(k) # NULL /\ x = [key |-> k, ptr |-> Found(k)]
    BY DEF FoundPairs
  <2>3. \A v : v \in Stored <=> \E k \in Keys : Found(k) # NULL /\ v = Found(k)
    <3>1. ASSUME NEW v \in Stored PROVE \E k \in Keys : Found(k) # NULL /\ v = Found(k)
      <4>1. PICK x \in FoundPairs : v = x.ptr
        BY <2>1
      <4>2. PICK k \in Keys : Found(k) # NULL /\ x = [key |-> k, ptr |-> Found(k)]
        BY <2>2
      <4> QED
        BY <4>1, <4>2
    <3>2. ASSUME NEW k \in Keys, Found(k) # NULL PROVE Found(k) \in Stored
      <4>1. [key |-> k, ptr |-> Found(k)] \in FoundPairs
        BY <2>2, <3>2
      <4>2. [key |-> k, ptr |-> Found(k)].ptr = Found(k)
        OBVIOUS
      <4> QED
        BY <2>1, <4>1, <4>2
    <3> QED
      BY <3>1, <3>2
  <2> QED
    BY <2>3
<1> QED
  BY <1>1, <1>4, <1>5 DEF VisitsWhatIsFound, VisitsPairs
-----------------------------------------------------------------------------
(* Changing one chain.                                                     *)
LEMMA ChainChanged ==
  ASSUME Shape, NEW s \in TableSlots, NEW chain \in Seq(Entries),
         table' = [table EXCEPT ![s] = chain],
         \A i \in DOMAIN chain : Slot[chain[i].key] = s,
         \A i, j \in DOMAIN chain : chain[i].key = chain[j].key => i = j
  PROVE  /\ Shape'
         /\ table'[s] = chain
         /\ \A t \in TableSlots : t # s => table'[t] = table[t]
<1>1. /\ table' \in [TableSlots -> Seq(Entries)]
      /\ table'[s] = chain
      /\ \A t \in TableSlots : t # s => table'[t] = table[t]
  BY DEF Shape, Chains
<1>2. KeysInSlots'
  BY <1>1 DEF Shape, KeysInSlots
<1>3. KeysOnce'
  BY <1>1 DEF Shape, KeysOnce
<1> QED
  BY <1>1, <1>2, <1>3 DEF Shape, Chains

(* When the chain of a key keeps its other elements, the other keys find   *)
(* what they found.                                                        *)
LEMMA OthersFind ==
  ASSUME Shape, Shape', NEW key \in Keys,
         \A t \in TableSlots : t # Slot[key] => table'[t] = table[t],
         \A i \in DOMAIN table[Slot[key]] :
            table[Slot[key]][i].key # key =>
               \E j \in DOMAIN table'[Slot[key]] :
                  table'[Slot[key]][j] = table[Slot[key]][i],
         \A j \in DOMAIN table'[Slot[key]] :
            table'[Slot[key]][j].key # key =>
               \E i \in DOMAIN table[Slot[key]] :
                  table'[Slot[key]][j] = table[Slot[key]][i]
  PROVE  \A k \in Keys : k # key => Found(k)' = Found(k)
<1> SUFFICES ASSUME NEW k \in Keys, k # key PROVE Found(k)' = Found(k)
  OBVIOUS
<1>1. FindsElements /\ FindsElements'
  <2>1. FindsElements
    BY Finds
  <2>2. FindsElements'
    BY Finds, PTL
  <2> QED
    BY <2>1, <2>2
<1>2. Slot[k] \in TableSlots
  BY HashAssumption DEF TableSlots
<1>3. /\ \A i \in DOMAIN table[Slot[k]] : table[Slot[k]][i].key = k =>
            \E j \in DOMAIN table'[Slot[k]] : table'[Slot[k]][j] = table[Slot[k]][i]
      /\ \A j \in DOMAIN table'[Slot[k]] : table'[Slot[k]][j].key = k =>
            \E i \in DOMAIN table[Slot[k]] : table'[Slot[k]][j] = table[Slot[k]][i]
  BY <1>2
<1>4. CASE \E i \in DOMAIN table[Slot[k]] : table[Slot[k]][i].key = k
  <2>1. PICK i \in DOMAIN table[Slot[k]] : table[Slot[k]][i].key = k
    BY <1>4
  <2>2. PICK j \in DOMAIN table'[Slot[k]] : table'[Slot[k]][j] = table[Slot[k]][i]
    BY <1>3, <2>1
  <2>3. Found(k) = table[Slot[k]][i].ptr
    BY <1>1, <2>1 DEF FindsElements
  <2>4. Found(k)' = table'[Slot[k]][j].ptr
    BY <1>1, <2>1, <2>2 DEF FindsElements
  <2> QED
    BY <2>2, <2>3, <2>4
<1>5. CASE \A i \in DOMAIN table[Slot[k]] : table[Slot[k]][i].key # k
  <2>1. \A j \in DOMAIN table'[Slot[k]] : table'[Slot[k]][j].key # k
    BY <1>3, <1>5
  <2>2. Found(k) = NULL
    BY <1>1, <1>5, Zenon DEF FindsElements
  <2>3. Found(k)' = NULL
    BY <1>1, <2>1, Zenon DEF FindsElements
  <2> QED
    BY <2>2, <2>3
<1> QED
  BY <1>4, <1>5

Sets(key, v) ==
    /\ Found(key)' = v
    /\ \A k \in Keys : k # key => Found(k)' = Found(k)

(* Setting what one key finds to a value no other key finds, or to nothing, *)
(* changes the count and what is stored by that value and the old one.     *)
LEMMA SetsCounts ==
  ASSUME IInv, Shape', NEW key \in Keys, NEW v \in Values \cup {NULL},
         Sets(key, v), v \notin Stored
  PROVE  /\ OneKeyEach'
         /\ IsFiniteSet(xdebug_hash_apply')
         /\ Cardinality(xdebug_hash_apply') =
               size + (IF v = NULL THEN 0 ELSE 1) - (IF Found(key) = NULL THEN 0 ELSE 1)
         /\ Stored' = (Stored \ {Found(key)}) \cup ({v} \ {NULL})
<1>1. VisitsPairs /\ VisitsPairs'
  <2>1. VisitsPairs
    BY VisitsAreFound DEF IInv
  <2>2. VisitsPairs'
    BY VisitsAreFound, PTL
  <2> QED
    BY <2>1, <2>2
<1>2. /\ xdebug_hash_apply = {[key |-> k, ptr |-> Found(k)] : k \in {l \in Keys : Found(l) # NULL}}
      /\ xdebug_hash_apply' = {[key |-> k, ptr |-> Found(k)'] : k \in {l \in Keys : Found(l)' # NULL}}
  BY <1>1 DEF VisitsPairs, FoundPairs
<1>3. /\ Stored = {Found(k) : k \in {l \in Keys : Found(l) # NULL}}
      /\ Stored' = {Found(k)' : k \in {l \in Keys : Found(l)' # NULL}}
  BY <1>1 DEF VisitsPairs
<1>4. OneKeyEach'
  <2> SUFFICES ASSUME NEW k \in Keys, NEW l \in Keys, Found(k)' = Found(l)', k # l
               PROVE  Found(k)' = NULL
    BY DEF OneKeyEach
  <2>1. \A m \in Keys : m # key /\ Found(m) # NULL => Found(m) \in Stored
    BY <1>3
  <2>2. CASE k # key /\ l # key
    BY <2>2 DEF Sets, IInv, OneKeyEach
  <2>3. CASE k = key \/ l = key
    BY <2>1, <2>3 DEF Sets
  <2> QED
    BY <2>2, <2>3
<1>5. Stored' = (Stored \ {Found(key)}) \cup ({v} \ {NULL})
  <2>1. \A x : x \in Stored <=> x # NULL /\ \E k \in Keys : x = Found(k)
    BY <1>3
  <2>2. \A x : x \in Stored' <=> x # NULL /\ \E k \in Keys : x = Found(k)'
    BY <1>3
  <2>3. \A k \in Keys : k # key => Found(k) = NULL \/ Found(k) # Found(key)
    BY DEF IInv, OneKeyEach
  <2>4. \A x : x \in Stored' <=> x \in (Stored \ {Found(key)}) \cup ({v} \ {NULL})
    BY <2>1, <2>2, <2>3 DEF Sets
  <2> QED
    BY <2>4
<1>6. /\ IsFiniteSet(xdebug_hash_apply')
      /\ Cardinality(xdebug_hash_apply') =
            size + (IF v = NULL THEN 0 ELSE 1) - (IF Found(key) = NULL THEN 0 ELSE 1)
  <2> DEFINE rest == xdebug_hash_apply \ {[key |-> key, ptr |-> Found(key)]}
             n    == size - (IF Found(key) = NULL THEN 0 ELSE 1)
  <2>1. IsFiniteSet(xdebug_hash_apply) /\ size = Cardinality(xdebug_hash_apply) /\ size \in Nat
    BY FS_CardinalityType DEF IInv, Counted
  <2>2. [key |-> key, ptr |-> Found(key)] \in xdebug_hash_apply <=> Found(key) # NULL
    BY <1>2
  <2>3. IsFiniteSet(rest) /\ Cardinality(rest) = n /\ n \in Int
    BY <2>1, <2>2, FS_RemoveElement
  <2>4. xdebug_hash_apply' = IF v = NULL THEN rest ELSE rest \cup {[key |-> key, ptr |-> v]}
    <3>1. \A x : x \in xdebug_hash_apply <=>
             \E k \in Keys : Found(k) # NULL /\ x = [key |-> k, ptr |-> Found(k)]
      BY <1>2
    <3>2. \A x : x \in xdebug_hash_apply' <=>
             \E k \in Keys : Found(k)' # NULL /\ x = [key |-> k, ptr |-> Found(k)']
      BY <1>2
    <3>3. \A k, l, p, q : [key |-> k, ptr |-> p] = [key |-> l, ptr |-> q] => k = l /\ p = q
      OBVIOUS
    <3>4. \A x : x \in rest <=>
             \E k \in Keys : k # key /\ Found(k) # NULL /\ x = [key |-> k, ptr |-> Found(k)]
      BY <3>1, <3>3
    <3> HIDE DEF rest
    <3>5. \A x : x \in xdebug_hash_apply' <=>
             x \in IF v = NULL THEN rest ELSE rest \cup {[key |-> key, ptr |-> v]}
      BY <3>2, <3>4 DEF Sets
    <3> QED
      BY <3>5
  <2>5. [key |-> key, ptr |-> v] \notin rest
    <3>1. CASE [key |-> key, ptr |-> v] \in xdebug_hash_apply
      <4>1. v = Found(key)
        BY <1>2, <3>1
      <4> QED
        BY <4>1
    <3> QED
      BY <3>1
  <2> HIDE DEF rest, n
  <2>6. CASE v = NULL
    BY <2>1, <2>3, <2>4, <2>6 DEF n
  <2>7. CASE v # NULL
    <3>1. /\ IsFiniteSet(rest \cup {[key |-> key, ptr |-> v]})
          /\ Cardinality(rest \cup {[key |-> key, ptr |-> v]}) = n + 1
      BY <2>3, <2>5, FS_AddElement
    <3> QED
      BY <2>1, <2>4, <2>7, <3>1 DEF n
  <2> QED
    BY <2>6, <2>7
<1> QED
  BY <1>4, <1>5, <1>6
-----------------------------------------------------------------------------
(* What the destructor has been handed when a step took away the value a   *)
(* key found, or none.                                                     *)
Releases(old) ==
    /\ Range(released') = IF HasDtor THEN {old} \ {NULL} ELSE {}
    /\ IsInjective(released')

(* An empty sequence hands nothing over.                                   *)
LEMMA NothingHanded ==
  ASSUME released' = << >>
  PROVE  Range(released') = {} /\ IsInjective(released')
BY DEF Range, IsInjective

(* A destructor is handed the one value of the element found,              *)
LEMMA ReleasesOne ==
  ASSUME Shape, NEW key \in Keys, NEW i \in DOMAIN table[Slot[key]],
         table[Slot[key]][i].key = key,
         released' = hash_element_dtor({<<Slot[key], i>>})
  PROVE  Releases(Found(key)) /\ Found(key) # NULL
<1>1. FindsElements /\ VisitsWhatIsFound
  BY Finds, VisitsFound
<1>2. Slot[key] \in TableSlots
  BY HashAssumption DEF TableSlots
<1>3. Found(key) = table[Slot[key]][i].ptr
  BY <1>1 DEF FindsElements
<1>4. Found(key) # NULL
  <2>1. table[Slot[key]][i] \in xdebug_hash_apply
    BY <1>2, Visited, Zenon DEF VisitsChains
  <2> QED
    BY <1>1, <1>3, <2>1, HashAssumption DEF VisitsWhatIsFound
<1>5. CASE HasDtor
  <2>1. released' = [place \in {<<Slot[key], i>>} |-> At(place).ptr]
    BY <1>5 DEF hash_element_dtor
  <2>2. At(<<Slot[key], i>>).ptr = Found(key)
    BY <1>3 DEF At
  <2>3. DOMAIN released' = {<<Slot[key], i>>} /\ released'[<<Slot[key], i>>] = Found(key)
    BY <2>1, <2>2
  <2> QED
    BY <1>4, <1>5, <2>3, Zenon DEF Releases, Range, IsInjective
<1>6. CASE ~ HasDtor
  <2>1. released' = << >>
    BY <1>6 DEF hash_element_dtor
  <2>2. Range(released') = {} /\ IsInjective(released')
    BY <2>1, NothingHanded
  <2> QED
    BY <1>4, <1>6, <2>2 DEF Releases
<1> QED
  BY <1>4, <1>5, <1>6

(* or nothing. *)
LEMMA ReleasesNone ==
  ASSUME released' = << >>
  PROVE  Releases(NULL)
BY NothingHanded DEF Releases

(* An update finds the element of its key and gives it the new value.      *)
LEMMA UpdateSets ==
  ASSUME Shape, NEW key \in Keys, NEW p \in Values, Update(key, p)
  PROVE  Shape' /\ Sets(key, p) /\ Found(key) # NULL /\ Releases(Found(key))
<1> DEFINE chain == table[Slot[key]]
<1>1. Slot[key] \in TableSlots
  BY HashAssumption DEF TableSlots
<1>2. chain \in Seq(Entries)
  BY <1>1 DEF Shape, Chains
<1>3. PICK i \in DOMAIN chain :
         /\ IsFirstMatch(chain, key, i)
         /\ released' = hash_element_dtor({<<Slot[key], i>>})
         /\ table' = [table EXCEPT ![Slot[key]][i].ptr = p]
  BY Zenon DEF Update
<1>4. chain[i].key = key
  BY <1>2, <1>3, SearchFinds DEF IsFirstMatch
<1> DEFINE next == [chain EXCEPT ![i].ptr = p]
<1>5. table' = [table EXCEPT ![Slot[key]] = next]
  BY <1>1, <1>3 DEF Shape, Chains
<1>6. /\ next \in Seq(Entries)
      /\ DOMAIN next = DOMAIN chain
      /\ \A j \in DOMAIN chain : j # i => next[j] = chain[j]
      /\ next[i].key = key /\ next[i].ptr = p
  <2> HIDE DEF chain
  <2>1. chain[i] \in Entries
    BY <1>2
  <2>2. [chain[i] EXCEPT !.ptr = p] \in Entries
    BY <2>1 DEF Entries
  <2> QED
    BY <1>2, <1>4, <2>1, <2>2 DEF Entries
<1>7. /\ \A j \in DOMAIN chain : Slot[chain[j].key] = Slot[key]
      /\ \A j, l \in DOMAIN chain : chain[j].key = chain[l].key => j = l
  BY <1>1 DEF Shape, KeysInSlots, KeysOnce
<1> HIDE DEF next
<1>8. /\ Shape'
      /\ table'[Slot[key]] = next
      /\ \A t \in TableSlots : t # Slot[key] => table'[t] = table[t]
  <2>1. \A j \in DOMAIN next : next[j].key = chain[j].key
    BY <1>4, <1>6
  <2> HIDE DEF chain
  <2>2. \A j \in DOMAIN next : Slot[next[j].key] = Slot[key]
    BY <1>6, <1>7, <2>1
  <2>3. \A j, l \in DOMAIN next : next[j].key = next[l].key => j = l
    BY <1>6, <1>7, <2>1
  <2> QED
    BY <1>1, <1>5, <1>6, <2>2, <2>3, ChainChanged
<1>9. FindsElements'
  BY <1>8, Finds, PTL
<1>10. \A k \in Keys : k # key => Found(k)' = Found(k)
  <2>1. \A j \in DOMAIN chain : chain[j].key # key =>
           \E l \in DOMAIN next : next[l] = chain[j]
    BY <1>4, <1>6
  <2>2. \A j \in DOMAIN next : next[j].key # key =>
           \E l \in DOMAIN chain : next[j] = chain[l]
    BY <1>6
  <2> QED
    BY <1>8, <2>1, <2>2, OthersFind
<1>11. Found(key)' = p
  BY <1>6, <1>8, <1>9 DEF FindsElements
<1> QED
  BY <1>3, <1>4, <1>8, <1>10, <1>11, ReleasesOne DEF Sets

(* An addition finds no element of its key and appends one.                *)
LEMMA AddSets ==
  ASSUME Shape, NEW key \in Keys, NEW p \in Values, Add(key, p)
  PROVE  Shape' /\ Sets(key, p) /\ Found(key) = NULL /\ Releases(NULL)
<1> DEFINE chain == table[Slot[key]]
           new   == [key |-> key, ptr |-> p]
           next  == Append(chain, new)
<1>1. Slot[key] \in TableSlots
  BY HashAssumption DEF TableSlots
<1>2. chain \in Seq(Entries)
  BY <1>1 DEF Shape, Chains
<1>3. /\ Matches(chain, key) = {}
      /\ table' = [table EXCEPT ![Slot[key]] = next]
      /\ released' = << >>
  BY DEF Add
<1>4. \A j \in DOMAIN chain : chain[j].key # key
  BY <1>2, <1>3, SearchFinds
<1>5. new \in Entries
  BY DEF Entries
<1>6. /\ next \in Seq(Entries)
      /\ DOMAIN next = 1..(Len(chain) + 1)
      /\ DOMAIN chain = 1..Len(chain)
      /\ \A j \in DOMAIN chain : next[j] = chain[j]
      /\ next[Len(chain) + 1] = new
      /\ Len(chain) \in Nat
  <2> HIDE DEF chain, new
  <2> QED
    BY <1>2, <1>5
<1>7. /\ \A j \in DOMAIN chain : Slot[chain[j].key] = Slot[key]
      /\ \A j, l \in DOMAIN chain : chain[j].key = chain[l].key => j = l
  BY <1>1 DEF Shape, KeysInSlots, KeysOnce
<1>8. new.key = key /\ new.ptr = p
  OBVIOUS
<1> HIDE DEF next, new
<1>9. /\ Shape'
      /\ table'[Slot[key]] = next
      /\ \A t \in TableSlots : t # Slot[key] => table'[t] = table[t]
  <2> HIDE DEF chain
  <2>1. \A j \in DOMAIN next : j \in DOMAIN chain \/ j = Len(chain) + 1
    BY <1>6
  <2>2. \A j \in DOMAIN next : Slot[next[j].key] = Slot[key]
    BY <1>6, <1>7, <1>8, <2>1
  <2>3. \A j, l \in DOMAIN next : next[j].key = next[l].key => j = l
    BY <1>4, <1>6, <1>7, <1>8, <2>1
  <2> QED
    BY <1>1, <1>3, <1>6, <2>2, <2>3, ChainChanged
<1>10. FindsElements /\ FindsElements'
  <2>1. FindsElements
    BY Finds
  <2>2. FindsElements'
    BY <1>9, Finds, PTL
  <2> QED
    BY <2>1, <2>2
<1>11. \A k \in Keys : k # key => Found(k)' = Found(k)
  <2>1. \A j \in DOMAIN chain : \E l \in DOMAIN next : next[l] = chain[j]
    BY <1>6
  <2>2. \A j \in DOMAIN next : next[j].key # key =>
           \E l \in DOMAIN chain : next[j] = chain[l]
    BY <1>6, <1>8
  <2> QED
    BY <1>9, <2>1, <2>2, OthersFind
<1>12. Len(chain) + 1 \in DOMAIN next
  BY <1>6
<1>13. Found(key)' = p
  BY <1>6, <1>8, <1>9, <1>10, <1>12 DEF FindsElements
<1>14. Found(key) = NULL
  BY <1>4, <1>10, Zenon DEF FindsElements
<1> QED
  BY <1>3, <1>9, <1>11, <1>13, <1>14, ReleasesNone DEF Sets

(* Removing from a sequence. *)
LEMMA RemoveAtKeeps ==
  ASSUME NEW S, NEW chain \in Seq(S), NEW i \in DOMAIN chain
  PROVE  LET next == RemoveAt(chain, i)
         IN  /\ next \in Seq(S)
             /\ Len(next) = Len(chain) - 1
             /\ \A j \in DOMAIN next : /\ j < i => next[j] = chain[j]
                                       /\ j >= i => next[j] = chain[j + 1]
<1> DEFINE front == SubSeq(chain, 1, i - 1)
           back  == SubSeq(chain, i + 1, Len(chain))
<1>1. Len(chain) \in Nat /\ i \in 1..Len(chain)
  OBVIOUS
<1>2. /\ front \in Seq(S) /\ Len(front) = i - 1
      /\ \A j \in 1..(i - 1) : front[j] = chain[j]
  BY <1>1
<1>3. /\ back \in Seq(S) /\ Len(back) = Len(chain) - i
      /\ \A j \in 1..(Len(chain) - i) : back[j] = chain[j + i]
  BY <1>1
<1>4. RemoveAt(chain, i) = front \o back
  BY DEF RemoveAt
<1> HIDE DEF front, back
<1>5. /\ front \o back \in Seq(S)
      /\ Len(front \o back) = Len(chain) - 1
  BY <1>1, <1>2, <1>3
<1>6. ASSUME NEW j \in 1..(Len(chain) - 1)
      PROVE  /\ j < i => (front \o back)[j] = chain[j]
             /\ j >= i => (front \o back)[j] = chain[j + 1]
  <2>1. CASE j < i
    BY <1>1, <1>2, <1>3, <2>1
  <2>2. CASE j >= i
    <3>1. j - (i - 1) \in 1..(Len(chain) - i)
      BY <1>1, <2>2
    <3>2. (front \o back)[j] = back[j - (i - 1)]
      BY <1>1, <1>2, <1>3, <2>2
    <3>3. back[j - (i - 1)] = chain[j - (i - 1) + i]
      BY <1>3, <3>1
    <3>4. j - (i - 1) + i = j + 1
      BY <1>1
    <3> QED
      BY <1>1, <2>2, <3>2, <3>3, <3>4
  <2> QED
    BY <1>1, <2>1, <2>2
<1>7. DOMAIN (front \o back) = 1..(Len(chain) - 1)
  BY <1>1, <1>5
<1> QED
  BY <1>4, <1>5, <1>6, <1>7, Zenon

(* A deletion takes the element of its key out of the chain.               *)
LEMMA DeleteSets ==
  ASSUME Shape, NEW key \in Keys, DeleteMatch(key)
  PROVE  Shape' /\ Sets(key, NULL) /\ Found(key) # NULL /\ Releases(Found(key))
<1> DEFINE chain == table[Slot[key]]
<1>1. Slot[key] \in TableSlots
  BY HashAssumption DEF TableSlots
<1>2. chain \in Seq(Entries)
  BY <1>1 DEF Shape, Chains
<1>3. PICK i \in DOMAIN chain :
         /\ IsFirstMatch(chain, key, i)
         /\ released' = hash_element_dtor({<<Slot[key], i>>})
         /\ table' = [table EXCEPT ![Slot[key]] = RemoveAt(chain, i)]
  BY Zenon DEF DeleteMatch
<1>4. chain[i].key = key
  BY <1>2, <1>3, SearchFinds DEF IsFirstMatch
<1> DEFINE next == RemoveAt(chain, i)
<1>5. /\ next \in Seq(Entries)
      /\ Len(next) = Len(chain) - 1
      /\ \A j \in DOMAIN next : /\ j < i => next[j] = chain[j]
                                /\ j >= i => next[j] = chain[j + 1]
  <2> HIDE DEF chain
  <2> QED
    BY <1>2, RemoveAtKeeps
<1>6. /\ \A j \in DOMAIN chain : Slot[chain[j].key] = Slot[key]
      /\ \A j, l \in DOMAIN chain : chain[j].key = chain[l].key => j = l
  BY <1>1 DEF Shape, KeysInSlots, KeysOnce
<1> HIDE DEF next
<1>7. /\ i \in 1..Len(chain) /\ Len(chain) \in Nat
      /\ DOMAIN chain = 1..Len(chain)
      /\ DOMAIN next = 1..(Len(chain) - 1)
  <2> HIDE DEF chain
  <2> QED
    BY <1>2, <1>5
(* Where an element of the shorter chain was, and where it goes. *)
<1> DEFINE from(j) == IF j < i THEN j ELSE j + 1
           to(j)   == IF j < i THEN j ELSE j - 1
<1>8. /\ \A j \in DOMAIN next : from(j) \in DOMAIN chain \ {i} /\ next[j] = chain[from(j)]
      /\ \A j, l \in DOMAIN next : from(j) = from(l) => j = l
      /\ \A j \in DOMAIN chain : j # i => to(j) \in DOMAIN next /\ from(to(j)) = j
  <2> HIDE DEF chain
  <2>1. ASSUME NEW j \in DOMAIN next
        PROVE  from(j) \in DOMAIN chain \ {i} /\ next[j] = chain[from(j)]
    <3>1. j \in 1..(Len(chain) - 1)
      BY <1>7
    <3>2. CASE j < i
      <4>1. next[j] = chain[j]
        BY <1>5, <3>2, Zenon
      <4> QED
        BY <1>7, <3>1, <3>2, <4>1
    <3>3. CASE j >= i
      <4>1. next[j] = chain[j + 1]
        BY <1>5, <3>3
      <4>2. j + 1 \in DOMAIN chain /\ j + 1 # i /\ ~ (j < i)
        BY <1>7, <3>1, <3>3
      <4> QED
        BY <4>1, <4>2
    <3> QED
      BY <1>7, <3>1, <3>2, <3>3
  <2>2. \A j, l \in DOMAIN next : from(j) = from(l) => j = l
    BY <1>7
  <2>3. \A j \in DOMAIN chain : j # i => to(j) \in DOMAIN next /\ from(to(j)) = j
    BY <1>7
  <2> HIDE DEF from, to
  <2> QED
    BY <2>1, <2>2, <2>3
<1> HIDE DEF from, to
<1>9. /\ Shape'
      /\ table'[Slot[key]] = next
      /\ \A t \in TableSlots : t # Slot[key] => table'[t] = table[t]
  <2> HIDE DEF chain
  <2>1. \A j \in DOMAIN next : Slot[next[j].key] = Slot[key]
    BY <1>6, <1>8
  <2>2. \A j, l \in DOMAIN next : next[j].key = next[l].key => j = l
    BY <1>6, <1>8
  <2>3. table' = [table EXCEPT ![Slot[key]] = next]
    BY <1>3 DEF next
  <2> QED
    BY <1>1, <1>5, <2>1, <2>2, <2>3, ChainChanged
<1>10. FindsElements'
  BY <1>9, Finds, PTL
<1>11. \A k \in Keys : k # key => Found(k)' = Found(k)
  <2>1. \A j \in DOMAIN chain : chain[j].key # key =>
           \E l \in DOMAIN next : next[l] = chain[j]
    <3> HIDE DEF chain
    <3> SUFFICES ASSUME NEW j \in DOMAIN chain, chain[j].key # key
                 PROVE  \E l \in DOMAIN next : next[l] = chain[j]
      OBVIOUS
    <3>1. to(j) \in DOMAIN next /\ next[to(j)] = chain[j]
      BY <1>4, <1>8
    <3> QED
      BY <3>1
  <2>2. \A j \in DOMAIN next : \E l \in DOMAIN chain : next[j] = chain[l]
    BY <1>8
  <2> QED
    BY <1>9, <2>1, <2>2, OthersFind
<1>12. Found(key)' = NULL
  <2>1. \A j \in DOMAIN next : next[j].key # key
    BY <1>4, <1>6, <1>8
  <2> QED
    BY <1>9, <1>10, <2>1, Zenon DEF FindsElements
<1> QED
  BY <1>3, <1>4, <1>9, <1>11, <1>12, ReleasesOne DEF Sets

(* The end: every chain is emptied, and what was stored is released.       *)
LEMMA DestroySets ==
  ASSUME Shape, OneKeyEach, xdebug_hash_destroy
  PROVE  /\ Shape'
         /\ \A key \in Keys : Found(key)' = NULL
         /\ Range(released') = IF HasDtor THEN Stored ELSE {}
         /\ IsInjective(released')
<1>1. \A s \in TableSlots : table'[s] = << >>
  BY DEF xdebug_hash_destroy
<1>2. Shape'
  <2>1. table' \in [TableSlots -> Seq(Entries)]
    BY DEF xdebug_hash_destroy
  <2> QED
    BY <1>1, <2>1 DEF Shape, Chains, KeysInSlots, KeysOnce
<1>3. ASSUME NEW key \in Keys PROVE Found(key)' = NULL
  <2>1. FindsElements'
    BY <1>2, Finds, PTL
  <2>2. Slot[key] \in TableSlots
    BY HashAssumption DEF TableSlots
  <2> QED
    BY <1>1, <2>1, <2>2 DEF FindsElements
<1>4. ASSUME NEW p \in Places, NEW q \in Places, At(p).ptr = At(q).ptr
      PROVE  p = q
  <2>1. /\ p[1] \in TableSlots /\ p[2] \in DOMAIN table[p[1]] /\ p = <<p[1], p[2]>>
        /\ q[1] \in TableSlots /\ q[2] \in DOMAIN table[q[1]] /\ q = <<q[1], q[2]>>
    BY DEF Places
  <2>2. At(p) \in xdebug_hash_apply /\ At(q) \in xdebug_hash_apply
    BY Zenon DEF xdebug_hash_apply
  <2>3. /\ At(p).key \in Keys /\ At(p).ptr \in Values /\ At(p).ptr = Found(At(p).key)
        /\ At(q).key \in Keys /\ At(q).ptr = Found(At(q).key)
    BY <2>2, VisitsFound DEF VisitsWhatIsFound
  <2>4. At(p).key = At(q).key
    BY <1>4, <2>3, HashAssumption DEF OneKeyEach
  <2>5. table[p[1]][p[2]].key = table[q[1]][q[2]].key
    BY <2>4 DEF At
  <2>6. p[1] = q[1]
    BY <2>1, <2>5 DEF Shape, KeysInSlots
  <2>7. p[2] = q[2]
    BY <2>1, <2>5, <2>6 DEF Shape, KeysOnce
  <2> QED
    BY <2>1, <2>6, <2>7
<1>5. CASE HasDtor
  <2>1. released' = [place \in Places |-> At(place).ptr]
    BY <1>5 DEF xdebug_hash_destroy, hash_element_dtor
  <2>2. DOMAIN released' = Places /\ \A p \in Places : released'[p] = At(p).ptr
    BY <2>1
  <2>3. IsInjective(released')
    BY <1>4, <2>2 DEF IsInjective
  <2>4. Range(released') = Stored
    BY <2>2 DEF Range, Stored
  <2> QED
    BY <1>2, <1>3, <1>5, <2>3, <2>4
<1>6. CASE ~ HasDtor
  <2>1. released' = << >>
    BY <1>6 DEF xdebug_hash_destroy, hash_element_dtor
  <2>2. Range(released') = {} /\ IsInjective(released')
    BY <2>1 DEF Range, IsInjective
  <2> QED
    BY <1>2, <1>3, <1>6, <2>2
<1> QED
  BY <1>5, <1>6
-----------------------------------------------------------------------------
(* The invariant.                                                          *)

(* Whatever sets what one key finds, and releases what the key found,      *)
(* keeps the invariant,                                                    *)
LEMMA SetsKeep ==
  ASSUME IInv, Shape', NEW key \in Keys, NEW v \in Values \cup {NULL},
         Sets(key, v), v \notin Stored, Releases(Found(key)),
         size' = size + (IF v = NULL THEN 0 ELSE 1) - (IF Found(key) = NULL THEN 0 ELSE 1)
  PROVE  IInv'
<1>1. OneKeyEach' /\ Counted'
  BY SetsCounts DEF Counted
<1>2. Stored' = (Stored \ {Found(key)}) \cup ({v} \ {NULL})
  BY SetsCounts
<1>3. v # Found(key) \/ v = NULL
  <2>1. VisitsPairs
    BY VisitsAreFound DEF IInv
  <2> QED
    BY <2>1 DEF VisitsPairs
<1>4. Range(released') \cap Stored' = {}
  BY <1>2, <1>3 DEF Releases
<1>5. NoneDestroyedInUse'
  BY <1>4 DEF NoneDestroyedInUse, Releases
<1> QED
  BY <1>1, <1>5 DEF IInv

(* and so does what only looks.                                            *)
LEMMA LooksKeep ==
  ASSUME IInv, UNCHANGED <<table, size>>, released' = << >>
  PROVE  IInv' /\ \A key \in Keys : Found(key)' = Found(key)
<1>1. /\ xdebug_hash_apply' = xdebug_hash_apply
      /\ \A key \in Keys : Found(key)' = Found(key)
  BY DEF xdebug_hash_apply, Places, At, Found
<1>2. Shape' /\ OneKeyEach' /\ Counted'
  BY <1>1 DEF IInv, Shape, Chains, KeysInSlots, KeysOnce, OneKeyEach, Counted
<1>3. NoneDestroyedInUse'
  BY DEF NoneDestroyedInUse, Range, IsInjective
<1> QED
  BY <1>1, <1>2, <1>3 DEF IInv

(* An empty table satisfies it.                                            *)
LEMMA Starts == Init => IInv
<1> SUFFICES ASSUME Init PROVE IInv
  OBVIOUS
<1>1. \A s \in TableSlots : table[s] = << >>
  BY DEF Init
<1>2. Shape
  BY <1>1 DEF Init, Shape, Chains, KeysInSlots, KeysOnce
<1>3. \A key \in Keys : Found(key) = NULL
  <2>1. \A key \in Keys : Slot[key] \in TableSlots
    BY HashAssumption DEF TableSlots
  <2>2. FindsElements
    BY <1>2, Finds
  <2> QED
    BY <1>1, <2>1, <2>2 DEF FindsElements
<1>4. xdebug_hash_apply = {}
  BY <1>1, Visited DEF VisitsChains
<1>5. OneKeyEach
  BY <1>3 DEF OneKeyEach
<1>6. Counted
  BY <1>4, FS_EmptySet DEF Init, Counted
<1>7. NoneDestroyedInUse
  BY DEF Init, NoneDestroyedInUse, Range, IsInjective
<1> QED
  BY <1>2, <1>5, <1>6, <1>7 DEF IInv

(* What adding, updating and deleting mean for the keys.                   *)
Puts(key, p) ==
    /\ Shape' /\ Sets(key, p) /\ Releases(Found(key))
    /\ size' = size + 1 - (IF Found(key) = NULL THEN 0 ELSE 1)
    /\ found' = NULL

Deletes(key) ==
    /\ Shape' /\ Sets(key, NULL) /\ Releases(Found(key))
    /\ size' = size - (IF Found(key) = NULL THEN 0 ELSE 1)
    /\ found' = NULL

(* Adding and updating are one operation of the map,                       *)
LEMMA AddOrUpdatePuts ==
  ASSUME IInv, NEW key \in Keys, NEW p \in Values, xdebug_hash_add_or_update(key, p)
  PROVE  Puts(key, p)
<1>1. Shape /\ size \in Nat
  BY FS_CardinalityType DEF IInv, Counted
<1>2. CASE Update(key, p)
  <2>1. size' = size /\ found' = NULL
    BY <1>2 DEF Update
  <2>2. Shape' /\ Sets(key, p) /\ Found(key) # NULL /\ Releases(Found(key))
    BY <1>1, <1>2, UpdateSets
  <2> QED
    BY <1>1, <2>1, <2>2 DEF Puts
<1>3. CASE Add(key, p)
  <2>1. size' = size + 1 /\ found' = NULL
    BY <1>3 DEF Add
  <2>2. Shape' /\ Sets(key, p) /\ Found(key) = NULL /\ Releases(NULL)
    BY <1>1, <1>3, AddSets
  <2> QED
    BY <1>1, <2>1, <2>2 DEF Puts
<1> QED
  BY <1>2, <1>3 DEF xdebug_hash_add_or_update

(* deleting a key that is there or not, another.                           *)
LEMMA DeleteDeletes ==
  ASSUME IInv, NEW key \in Keys, xdebug_hash_extended_delete(key)
  PROVE  Deletes(key)
<1>1. Shape /\ size \in Nat /\ found' = NULL
  BY FS_CardinalityType DEF IInv, Counted, xdebug_hash_extended_delete
<1>2. CASE DeleteMatch(key)
  <2>1. size' = size - 1
    BY <1>2 DEF DeleteMatch
  <2>2. Shape' /\ Sets(key, NULL) /\ Found(key) # NULL /\ Releases(Found(key))
    BY <1>1, <1>2, DeleteSets
  <2> QED
    BY <1>1, <2>1, <2>2 DEF Deletes
<1>3. CASE DeleteNothing(key)
  <2>1. UNCHANGED <<table, size>> /\ released' = << >>
    BY <1>3 DEF DeleteNothing
  <2>2. Shape' /\ \A k \in Keys : Found(k)' = Found(k)
    BY <2>1, LooksKeep DEF IInv
  <2>3. Found(key) = NULL
    BY <1>3 DEF DeleteNothing, Found
  <2>4. Releases(NULL)
    BY <2>1, ReleasesNone
  <2> QED
    BY <1>1, <2>1, <2>2, <2>3, <2>4 DEF Deletes, Sets
<1> QED
  BY <1>2, <1>3 DEF xdebug_hash_extended_delete

(* Every operation keeps the invariant.                                    *)
THEOREM Inductive == IInv /\ [Next]_vars => IInv'
<1> SUFFICES ASSUME IInv, [Next]_vars PROVE IInv'
  OBVIOUS
<1>1. NULL \notin Stored /\ NULL \notin Values /\ size \in Nat
  <2>1. VisitsPairs
    BY VisitsAreFound DEF IInv
  <2> QED
    BY <2>1, HashAssumption, FS_CardinalityType DEF VisitsPairs, IInv, Counted
<1>2. ASSUME NEW key \in Keys, NEW p \in Values \ Stored, xdebug_hash_add_or_update(key, p)
      PROVE  IInv'
  <2>1. Puts(key, p)
    BY <1>2, AddOrUpdatePuts
  <2> QED
    BY <1>1, <2>1, SetsKeep DEF Puts
<1>3. ASSUME NEW key \in Keys, xdebug_hash_extended_delete(key)
      PROVE  IInv'
  <2>1. Deletes(key)
    BY <1>3, DeleteDeletes
  <2>2. size' = size + 0 - (IF Found(key) = NULL THEN 0 ELSE 1)
    BY <1>1, <2>1 DEF Deletes
  <2> QED
    BY <1>1, <2>1, <2>2, SetsKeep DEF Deletes
<1>4. ASSUME NEW key \in Keys, xdebug_hash_extended_find(key)
      PROVE  IInv'
  BY <1>4, LooksKeep DEF xdebug_hash_extended_find
<1>5. CASE xdebug_hash_destroy
  <2>1. /\ Shape'
        /\ \A key \in Keys : Found(key)' = NULL
        /\ IsInjective(released')
    BY <1>5, DestroySets DEF IInv
  <2>2. VisitsPairs'
    BY <2>1, VisitsAreFound, PTL
  <2>3. xdebug_hash_apply' = {} /\ Stored' = {}
    BY <2>1, <2>2 DEF VisitsPairs, FoundPairs
  <2>4. size' = 0
    BY <1>5 DEF xdebug_hash_destroy
  <2>5. OneKeyEach' /\ Counted' /\ NoneDestroyedInUse'
    BY <2>1, <2>3, <2>4, FS_EmptySet DEF OneKeyEach, Counted, NoneDestroyedInUse
  <2> QED
    BY <2>1, <2>5 DEF IInv
<1>6. CASE UNCHANGED vars
  <2>1. /\ xdebug_hash_apply' = xdebug_hash_apply
        /\ Stored' = Stored
        /\ \A key \in Keys : Found(key)' = Found(key)
    BY <1>6 DEF vars, xdebug_hash_apply, Stored, Places, At, Found
  <2> QED
    BY <1>6, <2>1 DEF vars, IInv, Shape, Chains, KeysInSlots, KeysOnce, OneKeyEach, Counted,
                      NoneDestroyedInUse
<1> QED
  BY <1>2, <1>3, <1>4, <1>5, <1>6 DEF Next

(* So it always holds.                                                     *)
THEOREM Invariance == Spec => []IInv
BY Starts, Inductive, PTL DEF Spec

(* No destructor runs on a value that a key still finds, nor twice in one  *)
(* call, whatever keys share a slot and whoever stores what.               *)
THEOREM NoneFreedInUse == Spec => []NoneDestroyedInUse
<1>1. IInv => NoneDestroyedInUse
  BY DEF IInv
<1> QED
  BY <1>1, Invariance, PTL
-----------------------------------------------------------------------------
(* The refinement.                                                         *)

(* What the walk and the counter show after a step is what the map has.    *)
LEMMA CountsTheMap ==
  ASSUME IInv'
  PROVE  Map!Counted
<1>1. VisitsPairs'
  <2>1. Shape'
    BY DEF IInv
  <2> QED
    BY <2>1, VisitsAreFound, PTL
<1>2. xdebug_hash_apply' = {[key |-> k, ptr |-> Found(k)'] : k \in {l \in Keys : Found(l)' # NULL}}
  BY <1>1 DEF VisitsPairs, FoundPairs
<1>3. size' = Cardinality(xdebug_hash_apply')
  BY DEF IInv, Counted
<1>4. {[key |-> k, ptr |-> Found(k)'] : k \in {l \in Keys : Found(l)' # NULL}}
      = {[key |-> k, ptr |-> [l \in Keys |-> Found(l)'][k]] :
            k \in {m \in Keys : [l \in Keys |-> Found(l)'][m] # NULL}}
  OBVIOUS
<1> QED
  BY <1>2, <1>3, <1>4 DEF Map!Counted, Map!Cardinality, Cardinality

(* The initial table is the empty map, *)
LEMMA InitRefines == Init => Map!Init
<1> SUFFICES ASSUME Init PROVE Map!Init
  OBVIOUS
<1>1. Shape
  BY Starts DEF IInv
<1>2. \A key \in Keys : Found(key) = NULL
  <2>1. \A key \in Keys : Slot[key] \in TableSlots
    BY HashAssumption DEF TableSlots
  <2>2. \A s \in TableSlots : table[s] = << >>
    BY DEF Init
  <2>3. FindsElements
    BY <1>1, Finds
  <2> QED
    BY <2>1, <2>2, <2>3 DEF FindsElements
<1>3. xdebug_hash_apply = {}
  BY <1>1, <1>2, VisitsAreFound DEF VisitsPairs, FoundPairs
<1>4. Range(released) = {}
  BY DEF Init, Range
<1>5. [key \in Keys |-> Found(key)] = [key \in Keys |-> NULL]
  BY <1>2
<1> QED
  BY <1>3, <1>4, <1>5 DEF Init, Map!Init

(* and every operation is one of the map, or changes nothing of it.        *)
LEMMA NextRefines == IInv /\ IInv' /\ [Next]_vars => [Map!Next]_(Map!vars)
<1> SUFFICES ASSUME IInv, IInv', [Next]_vars PROVE [Map!Next]_(Map!vars)
  OBVIOUS
<1>1. Map!Counted
  BY CountsTheMap
<1>2. VisitsPairs
  BY VisitsAreFound DEF IInv
<1> DEFINE values == [key \in Keys |-> Found(key)]
<1>3. ASSUME NEW key \in Keys, NEW v, Sets(key, v)
      PROVE  [k \in Keys |-> Found(k)'] = [values EXCEPT ![key] = v]
  BY <1>3 DEF Sets
<1>4. ASSUME NEW key \in Keys, Releases(Found(key))
      PROVE  Range(released') = Map!Destroyed({values[key]})
  BY <1>4 DEF Releases, Map!Destroyed
<1>5. ASSUME NEW key \in Keys, NEW p \in Values, xdebug_hash_add_or_update(key, p)
      PROVE  Map!Put(key, p)
  <2>1. Puts(key, p)
    BY <1>5, AddOrUpdatePuts
  <2> QED
    BY <1>1, <1>3, <1>4, <2>1 DEF Puts, Map!Put
<1>6. ASSUME NEW key \in Keys, xdebug_hash_extended_delete(key)
      PROVE  Map!Delete(key)
  <2>1. Deletes(key)
    BY <1>6, DeleteDeletes
  <2> QED
    BY <1>1, <1>3, <1>4, <2>1 DEF Deletes, Map!Delete
<1>7. ASSUME NEW key \in Keys, xdebug_hash_extended_find(key)
      PROVE  Map!Find(key)
  <2>1. UNCHANGED <<table, size>> /\ released' = << >> /\ found' = Found(key)
    BY <1>7 DEF xdebug_hash_extended_find
  <2>2. \A k \in Keys : Found(k)' = Found(k)
    BY <2>1, LooksKeep
  <2>3. xdebug_hash_apply' = xdebug_hash_apply
    BY <2>1 DEF xdebug_hash_apply, Places, At
  <2>4. Range(released') = {}
    BY <2>1 DEF Range
  <2> QED
    BY <2>1, <2>2, <2>3, <2>4 DEF Map!Find
<1>8. CASE xdebug_hash_destroy
  <2>1. /\ \A key \in Keys : Found(key)' = NULL
        /\ Range(released') = IF HasDtor THEN Stored ELSE {}
        /\ found' = NULL
    BY <1>8, DestroySets DEF IInv, xdebug_hash_destroy
  <2>2. Stored = Range(values) \ {NULL}
    BY <1>2 DEF VisitsPairs, Range
  <2>3. Range(released') = Map!Destroyed(Range(values))
    BY <2>1, <2>2 DEF Map!Destroyed
  <2>4. Map!Clear
    BY <1>1, <2>1, <2>3 DEF Map!Clear, Map!Range, Range
  <2> QED
    BY <2>4 DEF Map!Next
<1>9. CASE UNCHANGED vars
  <2>1. UNCHANGED Map!vars
    BY <1>9 DEF vars, Map!vars, Found, xdebug_hash_apply, Places, At, Range
  <2> QED
    BY <2>1
<1> QED
  BY <1>5, <1>6, <1>7, <1>8, <1>9 DEF Next, Map!Next

(* The table implements a map, for any keys, slots and way of hashing.     *)
THEOREM Refinement == Spec => ImplementsMap
BY InitRefines, NextRefines, Invariance, PTL DEF Spec, ImplementsMap, Map!Spec
=============================================================================
