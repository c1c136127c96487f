-------------------------- MODULE XdebugLlistProofs -------------------------
(***************************************************************************)
(* Proofs about XdebugLlist, for any number of addresses and values.       *)
(***************************************************************************)
EXTENDS XdebugLlist, FiniteSetTheorems, SequenceTheorems, WellFoundedInduction, TLAPS

(***************************************************************************)
(* The inductive invariant.  WellLinked speaks of neighbours only: a list  *)
(* of one element beside a ring of two satisfies it, and removing the      *)
(* element would not.  So every element is given a place between head and  *)
(* tail that its neighbours' places agree with.                            *)
(***************************************************************************)
InPlace(place) ==
    /\ \A e \in Elements : place[e] \in 1..list.size
    /\ \A e, f \in Elements : place[e] = place[f] => e = f
    /\ \A k \in 1..list.size : \E e \in Elements : place[e] = k
    /\ \A e \in Elements :
          /\ heap[e].prev = NULL <=> place[e] = 1
          /\ heap[e].next = NULL <=> place[e] = list.size
          /\ heap[e].prev # NULL => place[heap[e].prev] = place[e] - 1
          /\ heap[e].next # NULL => place[heap[e].next] = place[e] + 1
    /\ list.size > 0 =>
          /\ list.head \in Elements /\ place[list.head] = 1
          /\ list.tail \in Elements /\ place[list.tail] = list.size
    /\ list.size = 0 => list.head = NULL /\ list.tail = NULL

Counted ==
    /\ IsFiniteSet(Elements)
    /\ list.size = Cardinality(Elements)

IInv ==
    /\ TypeOK
    /\ Counted
    /\ \E place : InPlace(place)
-----------------------------------------------------------------------------
(* The walk from the head.  It is defined by recursion; that it finds the  *)
(* element at each place is shown by exhibiting the function that does,    *)
(* and looking at the first position at which the two would differ.        *)

(* A set of numbers that is not empty has a least element. *)
LEMMA Least ==
  ASSUME NEW T \in SUBSET Nat, T # {}
  PROVE  \E x \in T : \A y \in T : x <= y
  <1> DEFINE Less == OpToRel(<, Nat)
  <1>1. IsWellFoundedOn(Less, Nat) BY NatLessThanWellFounded
  <1>2. \A x, y \in Nat : <<x, y>> \in Less <=> x < y BY DEF OpToRel
  <1> HIDE DEF Less
  <1>3. PICK x \in T : \A y \in T : ~ (<<y, x>> \in Less) BY <1>1, WFMin
  <1>4. \A y \in T : ~ (y < x) BY <1>2, <1>3
  <1> HIDE <1>2
  <1>5. x \in Nat /\ \A y \in T : y \in Nat BY <1>3
  <1> QED BY <1>3, <1>4, <1>5

(* A function that starts at the head and follows next is the walk. *)
LEMMA JumpIs ==
  ASSUME list.size \in Nat, NEW w,
         w = [pos \in 0..(list.size - 1) |-> w[pos]],
         list.size > 0 => w[0] = list.head,
         \A pos \in 1..(list.size - 1) : w[pos] = heap[w[pos - 1]].next
  PROVE  jump_head = w
  <1> DEFINE Eq(g) == [pos \in 0..(list.size - 1) |->
                          IF pos = 0 THEN list.head ELSE heap[g[pos - 1]].next]
  <1>1. w = Eq(w)
    <2>1. \A pos \in 0..(list.size - 1) :
            w[pos] = IF pos = 0 THEN list.head ELSE heap[w[pos - 1]].next
      <3> SUFFICES ASSUME NEW pos \in 0..(list.size - 1)
                   PROVE  w[pos] = IF pos = 0 THEN list.head ELSE heap[w[pos - 1]].next
        OBVIOUS
      <3>1. list.size > 0 /\ (pos = 0 \/ pos \in 1..(list.size - 1)) OBVIOUS
      <3>2. pos \in 1..(list.size - 1) => pos # 0 OBVIOUS
      <3> QED BY <3>1, <3>2, Zenon
    <2> QED BY <2>1, Zenon
  <1>2. jump_head = CHOOSE g : g = Eq(g) BY DEF jump_head
  <1> DEFINE f == jump_head
  <1>3. f = Eq(f)
    <2> HIDE DEF Eq
    <2> QED BY <1>1, <1>2, Zenon
  <1> HIDE DEF f
  <1>4. /\ f = [pos \in 0..(list.size - 1) |-> f[pos]]
        /\ list.size > 0 => f[0] = list.head
        /\ \A pos \in 1..(list.size - 1) : f[pos] = heap[f[pos - 1]].next
    <2>1. \A pos \in 0..(list.size - 1) : f[pos] = Eq(f)[pos] BY <1>3, Zenon
    <2>2. f = [pos \in 0..(list.size - 1) |-> f[pos]] BY <1>3, Zenon
    <2>3. list.size > 0 => 0 \in 0..(list.size - 1) OBVIOUS
    <2>4. \A pos \in 1..(list.size - 1) : pos \in 0..(list.size - 1) /\ pos # 0 OBVIOUS
    <2> QED BY <2>1, <2>2, <2>3, <2>4, Zenon
  <1> HIDE DEF Eq
  <1>5. \A pos \in 0..(list.size - 1) : f[pos] = w[pos]
    <2> DEFINE T == {pos \in 0..(list.size - 1) : f[pos] # w[pos]}
    <2> SUFFICES ASSUME T # {} PROVE FALSE OBVIOUS
    <2>1. T \in SUBSET Nat OBVIOUS
    <2>2. PICK x \in T : \A y \in T : x <= y BY <2>1, Least
    <2>3. x \in 0..(list.size - 1) /\ f[x] # w[x] OBVIOUS
    <2>4. x # 0 BY <2>3, <1>4
    <2>5. x \in 1..(list.size - 1) /\ x - 1 \in 0..(list.size - 1) /\ ~ (x <= x - 1)
      BY <2>3, <2>4
    <2>6. f[x - 1] = w[x - 1] BY <2>2, <2>5
    <2> QED BY <2>3, <2>5, <2>6, <1>4
  <1>6. f = w BY <1>4, <1>5, Zenon
  <1> QED BY <1>6 DEF f

(* What the place of an element says of the walk and the values on it. *)
Listed(place) ==
    /\ Items \in Seq(Values)
    /\ Len(Items) = list.size
    /\ \A x \in Elements : Items[place[x]] = heap[x].ptr

(* The walk passes each element at its place. *)
LEMMA ItemsAreListed == IInv => \A place : InPlace(place) => Listed(place)
  <1> SUFFICES ASSUME IInv, NEW place, InPlace(place) PROVE Listed(place) OBVIOUS
  <1>1. list.size \in Nat BY DEF IInv, TypeOK
  <1>2. PICK w : w = [pos \in 0..(list.size - 1) |->
                        CHOOSE x \in Elements : place[x] = pos + 1]
    OBVIOUS
  <1>3. \A pos \in 0..(list.size - 1) : w[pos] \in Elements /\ place[w[pos]] = pos + 1
    <2> SUFFICES ASSUME NEW pos \in 0..(list.size - 1)
                 PROVE  w[pos] \in Elements /\ place[w[pos]] = pos + 1
      OBVIOUS
    <2>1. pos + 1 \in 1..list.size BY <1>1
    <2>2. \E x \in Elements : place[x] = pos + 1 BY <2>1 DEF InPlace
    <2>3. w[pos] = CHOOSE x \in Elements : place[x] = pos + 1 BY <1>2
    <2> QED BY <2>2, <2>3
  <1>4. \A x, y \in Elements : place[x] = place[y] => x = y BY DEF InPlace
  <1>5. list.size > 0 => w[0] = list.head
    <2> HAVE list.size > 0
    <2>1. 0 \in 0..(list.size - 1) BY <1>1
    <2>2. w[0] \in Elements /\ place[w[0]] = 1 BY <1>3, <2>1
    <2>3. list.head \in Elements /\ place[list.head] = 1 BY DEF InPlace
    <2> QED BY <1>4, <2>2, <2>3
  <1>6. ASSUME NEW pos \in 1..(list.size - 1)
        PROVE  w[pos] = heap[w[pos - 1]].next
    <2>1. pos \in 0..(list.size - 1) /\ pos - 1 \in 0..(list.size - 1) BY <1>1
    <2>2. PICK x : x = w[pos - 1] OBVIOUS
    <2>3. x \in Elements /\ place[x] = pos
      <3>1. (pos - 1) + 1 = pos BY <1>1
      <3> QED BY <1>3, <2>1, <2>2, <3>1
    <2>4. place[x] # list.size BY <1>1, <2>3
    <2>5. heap[x].next # NULL /\ place[heap[x].next] = pos + 1
      BY <2>3, <2>4 DEF InPlace
    <2>6. heap[x].next \in Elements BY <2>3, <2>5 DEF IInv, TypeOK
    <2>7. w[pos] \in Elements /\ place[w[pos]] = pos + 1 BY <1>3, <2>1
    <2> QED BY <1>4, <2>2, <2>5, <2>6, <2>7
  <1>7. w = [pos \in 0..(list.size - 1) |-> w[pos]] BY <1>2
  <1>8. jump_head = w BY <1>1, <1>5, <1>6, <1>7, JumpIs
  <1>9. \A k \in 1..list.size : jump_head[k - 1] \in Elements /\ place[jump_head[k - 1]] = k
    <2> SUFFICES ASSUME NEW k \in 1..list.size
                 PROVE  jump_head[k - 1] \in Elements /\ place[jump_head[k - 1]] = k
      OBVIOUS
    <2>1. k - 1 \in 0..(list.size - 1) /\ (k - 1) + 1 = k BY <1>1
    <2> QED BY <1>3, <1>8, <2>1
  <1>10. Items = [k \in 1..list.size |-> heap[jump_head[k - 1]].ptr] BY DEF Items
  <1>11. \A k \in 1..list.size : heap[jump_head[k - 1]].ptr \in Values
    BY <1>9 DEF IInv, TypeOK
  <1>12. Items \in [1..list.size -> Values] BY <1>10, <1>11
  <1>13. Items \in Seq(Values) /\ Len(Items) = list.size BY <1>1, <1>12
  <1>14. ASSUME NEW x \in Elements
         PROVE  Items[place[x]] = heap[x].ptr
    <2>1. place[x] \in 1..list.size BY DEF InPlace
    <2>2. jump_head[place[x] - 1] = x BY <1>4, <1>9, <2>1
    <2> QED BY <1>10, <2>1, <2>2
  <1> QED BY <1>13, <1>14 DEF Listed

(* So it is after a step, with the places that the step leaves. *)
LEMMA ItemsStayListed == IInv' => \A place : InPlace(place)' => Listed(place)'
  <1>1. (IInv => \A place : InPlace(place) => Listed(place))' BY ItemsAreListed, PTL
  <1> QED BY <1>1, Zenon

(* A sequence with s in order around v at k is s with v inserted at k. *)
LEMMA IsInsertAt ==
  ASSUME NEW s \in Seq(Values), NEW t \in Seq(Values), NEW v \in Values,
         NEW k \in 1..(Len(s) + 1), Len(t) = Len(s) + 1, t[k] = v,
         \A i \in 1..Len(s) : t[IF i < k THEN i ELSE i + 1] = s[i]
  PROVE  t = Sequence!InsertAt(s, k, v)
  <1>1. PICK n, a, b, c : /\ n = Len(s)
                          /\ a = SubSeq(s, 1, k - 1)
                          /\ b = << v >>
                          /\ c = SubSeq(s, k, n)
    OBVIOUS
  <1>2. n \in Nat /\ \A i \in 1..n : s[i] \in Values BY <1>1
  <1>3. /\ a \in Seq(Values) /\ Len(a) = k - 1
        /\ \A i \in 1..(k - 1) : a[i] = s[i]
    <2>1. \A i \in 1..(k - 1) : s[i] \in Values BY <1>1, <1>2
    <2>2. /\ SubSeq(s, 1, k - 1) \in Seq(Values)
          /\ Len(SubSeq(s, 1, k - 1)) = IF 1 <= k - 1 THEN k - 1 - 1 + 1 ELSE 0
          /\ \A i \in 1..(k - 1 - 1 + 1) : SubSeq(s, 1, k - 1)[i] = s[1 + i - 1]
      BY <2>1, SubSeqProperties
    <2>3. \A i \in 1..(k - 1) : i \in 1..(k - 1 - 1 + 1) /\ 1 + i - 1 = i OBVIOUS
    <2> QED BY <1>1, <2>2, <2>3
  <1>4. b \in Seq(Values) /\ Len(b) = 1 /\ b[1] = v BY <1>1
  <1>5. /\ c \in Seq(Values) /\ Len(c) = n - k + 1
        /\ \A i \in 1..(n - k + 1) : c[i] = s[k + i - 1]
    <2>1. \A i \in k..n : s[i] \in Values BY <1>1, <1>2
    <2>2. /\ SubSeq(s, k, n) \in Seq(Values)
          /\ Len(SubSeq(s, k, n)) = IF k <= n THEN n - k + 1 ELSE 0
          /\ \A i \in 1..(n - k + 1) : SubSeq(s, k, n)[i] = s[k + i - 1]
      BY <1>2, <2>1, SubSeqProperties
    <2> QED BY <1>1, <1>2, <2>2
  <1>6. PICK d : d = a \o b OBVIOUS
  <1>7. /\ d \in Seq(Values) /\ Len(d) = k
        /\ \A i \in 1..k : d[i] = IF i < k THEN s[i] ELSE v
    <2>0. /\ a \o b \in Seq(Values)
          /\ Len(a \o b) = Len(a) + Len(b)
          /\ \A i \in 1..(Len(a) + Len(b)) : (a \o b)[i] = IF i <= Len(a) THEN a[i] ELSE b[i - Len(a)]
      BY <1>3, <1>4, ConcatProperties
    <2>1. /\ d \in Seq(Values) /\ Len(d) = k - 1 + 1
          /\ \A i \in 1..(k - 1 + 1) : d[i] = IF i <= k - 1 THEN a[i] ELSE b[i - (k - 1)]
      BY <2>0, <1>3, <1>4, <1>6
    <2>2. ASSUME NEW i \in 1..k PROVE d[i] = IF i < k THEN s[i] ELSE v
      <3>1. CASE i < k BY <3>1, <1>3, <2>1
      <3>2. CASE i = k
        <4>1. i - (k - 1) = 1 /\ ~ (i <= k - 1) /\ i \in 1..(k - 1 + 1) BY <3>2
        <4> QED BY <3>2, <4>1, <1>4, <2>1
      <3> QED BY <3>1, <3>2
    <2> QED BY <2>1, <2>2
  <1>8. PICK e : e = d \o c OBVIOUS
  <1>9. /\ e \in Seq(Values) /\ Len(e) = n + 1
        /\ \A i \in 1..(n + 1) : e[i] = IF i <= k THEN d[i] ELSE c[i - k]
    <2>1. /\ d \o c \in Seq(Values)
          /\ Len(d \o c) = Len(d) + Len(c)
          /\ \A i \in 1..(Len(d) + Len(c)) : (d \o c)[i] = IF i <= Len(d) THEN d[i] ELSE c[i - Len(d)]
      BY <1>5, <1>7, ConcatProperties
    <2>2. Len(d) + Len(c) = n + 1 BY <1>2, <1>5, <1>7
    <2> QED BY <2>1, <2>2, <1>7, <1>8
  <1>10. ASSUME NEW i \in 1..(n + 1) PROVE t[i] = e[i]
    <2>1. CASE i < k
      <3>1. i \in 1..n /\ i \in 1..k /\ i <= k BY <2>1, <1>1, <1>2
      <3>2. t[i] = s[i] BY <2>1, <3>1, <1>1
      <3> QED BY <2>1, <3>1, <3>2, <1>7, <1>9
    <2>2. CASE i = k BY <2>2, <1>7, <1>9
    <2>3. CASE i > k
      <3>1. PICK j : j = i - 1 OBVIOUS
      <3>2. j \in 1..n /\ ~ (j < k) /\ j + 1 = i BY <2>3, <3>1, <1>1, <1>2
      <3>3. t[i] = s[j] BY <3>2, <1>1
      <3>4. i - k \in 1..(n - k + 1) /\ k + (i - k) - 1 = j BY <2>3, <3>1, <1>1, <1>2
      <3>5. e[i] = c[i - k] BY <2>3, <1>9
      <3>6. c[i - k] = s[j] BY <3>4, <1>5
      <3> QED BY <3>3, <3>5, <3>6
    <2> QED BY <2>1, <2>2, <2>3, <1>1, <1>2
  <1>11. t = e BY <1>1, <1>9, <1>10, SeqEqual
  <1> QED BY <1>1, <1>6, <1>8, <1>11 DEF Sequence!InsertAt

(* A sequence with s in order, but for k, is s with k removed. *)
LEMMA IsRemoveAt ==
  ASSUME NEW s \in Seq(Values), NEW t \in Seq(Values),
         NEW k \in 1..Len(s), Len(t) = Len(s) - 1,
         \A i \in 1..Len(s) : i # k => t[IF i < k THEN i ELSE i - 1] = s[i]
  PROVE  t = Sequence!RemoveAt(s, k)
  <1>1. PICK n, a, c : /\ n = Len(s)
                       /\ a = SubSeq(s, 1, k - 1)
                       /\ c = SubSeq(s, k + 1, n)
    OBVIOUS
  <1>2. n \in Nat /\ \A i \in 1..n : s[i] \in Values BY <1>1
  <1>3. /\ a \in Seq(Values) /\ Len(a) = k - 1
        /\ \A i \in 1..(k - 1) : a[i] = s[i]
    <2>1. \A i \in 1..(k - 1) : s[i] \in Values BY <1>1, <1>2
    <2>2. /\ SubSeq(s, 1, k - 1) \in Seq(Values)
          /\ Len(SubSeq(s, 1, k - 1)) = IF 1 <= k - 1 THEN k - 1 - 1 + 1 ELSE 0
          /\ \A i \in 1..(k - 1 - 1 + 1) : SubSeq(s, 1, k - 1)[i] = s[1 + i - 1]
      BY <2>1, SubSeqProperties
    <2>3. \A i \in 1..(k - 1) : i \in 1..(k - 1 - 1 + 1) /\ 1 + i - 1 = i OBVIOUS
    <2> QED BY <1>1, <2>2, <2>3
  <1>4. /\ c \in Seq(Values) /\ Len(c) = n - k
        /\ \A i \in 1..(n - k) : c[i] = s[k + i]
    <2>1. \A i \in (k + 1)..n : s[i] \in Values BY <1>1, <1>2
    <2>2. /\ SubSeq(s, k + 1, n) \in Seq(Values)
          /\ Len(SubSeq(s, k + 1, n)) = IF k + 1 <= n THEN n - (k + 1) + 1 ELSE 0
          /\ \A i \in 1..(n - (k + 1) + 1) : SubSeq(s, k + 1, n)[i] = s[(k + 1) + i - 1]
      BY <1>2, <2>1, SubSeqProperties
    <2>3. \A i \in 1..(n - k) : i \in 1..(n - (k + 1) + 1) /\ (k + 1) + i - 1 = k + i
      BY <1>2
    <2> QED BY <1>1, <1>2, <2>2, <2>3
  <1>5. PICK e : e = a \o c OBVIOUS
  <1>6. /\ e \in Seq(Values) /\ Len(e) = n - 1
        /\ \A i \in 1..(n - 1) : e[i] = IF i <= k - 1 THEN a[i] ELSE c[i - (k - 1)]
    <2>1. k - 1 + (n - k) = n - 1 BY <1>2
    <2>2. /\ a \o c \in Seq(Values)
          /\ Len(a \o c) = Len(a) + Len(c)
          /\ \A i \in 1..(Len(a) + Len(c)) : (a \o c)[i] = IF i <= Len(a) THEN a[i] ELSE c[i - Len(a)]
      BY <1>3, <1>4, ConcatProperties
    <2>3. Len(a) + Len(c) = n - 1 BY <2>1, <1>3, <1>4
    <2> QED BY <2>2, <2>3, <1>3, <1>5
  <1>7. ASSUME NEW i \in 1..(n - 1) PROVE t[i] = e[i]
    <2>1. CASE i < k
      <3>1. i \in 1..n /\ i # k /\ i \in 1..(k - 1) /\ i <= k - 1 BY <2>1, <1>1, <1>2
      <3>2. t[i] = s[i] BY <2>1, <3>1, <1>1
      <3> QED BY <3>1, <3>2, <1>3, <1>6
    <2>2. CASE ~ (i < k)
      <3>1. PICK j : j = i + 1 OBVIOUS
      <3>2. j \in 1..n /\ j # k /\ ~ (j < k) /\ j - 1 = i BY <2>2, <3>1, <1>1, <1>2
      <3>3. t[i] = s[j] BY <3>2, <1>1
      <3>4. PICK l : l = i - (k - 1) OBVIOUS
      <3>5. l \in 1..(n - k) /\ k + l = j /\ ~ (i <= k - 1) BY <2>2, <3>1, <3>4, <1>1, <1>2
      <3>6. e[i] = c[l] BY <3>4, <3>5, <1>6
      <3>7. c[l] = s[j] BY <3>5, <1>4
      <3> QED BY <3>3, <3>6, <3>7
    <2> QED BY <2>1, <2>2
  <1>8. t = e BY <1>1, <1>6, <1>7, SeqEqual
  <1> QED BY <1>1, <1>5, <1>8 DEF Sequence!RemoveAt
-----------------------------------------------------------------------------
(* What an insertion of ne with the value v between p and q, and a removal *)
(* of e do, in one form for all cases of the code.                         *)
IsElement(r) == r = [ptr |-> r.ptr, prev |-> r.prev, next |-> r.next]

Inserted(p, q, ne, v) ==
    /\ list' = [head |-> IF p = NULL THEN ne ELSE list.head,
                tail |-> IF q = NULL THEN ne ELSE list.tail,
                size |-> list.size + 1]
    /\ Elements' = Elements \cup {ne}
    /\ heap'[ne] = [ptr |-> v, prev |-> p, next |-> q]
    /\ \A x \in Elements : IsElement(heap'[x])
    /\ \A x \in Elements :
          /\ heap'[x].ptr = heap[x].ptr
          /\ heap'[x].prev = IF x = q THEN ne ELSE heap[x].prev
          /\ heap'[x].next = IF x = p THEN ne ELSE heap[x].next

(* p and q are at the places k - 1 and k, or beyond the ends. *)
Neighbours(p, q, place, k) ==
    /\ \/ p = NULL /\ k = 1
       \/ p \in Elements /\ place[p] = k - 1
    /\ \/ q = NULL /\ k = list.size + 1
       \/ q \in Elements /\ place[q] = k

Removed(e) ==
    /\ list' = [head |-> IF heap[e].prev = NULL THEN heap[e].next ELSE list.head,
                tail |-> IF heap[e].next = NULL THEN heap[e].prev ELSE list.tail,
                size |-> list.size - 1]
    /\ Elements' = Elements \ {e}
    /\ \A x \in Elements' : IsElement(heap'[x])
    /\ \A x \in Elements' :
          /\ heap'[x].ptr = heap[x].ptr
          /\ heap'[x].prev = IF x = heap[e].next THEN heap[e].prev ELSE heap[x].prev
          /\ heap'[x].next = IF x = heap[e].prev THEN heap[e].next ELSE heap[x].next

(* Whatever is inserted between two neighbours has a place in the list. *)
LEMMA InsertedKeeps ==
  ASSUME IInv,
         NEW ne \in Addresses \ Elements, NEW v \in Values,
         NEW p \in Elements \cup {NULL}, NEW q \in Elements \cup {NULL},
         NEW place, InPlace(place),
         NEW k \in 1..(list.size + 1), Neighbours(p, q, place, k),
         Inserted(p, q, ne, v),
         emptying' \in BOOLEAN, released' \in Values \cup {NULL}
  PROVE  /\ IInv'
         /\ k \in 1..(Len(Items) + 1)
         /\ Items' = Sequence!InsertAt(Items, k, v)
  <1> USE LlistAssumption
  <1>1. list.size \in Nat /\ list'.size = list.size + 1 BY DEF IInv, TypeOK, Inserted
  <1>2. TypeOK'
    <2>1. list' \in [head : Elements' \cup {NULL}, tail : Elements' \cup {NULL}, size : Nat]
      BY <1>1 DEF IInv, TypeOK, Inserted
    <2>2. Elements' \subseteq Addresses BY DEF IInv, TypeOK, Inserted
    <2>3. heap'[ne] \in [ptr : Values, prev : Elements' \cup {NULL}, next : Elements' \cup {NULL}]
      BY DEF Inserted
    <2>4. ASSUME NEW x \in Elements
          PROVE  heap'[x] \in [ptr : Values, prev : Elements' \cup {NULL}, next : Elements' \cup {NULL}]
      <3>1. heap[x] \in [ptr : Values, prev : Elements \cup {NULL}, next : Elements \cup {NULL}]
        BY DEF IInv, TypeOK
      <3>2. /\ heap'[x].ptr \in Values
            /\ heap'[x].prev \in Elements' \cup {NULL}
            /\ heap'[x].next \in Elements' \cup {NULL}
        BY <3>1 DEF Inserted
      <3>3. heap'[x] = [ptr |-> heap'[x].ptr, prev |-> heap'[x].prev, next |-> heap'[x].next]
        BY DEF Inserted, IsElement
      <3> QED BY <3>2, <3>3
    <2> QED BY <2>1, <2>2, <2>3, <2>4 DEF TypeOK, Inserted
  <1>3. Counted'
    <2>1. IsFiniteSet(Elements) /\ list.size = Cardinality(Elements) BY DEF IInv, Counted
    <2>2. IsFiniteSet(Elements \cup {ne})
          /\ Cardinality(Elements \cup {ne}) = Cardinality(Elements) + 1
      BY <2>1, FS_AddElement
    <2> QED BY <2>1, <2>2, <1>1 DEF Counted, Inserted
  <1>4. PICK after : after = [x \in Elements \cup {ne} |->
                                IF x = ne THEN k
                                ELSE IF place[x] < k THEN place[x] ELSE place[x] + 1]
    OBVIOUS
  <1>5. after[ne] = k /\ \A x \in Elements :
          after[x] = IF place[x] < k THEN place[x] ELSE place[x] + 1
    BY <1>4
  <1>6. \A x \in Elements : place[x] \in 1..list.size /\ x # NULL /\ x # ne
    BY DEF InPlace, IInv, TypeOK
  <1>7. InPlace(after)'
    <2>1. \A x \in Elements' : after[x] \in 1..list'.size
      BY <1>1, <1>5, <1>6 DEF Inserted
    <2>2. \A x, y \in Elements' : after[x] = after[y] => x = y
      <3> SUFFICES ASSUME NEW x \in Elements', NEW y \in Elements', after[x] = after[y]
                   PROVE  x = y
        OBVIOUS
      <3>1. CASE x = ne \/ y = ne BY <3>1, <1>1, <1>5, <1>6 DEF Inserted
      <3>2. CASE x # ne /\ y # ne
        <4>1. x \in Elements /\ y \in Elements BY <3>2 DEF Inserted
        <4>2. place[x] = place[y] BY <4>1, <1>1, <1>5, <1>6
        <4> QED BY <4>1, <4>2 DEF InPlace
      <3> QED BY <3>1, <3>2
    <2>3. \A j \in 1..list'.size : \E x \in Elements' : after[x] = j
      <3> SUFFICES ASSUME NEW j \in 1..(list.size + 1)
                   PROVE  \E x \in Elements \cup {ne} : after[x] = j
        BY <1>1 DEF Inserted
      <3>1. CASE j = k BY <3>1, <1>5
      <3>2. CASE j < k
        <4>1. j \in 1..list.size BY <3>2, <1>1
        <4>2. PICK x \in Elements : place[x] = j BY <4>1 DEF InPlace
        <4> QED BY <4>2, <3>2, <1>5
      <3>3. CASE j > k
        <4>1. j - 1 \in 1..list.size BY <3>3, <1>1
        <4>2. PICK x \in Elements : place[x] = j - 1 BY <4>1 DEF InPlace
        <4> QED BY <4>2, <3>3, <1>5, <1>1
      <3> QED BY <3>1, <3>2, <3>3, <1>1
    <2>4. ASSUME NEW x \in Elements'
          PROVE  /\ heap'[x].prev = NULL <=> after[x] = 1
                 /\ heap'[x].next = NULL <=> after[x] = list'.size
                 /\ heap'[x].prev # NULL => after[heap'[x].prev] = after[x] - 1
                 /\ heap'[x].next # NULL => after[heap'[x].next] = after[x] + 1
      <3>1. CASE x = ne
        <4>1. heap'[x].prev = p /\ heap'[x].next = q BY <3>1 DEF Inserted
        <4>2. p # NULL => after[p] = k - 1 /\ k > 1
          BY <1>1, <1>5, <1>6 DEF Neighbours
        <4>3. q # NULL => after[q] = k + 1 /\ k <= list.size
          BY <1>1, <1>5, <1>6 DEF Neighbours
        <4>4. (p = NULL <=> k = 1) /\ (q = NULL <=> k = list.size + 1)
          BY <1>1, <1>6 DEF Neighbours
        <4> QED BY <4>1, <4>2, <4>3, <4>4, <3>1, <1>1, <1>5
      <3>2. CASE x # ne
        <4>1. x \in Elements BY <3>2 DEF Inserted
        <4>2. /\ heap'[x].prev = IF x = q THEN ne ELSE heap[x].prev
              /\ heap'[x].next = IF x = p THEN ne ELSE heap[x].next
          BY <4>1 DEF Inserted
        <4>3. /\ heap[x].prev = NULL <=> place[x] = 1
              /\ heap[x].next = NULL <=> place[x] = list.size
              /\ heap[x].prev # NULL => place[heap[x].prev] = place[x] - 1
              /\ heap[x].next # NULL => place[heap[x].next] = place[x] + 1
              /\ heap[x].prev \in Elements \cup {NULL}
              /\ heap[x].next \in Elements \cup {NULL}
          BY <4>1 DEF InPlace, IInv, TypeOK
        <4>4. x = q <=> place[x] = k
          BY <4>1, <1>1, <1>6 DEF Neighbours, InPlace
        <4>5. x = p <=> place[x] = k - 1
          BY <4>1, <1>1, <1>6 DEF Neighbours, InPlace
        <4>6. /\ heap'[x].prev = NULL <=> after[x] = 1
              /\ heap'[x].prev # NULL => after[heap'[x].prev] = after[x] - 1
          <5>1. CASE x = q BY <5>1, <4>1, <4>2, <4>4, <1>1, <1>5, <1>6
          <5>2. CASE x # q
            <6>1. heap[x].prev # NULL => heap[x].prev \in Elements BY <4>3
            <6>2. place[x] # k /\ place[x] \in 1..list.size BY <5>2, <4>4, <4>1, <1>6
            <6>3. heap[x].prev = NULL <=> after[x] = 1
              BY <6>2, <4>3, <4>1, <1>5, <1>1, <4>5 DEF Neighbours
            <6>4. heap[x].prev # NULL => after[heap[x].prev] = after[x] - 1
              BY <6>1, <6>2, <4>3, <4>1, <1>5, <1>6, <1>1
            <6> QED BY <6>3, <6>4, <5>2, <4>2
          <5> QED BY <5>1, <5>2
        <4>7. /\ heap'[x].next = NULL <=> after[x] = list'.size
              /\ heap'[x].next # NULL => after[heap'[x].next] = after[x] + 1
          <5>1. CASE x = p BY <5>1, <4>1, <4>2, <4>5, <1>1, <1>5, <1>6
          <5>2. CASE x # p
            <6>1. heap[x].next # NULL => heap[x].next \in Elements BY <4>3
            <6>2. place[x] # k - 1 /\ place[x] \in 1..list.size BY <5>2, <4>5, <4>1, <1>6
            <6>3. heap[x].next = NULL <=> after[x] = list'.size
              BY <6>2, <4>3, <4>1, <1>5, <1>1
            <6>4. heap[x].next # NULL => after[heap[x].next] = after[x] + 1
              BY <6>1, <6>2, <4>3, <4>1, <1>5, <1>6, <1>1
            <6> QED BY <6>3, <6>4, <5>2, <4>2
          <5> QED BY <5>1, <5>2
        <4> QED BY <4>6, <4>7
      <3> QED BY <3>1, <3>2
    <2>5. /\ list'.head \in Elements' /\ after[list'.head] = 1
          /\ list'.tail \in Elements' /\ after[list'.tail] = list'.size
      <3>1. list'.head \in Elements' /\ after[list'.head] = 1
        <4>1. CASE p = NULL
          <5>1. k = 1 BY <4>1, <1>6 DEF Neighbours
          <5> QED BY <4>1, <5>1, <1>5 DEF Inserted
        <4>2. CASE p # NULL
          <5>1. p \in Elements /\ place[p] = k - 1 BY <4>2 DEF Neighbours
          <5>2. list.head \in Elements /\ place[list.head] = 1 /\ 1 < k
            BY <5>1, <1>1, <1>6 DEF InPlace
          <5> QED BY <4>2, <5>2, <1>5 DEF Inserted
        <4> QED BY <4>1, <4>2
      <3>2. list'.tail \in Elements' /\ after[list'.tail] = list'.size
        <4>1. CASE q = NULL
          <5>1. k = list.size + 1 BY <4>1, <1>6 DEF Neighbours
          <5> QED BY <4>1, <5>1, <1>1, <1>5 DEF Inserted
        <4>2. CASE q # NULL
          <5>1. q \in Elements /\ place[q] = k BY <4>2 DEF Neighbours
          <5>2. list.tail \in Elements /\ place[list.tail] = list.size /\ k <= list.size
            BY <5>1, <1>1, <1>6 DEF InPlace
          <5> QED BY <4>2, <5>2, <1>1, <1>5 DEF Inserted
        <4> QED BY <4>1, <4>2
      <3> QED BY <3>1, <3>2
    <2> QED BY <2>1, <2>2, <2>3, <2>4, <2>5, <1>1 DEF InPlace
  <1>8. IInv' BY <1>2, <1>3, <1>7 DEF IInv
  <1>9. Listed(place) BY ItemsAreListed
  <1>10. Listed(after)' BY <1>7, <1>8, ItemsStayListed
  <1>11. PICK s, t : s = Items /\ t = Items' OBVIOUS
  <1>12. /\ s \in Seq(Values) /\ Len(s) = list.size
         /\ t \in Seq(Values) /\ Len(t) = list.size + 1
    BY <1>1, <1>9, <1>10, <1>11 DEF Listed
  <1>13. t[k] = v
    <2>1. ne \in Elements' /\ heap'[ne].ptr = v BY DEF Inserted
    <2> QED BY <2>1, <1>5, <1>10, <1>11 DEF Listed
  <1>14. ASSUME NEW i \in 1..Len(s)
         PROVE  t[IF i < k THEN i ELSE i + 1] = s[i]
    <2>1. PICK x \in Elements : place[x] = i BY <1>12 DEF InPlace
    <2>2. s[i] = heap[x].ptr BY <2>1, <1>9, <1>11 DEF Listed
    <2>3. x \in Elements' /\ heap'[x].ptr = heap[x].ptr BY DEF Inserted
    <2>4. t[after[x]] = heap'[x].ptr BY <2>3, <1>10, <1>11 DEF Listed
    <2>5. after[x] = IF i < k THEN i ELSE i + 1 BY <2>1, <1>5
    <2> QED BY <2>2, <2>3, <2>4, <2>5
  <1>15. t = Sequence!InsertAt(s, k, v) BY <1>12, <1>13, <1>14, IsInsertAt
  <1> QED BY <1>8, <1>11, <1>12, <1>15

(* Whatever is removed, the others have a place in what is left. *)
LEMMA RemovedKeeps ==
  ASSUME IInv, NEW e \in Elements, NEW place, InPlace(place), Removed(e),
         emptying' \in BOOLEAN, released' \in Values \cup {NULL}
  PROVE  /\ IInv'
         /\ place[e] \in DOMAIN Items
         /\ heap[e].ptr = Items[place[e]]
         /\ Items' = Sequence!RemoveAt(Items, place[e])
  <1> USE LlistAssumption
  <1>1. list.size \in Nat /\ list'.size = list.size - 1 /\ Elements' = Elements \ {e}
    BY DEF IInv, TypeOK, Removed
  <1>2. \A x \in Elements :
          /\ place[x] \in 1..list.size /\ x # NULL
          /\ heap[x].prev = NULL <=> place[x] = 1
          /\ heap[x].next = NULL <=> place[x] = list.size
          /\ heap[x].prev # NULL => place[heap[x].prev] = place[x] - 1
          /\ heap[x].next # NULL => place[heap[x].next] = place[x] + 1
          /\ heap[x].ptr \in Values
          /\ heap[x].prev \in Elements \cup {NULL}
          /\ heap[x].next \in Elements \cup {NULL}
    BY DEF InPlace, IInv, TypeOK
  <1>3. \A x, y \in Elements : place[x] = place[y] => x = y
    BY DEF InPlace
  <1>4. \A x \in Elements :
          /\ x = heap[e].next <=> place[x] = place[e] + 1
          /\ x = heap[e].prev <=> place[x] = place[e] - 1
    <2> SUFFICES ASSUME NEW x \in Elements
                 PROVE  /\ x = heap[e].next <=> place[x] = place[e] + 1
                        /\ x = heap[e].prev <=> place[x] = place[e] - 1
      OBVIOUS
    <2>1. x = heap[e].next <=> place[x] = place[e] + 1
      <3>1. CASE heap[e].next = NULL BY <3>1, <1>1, <1>2
      <3>2. CASE heap[e].next # NULL BY <3>2, <1>1, <1>2, <1>3
      <3> QED BY <3>1, <3>2
    <2>2. x = heap[e].prev <=> place[x] = place[e] - 1
      <3>1. CASE heap[e].prev = NULL BY <3>1, <1>1, <1>2
      <3>2. CASE heap[e].prev # NULL BY <3>2, <1>1, <1>2, <1>3
      <3> QED BY <3>1, <3>2
    <2> QED BY <2>1, <2>2
  <1>5. \A x \in Elements' :
          /\ heap'[x].ptr = heap[x].ptr
          /\ heap'[x].prev = IF x = heap[e].next THEN heap[e].prev ELSE heap[x].prev
          /\ heap'[x].next = IF x = heap[e].prev THEN heap[e].next ELSE heap[x].next
    BY DEF Removed
  <1>6. \A x \in Elements' :
          /\ heap'[x].ptr \in Values
          /\ heap'[x].prev \in Elements' \cup {NULL}
          /\ heap'[x].next \in Elements' \cup {NULL}
    <2> SUFFICES ASSUME NEW x \in Elements'
                 PROVE  /\ heap'[x].ptr \in Values
                        /\ heap'[x].prev \in Elements' \cup {NULL}
                        /\ heap'[x].next \in Elements' \cup {NULL}
      OBVIOUS
    <2>1. x \in Elements /\ x # e BY <1>1
    <2>2. heap[e].prev # e /\ heap[e].next # e BY <1>2, <1>1
    <2>3. x # heap[e].next => heap[x].prev # e
      BY <2>1, <1>1, <1>2, <1>4
    <2>4. x # heap[e].prev => heap[x].next # e
      BY <2>1, <1>1, <1>2, <1>4
    <2> QED BY <2>1, <2>2, <2>3, <2>4, <1>1, <1>2, <1>5
  <1>7. list.size > 0 /\ place[e] \in 1..list.size BY <1>1, <1>2
  <1>8. /\ list.head \in Elements /\ place[list.head] = 1
        /\ list.tail \in Elements /\ place[list.tail] = list.size
    BY <1>7 DEF InPlace
  <1>9. /\ list'.head = IF heap[e].prev = NULL THEN heap[e].next ELSE list.head
        /\ list'.tail = IF heap[e].next = NULL THEN heap[e].prev ELSE list.tail
    BY DEF Removed
  <1>10. list'.head \in Elements' \cup {NULL} /\ list'.tail \in Elements' \cup {NULL}
    BY <1>1, <1>2, <1>8, <1>9
  <1>11. TypeOK'
    <2>1. list' \in [head : Elements' \cup {NULL}, tail : Elements' \cup {NULL}, size : Nat]
      <3>1. list' = [head |-> list'.head, tail |-> list'.tail, size |-> list'.size]
        BY DEF Removed
      <3> QED BY <3>1, <1>1, <1>7, <1>10
    <2>2. Elements' \subseteq Addresses BY <1>1 DEF IInv, TypeOK
    <2>3. ASSUME NEW x \in Elements'
          PROVE  heap'[x] \in [ptr : Values, prev : Elements' \cup {NULL}, next : Elements' \cup {NULL}]
      <3>1. heap'[x] = [ptr |-> heap'[x].ptr, prev |-> heap'[x].prev, next |-> heap'[x].next]
        BY DEF Removed, IsElement
      <3> QED BY <3>1, <1>6
    <2> QED BY <2>1, <2>2, <2>3 DEF TypeOK
  <1>12. Counted'
    <2>1. IsFiniteSet(Elements) /\ list.size = Cardinality(Elements) BY DEF IInv, Counted
    <2>2. IsFiniteSet(Elements \ {e}) /\ Cardinality(Elements \ {e}) = Cardinality(Elements) - 1
      BY <2>1, FS_RemoveElement
    <2> QED BY <2>1, <2>2, <1>1 DEF Counted
  <1>13. PICK after : after = [x \in Elements |->
                                 IF place[x] < place[e] THEN place[x] ELSE place[x] - 1]
    OBVIOUS
  <1>14. \A x \in Elements :
           after[x] = IF place[x] < place[e] THEN place[x] ELSE place[x] - 1
    BY <1>13
  <1>15. \A x \in Elements' : x \in Elements /\ place[x] # place[e]
    BY <1>1, <1>3
  <1>16. InPlace(after)'
    <2>1. \A x \in Elements' : after[x] \in 1..list'.size
      BY <1>1, <1>2, <1>7, <1>14, <1>15
    <2>2. \A x, y \in Elements' : after[x] = after[y] => x = y
      <3> SUFFICES ASSUME NEW x \in Elements', NEW y \in Elements', after[x] = after[y]
                   PROVE  x = y
        OBVIOUS
      <3>1. place[x] = place[y] BY <1>1, <1>2, <1>7, <1>14, <1>15
      <3> QED BY <3>1, <1>3, <1>15
    <2>3. \A j \in 1..list'.size : \E x \in Elements' : after[x] = j
      <3> SUFFICES ASSUME NEW j \in 1..(list.size - 1)
                   PROVE  \E x \in Elements \ {e} : after[x] = j
        BY <1>1
      <3>1. CASE j < place[e]
        <4>1. j \in 1..list.size BY <1>1
        <4>2. PICK x \in Elements : place[x] = j BY <4>1 DEF InPlace
        <4> QED BY <4>2, <3>1, <1>14
      <3>2. CASE j >= place[e]
        <4>1. j + 1 \in 1..list.size BY <1>1
        <4>2. PICK x \in Elements : place[x] = j + 1 BY <4>1 DEF InPlace
        <4>3. ~(place[x] < place[e]) /\ place[x] # place[e] /\ place[x] - 1 = j
          BY <4>2, <3>2, <1>7
        <4> QED BY <4>3, <1>14
      <3> QED BY <3>1, <3>2, <1>7
    <2>4. ASSUME NEW x \in Elements'
          PROVE  /\ heap'[x].prev = NULL <=> after[x] = 1
                 /\ heap'[x].prev # NULL => after[heap'[x].prev] = after[x] - 1
      <3>1. CASE x = heap[e].next
        <4>1. heap'[x].prev = heap[e].prev /\ place[x] = place[e] + 1
          BY <3>1, <1>4, <1>5, <1>15
        <4> QED BY <4>1, <1>2, <1>7, <1>14, <1>15
      <3>2. CASE x # heap[e].next
        <4>1. heap'[x].prev = heap[x].prev /\ place[x] # place[e] + 1
          BY <3>2, <1>4, <1>5, <1>15
        <4>2. heap[x].prev # NULL => heap[x].prev \in Elements BY <1>2, <1>15
        <4>3. heap[x].prev = NULL <=> after[x] = 1
          BY <4>1, <1>2, <1>7, <1>14, <1>15
        <4>4. heap[x].prev # NULL => after[heap[x].prev] = after[x] - 1
          BY <4>1, <4>2, <1>2, <1>7, <1>14, <1>15
        <4> QED BY <4>1, <4>3, <4>4
      <3> QED BY <3>1, <3>2
    <2>5. ASSUME NEW x \in Elements'
          PROVE  /\ heap'[x].next = NULL <=> after[x] = list'.size
                 /\ heap'[x].next # NULL => after[heap'[x].next] = after[x] + 1
      <3>1. CASE x = heap[e].prev
        <4>1. heap'[x].next = heap[e].next /\ place[x] = place[e] - 1
          BY <3>1, <1>4, <1>5, <1>15
        <4> QED BY <4>1, <1>1, <1>2, <1>7, <1>14, <1>15
      <3>2. CASE x # heap[e].prev
        <4>1. heap'[x].next = heap[x].next /\ place[x] # place[e] - 1
          BY <3>2, <1>4, <1>5, <1>15
        <4>2. heap[x].next # NULL => heap[x].next \in Elements BY <1>2, <1>15
        <4>3. heap[x].next = NULL <=> after[x] = list'.size
          BY <4>1, <1>1, <1>2, <1>7, <1>14, <1>15
        <4>4. heap[x].next # NULL => after[heap[x].next] = after[x] + 1
          BY <4>1, <4>2, <1>2, <1>7, <1>14, <1>15
        <4> QED BY <4>1, <4>3, <4>4
      <3> QED BY <3>1, <3>2
    <2>6. list'.size > 0 =>
            /\ list'.head \in Elements' /\ after[list'.head] = 1
            /\ list'.tail \in Elements' /\ after[list'.tail] = list'.size
      <3> HAVE list'.size > 0
      <3>1. list'.head \in Elements' /\ after[list'.head] = 1
        <4>1. CASE heap[e].prev = NULL
          <5>1. place[e] = 1 /\ heap[e].next # NULL BY <4>1, <1>1, <1>2
          <5>2. heap[e].next \in Elements' /\ place[heap[e].next] = 2
            BY <5>1, <1>1, <1>2
          <5> QED BY <4>1, <5>1, <5>2, <1>9, <1>14, <1>15
        <4>2. CASE heap[e].prev # NULL
          <5>1. 1 < place[e] BY <4>2, <1>1, <1>2
          <5> QED BY <4>2, <5>1, <1>1, <1>8, <1>9, <1>14
        <4> QED BY <4>1, <4>2
      <3>2. list'.tail \in Elements' /\ after[list'.tail] = list'.size
        <4>1. CASE heap[e].next = NULL
          <5>1. place[e] = list.size /\ heap[e].prev # NULL BY <4>1, <1>1, <1>2
          <5>2. heap[e].prev \in Elements' /\ place[heap[e].prev] = list.size - 1
            BY <5>1, <1>1, <1>2
          <5> QED BY <4>1, <5>1, <5>2, <1>1, <1>9, <1>14, <1>15
        <4>2. CASE heap[e].next # NULL
          <5>1. place[e] < list.size BY <4>2, <1>1, <1>2
          <5>2. list.tail \in Elements' BY <5>1, <1>1, <1>8
          <5>3. after[list.tail] = list.size - 1 BY <5>1, <1>1, <1>7, <1>8, <1>14
          <5> QED BY <4>2, <5>2, <5>3, <1>1, <1>9
        <4> QED BY <4>1, <4>2
      <3> QED BY <3>1, <3>2
    <2>7. list'.size = 0 => list'.head = NULL /\ list'.tail = NULL
      <3> HAVE list'.size = 0
      <3>1. heap[e].prev = NULL /\ heap[e].next = NULL BY <1>1, <1>2, <1>7
      <3> QED BY <3>1, <1>9
    <2> QED BY <2>1, <2>2, <2>3, <2>4, <2>5, <2>6, <2>7 DEF InPlace
  <1>17. IInv' BY <1>11, <1>12, <1>16 DEF IInv
  <1>18. Listed(place) BY ItemsAreListed
  <1>19. Listed(after)' BY <1>16, <1>17, ItemsStayListed
  <1>20. PICK s, t, k : s = Items /\ t = Items' /\ k = place[e] OBVIOUS
  <1>21. /\ s \in Seq(Values) /\ Len(s) = list.size
         /\ t \in Seq(Values) /\ Len(t) = list.size - 1
         /\ k \in 1..Len(s) /\ s[k] = heap[e].ptr
    BY <1>1, <1>7, <1>18, <1>19, <1>20 DEF Listed
  <1>22. ASSUME NEW i \in 1..Len(s), i # k
         PROVE  t[IF i < k THEN i ELSE i - 1] = s[i]
    <2>1. PICK x \in Elements : place[x] = i BY <1>21 DEF InPlace
    <2>2. s[i] = heap[x].ptr BY <2>1, <1>18, <1>20 DEF Listed
    <2>3. x \in Elements' BY <2>1, <1>1, <1>20, <1>22
    <2>4. t[after[x]] = heap'[x].ptr BY <2>3, <1>19, <1>20 DEF Listed
    <2>5. after[x] = IF i < k THEN i ELSE i - 1 BY <2>1, <1>14, <1>20
    <2> QED BY <2>2, <2>3, <2>4, <2>5, <1>5
  <1>23. t = Sequence!RemoveAt(s, k) BY <1>21, <1>22, IsRemoveAt
  <1> QED BY <1>17, <1>20, <1>21, <1>23
-----------------------------------------------------------------------------
(* The code's assignments do that. *)

IsHeap(h) == \A x \in DOMAIN h : IsElement(h[x])

(* Assigning next changes that field of that element only. *)
LEMMA WithNextFields ==
  ASSUME NEW h, NEW e, NEW n, IsHeap(h), NULL \notin DOMAIN h
  PROVE  /\ DOMAIN WithNext(h, e, n) = DOMAIN h
         /\ IsHeap(WithNext(h, e, n))
         /\ \A x \in DOMAIN h :
               /\ WithNext(h, e, n)[x].ptr = h[x].ptr
               /\ WithNext(h, e, n)[x].prev = h[x].prev
               /\ WithNext(h, e, n)[x].next = IF x = e THEN n ELSE h[x].next
  <1>1. CASE e = NULL BY <1>1 DEF WithNext, IsHeap
  <1>2. CASE e # NULL
    <2>1. WithNext(h, e, n) = [h EXCEPT ![e].next = n] BY <1>2 DEF WithNext
    <2>2. \A x \in DOMAIN h : IsElement(h[x]) BY DEF IsHeap
    <2>3. \A x \in DOMAIN h \ {e} : WithNext(h, e, n)[x] = h[x] BY <2>1
    <2>4. e \in DOMAIN h => WithNext(h, e, n)[e] = [ptr |-> h[e].ptr, prev |-> h[e].prev, next |-> n]
      BY <2>1, <2>2 DEF IsElement
    <2>5. DOMAIN WithNext(h, e, n) = DOMAIN h BY <2>1
    <2> QED BY <2>2, <2>3, <2>4, <2>5 DEF IsHeap, IsElement
  <1> QED BY <1>1, <1>2

(* Assigning prev changes that field of that element only. *)
LEMMA WithPrevFields ==
  ASSUME NEW h, NEW e, NEW p, IsHeap(h), NULL \notin DOMAIN h
  PROVE  /\ DOMAIN WithPrev(h, e, p) = DOMAIN h
         /\ IsHeap(WithPrev(h, e, p))
         /\ \A x \in DOMAIN h :
               /\ WithPrev(h, e, p)[x].ptr = h[x].ptr
               /\ WithPrev(h, e, p)[x].next = h[x].next
               /\ WithPrev(h, e, p)[x].prev = IF x = e THEN p ELSE h[x].prev
  <1>1. CASE e = NULL BY <1>1 DEF WithPrev, IsHeap
  <1>2. CASE e # NULL
    <2>1. WithPrev(h, e, p) = [h EXCEPT ![e].prev = p] BY <1>2 DEF WithPrev
    <2>2. \A x \in DOMAIN h : IsElement(h[x]) BY DEF IsHeap
    <2>3. \A x \in DOMAIN h \ {e} : WithPrev(h, e, p)[x] = h[x] BY <2>1
    <2>4. e \in DOMAIN h => WithPrev(h, e, p)[e] = [ptr |-> h[e].ptr, prev |-> p, next |-> h[e].next]
      BY <2>1, <2>2 DEF IsElement
    <2>5. DOMAIN WithPrev(h, e, p) = DOMAIN h BY <2>1
    <2> QED BY <2>2, <2>3, <2>4, <2>5 DEF IsHeap, IsElement
  <1> QED BY <1>1, <1>2

(* The heap of a typed list consists of elements. *)
LEMMA HeapIsHeap ==
  ASSUME TypeOK
  PROVE  IsHeap(heap) /\ NULL \notin Elements
  <1>1. NULL \notin Elements BY LlistAssumption DEF TypeOK
  <1>2. ASSUME NEW x \in Elements
        PROVE  IsElement(heap[x])
    <2>1. heap[x] \in [ptr : Values, prev : Elements \cup {NULL}, next : Elements \cup {NULL}]
      BY DEF TypeOK
    <2> QED BY <2>1 DEF IsElement
  <1> QED BY <1>1, <1>2 DEF IsHeap, Elements

(* Both insertions write the same: the fields of p and q, and those of ne. *)
LEMMA WritesInserted ==
  ASSUME IInv, NEW ne \in Addresses \ Elements, NEW v \in Values,
         NEW p \in Elements \cup {NULL}, NEW q \in Elements \cup {NULL}, NEW h,
         \/ h = WithNext(WithPrev(heap, q, ne), p, ne)
         \/ h = WithPrev(WithNext(heap, p, ne), q, ne),
         heap' = WithNew(h, ne, [ptr |-> v, prev |-> p, next |-> q]),
         list' = [head |-> IF p = NULL THEN ne ELSE list.head,
                  tail |-> IF q = NULL THEN ne ELSE list.tail,
                  size |-> list.size + 1]
  PROVE  Inserted(p, q, ne, v)
  <1>1. IsHeap(heap) /\ NULL \notin DOMAIN heap /\ Elements = DOMAIN heap
    BY HeapIsHeap DEF IInv, Elements
  <1>2. /\ DOMAIN h = DOMAIN heap
        /\ IsHeap(h)
        /\ \A x \in DOMAIN heap :
              /\ h[x].ptr = heap[x].ptr
              /\ h[x].prev = IF x = q THEN ne ELSE heap[x].prev
              /\ h[x].next = IF x = p THEN ne ELSE heap[x].next
    <2>1. CASE h = WithNext(WithPrev(heap, q, ne), p, ne)
      <3> DEFINE g == WithPrev(heap, q, ne)
      <3>1. /\ DOMAIN g = DOMAIN heap /\ IsHeap(g)
            /\ \A x \in DOMAIN heap :
                  /\ g[x].ptr = heap[x].ptr /\ g[x].next = heap[x].next
                  /\ g[x].prev = IF x = q THEN ne ELSE heap[x].prev
        BY <1>1, WithPrevFields
      <3>2. h = WithNext(g, p, ne) BY <2>1
      <3> HIDE DEF g
      <3> QED BY <1>1, <3>1, <3>2, WithNextFields
    <2>2. CASE h = WithPrev(WithNext(heap, p, ne), q, ne)
      <3> DEFINE g == WithNext(heap, p, ne)
      <3>1. /\ DOMAIN g = DOMAIN heap /\ IsHeap(g)
            /\ \A x \in DOMAIN heap :
                  /\ g[x].ptr = heap[x].ptr /\ g[x].prev = heap[x].prev
                  /\ g[x].next = IF x = p THEN ne ELSE heap[x].next
        BY <1>1, WithNextFields
      <3>2. h = WithPrev(g, q, ne) BY <2>2
      <3> HIDE DEF g
      <3> QED BY <1>1, <3>1, <3>2, WithPrevFields
    <2> QED BY <2>1, <2>2
  <1>3. ne \notin DOMAIN h BY <1>1, <1>2
  <1>4. /\ DOMAIN heap' = DOMAIN h \cup {ne}
        /\ heap'[ne] = [ptr |-> v, prev |-> p, next |-> q]
        /\ \A x \in DOMAIN h : heap'[x] = h[x]
    BY <1>3 DEF WithNew
  <1> QED BY <1>1, <1>2, <1>4 DEF Inserted, IsHeap, Elements

(* In an empty list there is no element, and no place but the first. *)
LEMMA EmptyHasNone ==
  ASSUME IInv, list.size = 0
  PROVE  Elements = {} /\ list.head = NULL /\ list.tail = NULL
  <1>1. PICK place : InPlace(place) BY DEF IInv
  <1>2. \A e \in Elements : place[e] \in 1..0 BY <1>1 DEF InPlace
  <1>3. 1..0 = {} OBVIOUS
  <1> QED BY <1>1, <1>2, <1>3 DEF InPlace

(* So an insertion into it may write both ends. *)
LEMMA AloneKeeps ==
  ASSUME IInv, list.size = 0, NEW ne \in Addresses \ Elements, NEW v \in Values,
         Alone(ne, v), emptying' \in BOOLEAN, released' = NULL
  PROVE  IInv' /\ Sequence!PutIn
  <1>1. Elements = {} /\ list.head = NULL /\ list.tail = NULL BY EmptyHasNone
  <1>2. PICK place : InPlace(place) BY DEF IInv
  <1>3. Neighbours(NULL, NULL, place, 1) /\ 1 \in 1..(list.size + 1) BY DEF Neighbours
  <1>4. /\ DOMAIN heap' = {ne}
        /\ heap'[ne] = [ptr |-> v, prev |-> NULL, next |-> NULL]
    BY <1>1 DEF Alone, WithNew, Elements
  <1>5. Inserted(NULL, NULL, ne, v)
    BY <1>1, <1>4 DEF Inserted, Alone, Elements
  <1> QED BY <1>2, <1>3, <1>5, InsertedKeeps DEF Sequence!PutIn

(* xdebug_llist_insert_next: between e, or the tail, and what follows it. *)
LEMMA InsertNextKeeps ==
  ASSUME IInv, NEW arg \in Elements \cup {NULL}, NEW v \in Values,
         xdebug_llist_insert_next(arg, v)
  PROVE  IInv' /\ Sequence!PutIn
  <1>1. emptying' \in BOOLEAN /\ released' = NULL
    BY DEF xdebug_llist_insert_next, IInv, TypeOK
  <1>2. PICK ne \in Addresses \ Elements :
          IF list.size = 0 THEN Alone(ne, v)
          ELSE LET e == Or(arg, list.tail)
                   n == heap[e].next
               IN /\ list' = [list EXCEPT !.size = @ + 1,
                                          !.tail = IF n = NULL THEN ne ELSE @]
                  /\ heap' = WithNew(WithNext(WithPrev(heap, n, ne), e, ne),
                                     ne, [ptr |-> v, prev |-> e, next |-> n])
    BY DEF xdebug_llist_insert_next
  <1>3. CASE list.size = 0 BY <1>1, <1>2, <1>3, AloneKeeps
  <1>4. CASE list.size # 0
    <2>1. PICK place : InPlace(place) BY DEF IInv
    <2>2. PICK e : e = Or(arg, list.tail) OBVIOUS
    <2>3. e \in Elements BY <1>4, <2>1, <2>2 DEF Or, InPlace, IInv, TypeOK
    <2>4. PICK n : n = heap[e].next OBVIOUS
    <2>5. n \in Elements \cup {NULL} BY <2>3, <2>4 DEF IInv, TypeOK
    <2>6. /\ list' = [list EXCEPT !.size = @ + 1,
                                  !.tail = IF n = NULL THEN ne ELSE @]
          /\ heap' = WithNew(WithNext(WithPrev(heap, n, ne), e, ne),
                             ne, [ptr |-> v, prev |-> e, next |-> n])
      BY <1>2, <1>4, <2>2, <2>4
    <2>7. list' = [head |-> IF e = NULL THEN ne ELSE list.head,
                   tail |-> IF n = NULL THEN ne ELSE list.tail,
                   size |-> list.size + 1]
      BY <2>3, <2>6, LlistAssumption DEF IInv, TypeOK
    <2>8. Inserted(e, n, ne, v) BY <2>3, <2>5, <2>6, <2>7, WritesInserted
    <2>9. place[e] + 1 \in 1..(list.size + 1) /\ Neighbours(e, n, place, place[e] + 1)
      BY <2>1, <2>3, <2>4, <2>5 DEF Neighbours, InPlace, IInv, TypeOK
    <2>10. /\ IInv'
           /\ place[e] + 1 \in 1..(Len(Items) + 1)
           /\ Items' = Sequence!InsertAt(Items, place[e] + 1, v)
      BY <1>1, <2>1, <2>3, <2>5, <2>8, <2>9, InsertedKeeps, SMTT(30)
    <2> QED BY <1>1, <2>10 DEF Sequence!PutIn
  <1> QED BY <1>3, <1>4

(* xdebug_llist_insert_prev: between what precedes e, or the head, and it. *)
LEMMA InsertPrevKeeps ==
  ASSUME IInv, NEW arg \in Elements \cup {NULL}, NEW v \in Values,
         xdebug_llist_insert_prev(arg, v)
  PROVE  IInv' /\ Sequence!PutIn
  <1>1. emptying' \in BOOLEAN /\ released' = NULL
    BY DEF xdebug_llist_insert_prev, IInv, TypeOK
  <1>2. PICK ne \in Addresses \ Elements :
          IF list.size = 0 THEN Alone(ne, v)
          ELSE LET e == Or(arg, list.head)
                   q == heap[e].prev
               IN /\ list' = [list EXCEPT !.size = @ + 1,
                                          !.head = IF q = NULL THEN ne ELSE @]
                  /\ heap' = WithNew(WithPrev(WithNext(heap, q, ne), e, ne),
                                     ne, [ptr |-> v, prev |-> q, next |-> e])
    BY DEF xdebug_llist_insert_prev
  <1>3. CASE list.size = 0 BY <1>1, <1>2, <1>3, AloneKeeps
  <1>4. CASE list.size # 0
    <2>1. PICK place : InPlace(place) BY DEF IInv
    <2>2. PICK e : e = Or(arg, list.head) OBVIOUS
    <2>3. e \in Elements BY <1>4, <2>1, <2>2 DEF Or, InPlace, IInv, TypeOK
    <2>4. PICK q : q = heap[e].prev OBVIOUS
    <2>5. q \in Elements \cup {NULL} BY <2>3, <2>4 DEF IInv, TypeOK
    <2>6. /\ list' = [list EXCEPT !.size = @ + 1,
                                  !.head = IF q = NULL THEN ne ELSE @]
          /\ heap' = WithNew(WithPrev(WithNext(heap, q, ne), e, ne),
                             ne, [ptr |-> v, prev |-> q, next |-> e])
      BY <1>2, <1>4, <2>2, <2>4
    <2>7. list' = [head |-> IF q = NULL THEN ne ELSE list.head,
                   tail |-> IF e = NULL THEN ne ELSE list.tail,
                   size |-> list.size + 1]
      BY <2>3, <2>6, LlistAssumption DEF IInv, TypeOK
    <2>8. Inserted(q, e, ne, v) BY <2>3, <2>5, <2>6, <2>7, WritesInserted
    <2>9. place[e] \in 1..(list.size + 1) /\ Neighbours(q, e, place, place[e])
      BY <2>1, <2>3, <2>4, <2>5 DEF Neighbours, InPlace, IInv, TypeOK
    <2>10. /\ IInv'
           /\ place[e] \in 1..(Len(Items) + 1)
           /\ Items' = Sequence!InsertAt(Items, place[e], v)
      BY <1>1, <2>1, <2>3, <2>5, <2>8, <2>9, InsertedKeeps, SMTT(30)
    <2> QED BY <1>1, <2>10 DEF Sequence!PutIn
  <1> QED BY <1>3, <1>4

(* xdebug_llist_remove of an element of the list. *)
LEMMA RemovesKeeps ==
  ASSUME IInv, NEW e \in Elements \cup {NULL}, Removes(e), emptying' \in BOOLEAN
  PROVE  IInv' /\ Sequence!TakeOut
  <1>1. PICK place : InPlace(place) BY DEF IInv
  <1>2. e \in Elements BY DEF Removes
  <1>3. heap[e] \in [ptr : Values, prev : Elements \cup {NULL}, next : Elements \cup {NULL}]
    BY <1>2 DEF IInv, TypeOK
  <1>4. released' \in Values \cup {NULL} BY <1>3 DEF Removes
  <1>5. PICK p, n : p = heap[e].prev /\ n = heap[e].next OBVIOUS
  <1>6. Removed(e)
    <2>1. IsHeap(heap) /\ NULL \notin DOMAIN heap /\ Elements = DOMAIN heap
      BY HeapIsHeap DEF IInv, Elements
    <2> DEFINE g == WithNext(heap, p, n)
               h == WithPrev(g, n, p)
    <2>2. /\ DOMAIN g = DOMAIN heap /\ IsHeap(g)
          /\ \A x \in DOMAIN heap :
                /\ g[x].ptr = heap[x].ptr /\ g[x].prev = heap[x].prev
                /\ g[x].next = IF x = p THEN n ELSE heap[x].next
      BY <2>1, WithNextFields
    <2>3. NULL \notin DOMAIN g BY <2>1, <2>2
    <2>4. /\ DOMAIN h = DOMAIN g /\ IsHeap(h)
          /\ \A x \in DOMAIN g :
                /\ h[x].ptr = g[x].ptr /\ h[x].next = g[x].next
                /\ h[x].prev = IF x = n THEN p ELSE g[x].prev
      <3> HIDE DEF g
      <3> QED BY <2>2, <2>3, WithPrevFields
    <2>5. heap' = [x \in DOMAIN h \ {e} |-> h[x]] BY <1>5 DEF Removes, Unlinked, Without
    <2>6. list.head = e <=> p = NULL
      BY <1>1, <1>2, <1>5 DEF InPlace, Removes, IInv, TypeOK
    <2>7. list' = [head |-> IF p = NULL THEN n ELSE list.head,
                   tail |-> IF n = NULL THEN p ELSE list.tail,
                   size |-> list.size - 1]
      BY <1>5, <2>6 DEF Removes
    <2> HIDE DEF g, h
    <2>8. /\ DOMAIN heap' = DOMAIN heap \ {e}
          /\ \A x \in DOMAIN heap' :
                /\ IsElement(heap'[x])
                /\ heap'[x].ptr = heap[x].ptr
                /\ heap'[x].prev = IF x = n THEN p ELSE heap[x].prev
                /\ heap'[x].next = IF x = p THEN n ELSE heap[x].next
      BY <2>2, <2>4, <2>5 DEF IsHeap
    <2> QED BY <1>5, <2>7, <2>8 DEF Removed, Elements
  <1>7. released' = heap[e].ptr BY DEF Removes
  <1> QED BY <1>1, <1>2, <1>4, <1>6, <1>7, RemovedKeeps DEF Sequence!TakeOut

(* What leaves list and heap alone keeps the invariant and the values. *)
LEMMA SameKeeps ==
  ASSUME IInv, UNCHANGED <<list, heap>>,
         emptying' \in BOOLEAN, released' \in Values \cup {NULL}
  PROVE  IInv' /\ Items' = Items
  <1>1. Elements' = Elements BY DEF Elements
  <1>2. TypeOK' BY <1>1 DEF IInv, TypeOK
  <1>3. Counted' BY <1>1 DEF IInv, Counted
  <1>4. PICK place : InPlace(place) BY DEF IInv
  <1>5. InPlace(place)' BY <1>1, <1>4 DEF InPlace
  <1>6. Items' = Items BY DEF Items, jump_head
  <1> QED BY <1>2, <1>3, <1>5, <1>6 DEF IInv

(* A step of the list, seen as one of the sequence of its values. *)
ListStep ==
    \/ Sequence!PutIn
    \/ Sequence!TakeOut
    \/ Items' = Items /\ released' = NULL

(* Removing an element, or nothing, takes a value out or none. *)
LEMMA RemoveKeeps ==
  ASSUME IInv, NEW e \in Elements \cup {NULL}, xdebug_llist_remove(e)
  PROVE  IInv' /\ ListStep
  <1>1. emptying' \in BOOLEAN BY DEF xdebug_llist_remove, IInv, TypeOK
  <1>2. CASE Removes(e) BY <1>1, <1>2, RemovesKeeps DEF ListStep
  <1>3. CASE RemovesNothing(e) BY <1>1, <1>3, SameKeeps DEF RemovesNothing, ListStep
  <1> QED BY <1>2, <1>3 DEF xdebug_llist_remove
-----------------------------------------------------------------------------
(* Each step keeps the places, and puts in or takes out one value or none. *)
LEMMA Steps ==
  ASSUME IInv, [Next]_vars
  PROVE  IInv' /\ (ListStep \/ UNCHANGED <<Items, released>>)
  <1>1. \A e \in Elements :
          heap[e].next \in Elements \cup {NULL} /\ heap[e].prev \in Elements \cup {NULL}
    BY DEF IInv, TypeOK
  <1>2. list.tail \in Elements \cup {NULL} /\ emptying \in BOOLEAN
        /\ released \in Values \cup {NULL}
    BY DEF IInv, TypeOK
  <1>3. ASSUME NEW e \in Elements \cup {NULL}, NEW p \in Values,
               xdebug_llist_insert_next(e, p)
        PROVE  IInv' /\ ListStep
    BY <1>3, InsertNextKeeps DEF ListStep
  <1>4. ASSUME NEW e \in Elements \cup {NULL}, NEW p \in Values,
               xdebug_llist_insert_prev(e, p)
        PROVE  IInv' /\ ListStep
    BY <1>4, InsertPrevKeeps DEF ListStep
  <1>5. ASSUME NEW e \in Elements \cup {NULL}, xdebug_llist_remove(e)
        PROVE  IInv' /\ ListStep
    BY <1>5, RemoveKeeps
  <1>6. ASSUME NEW e \in Elements, xdebug_llist_remove_next(e)
        PROVE  IInv' /\ ListStep
    BY <1>1, <1>6, RemoveKeeps DEF xdebug_llist_remove_next
  <1>7. ASSUME NEW e \in Elements, xdebug_llist_remove_prev(e)
        PROVE  IInv' /\ ListStep
    BY <1>1, <1>7, RemoveKeeps DEF xdebug_llist_remove_prev
  <1>8. CASE xdebug_llist_empty
    BY <1>8, SameKeeps DEF xdebug_llist_empty, ListStep
  <1>9. CASE EmptyRound
    <2>1. emptying' \in BOOLEAN BY <1>2, <1>9 DEF EmptyRound
    <2>2. CASE Removes(list.tail) BY <1>2, <2>1, <2>2, RemovesKeeps DEF ListStep
    <2>3. CASE RemovesNothing(list.tail)
      BY <2>1, <2>3, SameKeeps DEF RemovesNothing, ListStep
    <2> QED BY <1>9, <2>2, <2>3 DEF EmptyRound
  <1>10. CASE EmptyEnds
    BY <1>10, SameKeeps DEF EmptyEnds, ListStep
  <1>11. CASE UNCHANGED vars
    BY <1>2, <1>11, SameKeeps DEF vars
  <1> QED
    BY <1>3, <1>4, <1>5, <1>6, <1>7, <1>8, <1>9, <1>10, <1>11 DEF Next

(* Whatever operation is called, every element keeps a place in the list.   *)
THEOREM Inductive ==
  /\ Init => IInv
  /\ IInv /\ [Next]_vars => IInv'
  <1>1. ASSUME Init PROVE IInv
    <2>1. list = [head |-> NULL, tail |-> NULL, size |-> 0] /\ Elements = {}
      BY <1>1 DEF Init, xdebug_llist_init, Elements
    <2>2. TypeOK
      <3>1. list \in [head : Elements \cup {NULL}, tail : Elements \cup {NULL}, size : Nat]
        BY <2>1
      <3>2. emptying = FALSE /\ released = NULL BY <1>1 DEF Init
      <3> QED BY <2>1, <3>1, <3>2 DEF TypeOK
    <2>3. Counted BY <2>1, FS_EmptySet DEF Counted
    <2>4. InPlace(<< >>)
      <3>1. 1..0 = {} OBVIOUS
      <3> QED BY <2>1, <3>1 DEF InPlace
    <2> QED BY <2>2, <2>3, <2>4 DEF IInv
  <1>2. ASSUME IInv, [Next]_vars PROVE IInv'
    BY <1>2, Steps
  <1> QED BY <1>1, <1>2

(* The invariant always holds, for any addresses and values. *)
THEOREM Invariance == Spec => []IInv
  <1> QED BY Inductive, PTL DEF Spec

(* Links point to allocated elements, never to freed ones. *)
THEOREM Typing == Spec => []TypeOK
  <1>1. IInv => TypeOK BY DEF IInv
  <1> QED BY <1>1, Invariance, PTL

(* Neighbours agree, the ends are where they should be, and size is the     *)
(* number of elements, for lists of any length.                             *)
THEOREM ListStaysLinked == Spec => []WellLinked
  <1>1. ASSUME IInv PROVE WellLinked
    <2>1. PICK place : InPlace(place) BY <1>1 DEF IInv
    <2>2. list.size \in Nat /\ NULL \notin Elements BY <1>1, LlistAssumption DEF IInv, TypeOK
    <2>3. \A e \in Elements :
            /\ place[e] \in 1..list.size
            /\ heap[e].prev \in Elements \cup {NULL} /\ heap[e].next \in Elements \cup {NULL}
            /\ heap[e].prev = NULL <=> place[e] = 1
            /\ heap[e].next = NULL <=> place[e] = list.size
            /\ heap[e].prev # NULL => place[heap[e].prev] = place[e] - 1
            /\ heap[e].next # NULL => place[heap[e].next] = place[e] + 1
      BY <1>1, <2>1 DEF InPlace, IInv, TypeOK
    <2>4. \A e, f \in Elements : place[e] = place[f] => e = f
      BY <2>1 DEF InPlace
    <2>5. /\ list.size > 0 =>
               /\ list.head \in Elements /\ place[list.head] = 1
               /\ list.tail \in Elements /\ place[list.tail] = list.size
          /\ list.size = 0 => list.head = NULL /\ list.tail = NULL
      BY <2>1 DEF InPlace
    <2>6. ASSUME NEW e \in Elements
          PROVE  /\ heap[e].prev = NULL <=> e = list.head
                 /\ heap[e].next = NULL <=> e = list.tail
      <3>1. list.size > 0 BY <2>2, <2>3
      <3> QED BY <2>3, <2>4, <2>5, <3>1
    <2>7. ASSUME NEW e \in Elements, NEW f \in Elements
          PROVE  heap[e].next = f <=> heap[f].prev = e
      <3>1. ASSUME heap[e].next = f PROVE heap[f].prev = e
        <4>1. place[f] = place[e] + 1 /\ place[e] \in 1..list.size /\ f # NULL
          BY <2>2, <2>3, <3>1
        <4>2. heap[f].prev # NULL BY <2>3, <4>1
        <4>3. heap[f].prev \in Elements /\ place[heap[f].prev] = place[e]
          BY <2>3, <4>1, <4>2
        <4> QED BY <2>4, <4>3
      <3>2. ASSUME heap[f].prev = e PROVE heap[e].next = f
        <4>1. place[e] = place[f] - 1 /\ place[f] \in 1..list.size /\ e # NULL
          BY <2>2, <2>3, <3>2
        <4>2. heap[e].next # NULL BY <2>2, <2>3, <4>1
        <4>3. heap[e].next \in Elements /\ place[heap[e].next] = place[f]
          BY <2>3, <4>1, <4>2
        <4> QED BY <2>4, <4>3
      <3> QED BY <3>1, <3>2
    <2>8. LinksMatch BY <2>6, <2>7 DEF LinksMatch
    <2>9. SizeMatches
      <3>1. list.size = Cardinality(Elements) BY <1>1 DEF IInv, Counted
      <3> QED BY <2>2, <2>5, <3>1 DEF SizeMatches
    <2> QED BY <2>8, <2>9 DEF WellLinked
  <1> QED BY <1>1, Invariance, PTL

(* The linked list implements a sequence of values: an insertion puts its   *)
(* value in, a removal takes one out and gives that one to the destructor,  *)
(* whatever has been inserted and removed before.                           *)
THEOREM ListIsASequence == Spec => ImplementsList
  <1>1. Init => Sequence!Init
    <2> SUFFICES ASSUME Init PROVE Sequence!Init OBVIOUS
    <2>1. list.size = 0 /\ released = NULL BY DEF Init, xdebug_llist_init
    <2>2. Items = [k \in 1..0 |-> heap[jump_head[k - 1]].ptr] BY <2>1 DEF Items
    <2>3. 1..0 = {} OBVIOUS
    <2>4. Items = << >> BY <2>2, <2>3
    <2> QED BY <2>1, <2>4 DEF Sequence!Init
  <1>2. IInv /\ [Next]_vars =>
          [Sequence!Next \/ (UNCHANGED Items /\ released' = NULL)]_Sequence!vars
    BY Steps DEF ListStep, Sequence!Next, Sequence!vars
  <1> QED BY <1>1, <1>2, Invariance, PTL DEF Spec, ImplementsList, Sequence!Spec
=============================================================================
