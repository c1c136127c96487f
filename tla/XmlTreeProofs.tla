---------------------------- MODULE XmlTreeProofs ---------------------------
(***************************************************************************)
(* Proofs about XmlTree, for any texts, attributes, and documents of any   *)
(* size and shape.                                                         *)
(***************************************************************************)
EXTENDS XmlTree, SequenceTheorems, WellFoundedInduction, TLAPS

Size == Len(nodes)

(***************************************************************************)
(* The inductive invariant.  The links say where a node's first child and  *)
(* next sibling are; that they make a tree takes more: for every node its  *)
(* parent, all of its children and the last node below it.  The document   *)
(* is the parent 0 of the root.  Nodes are numbered as they are met from   *)
(* left to right, each before its children.                                *)
(***************************************************************************)
Node == [text : Texts \cup {NULL}, encode : BOOLEAN, attribute : Seq(Attributes),
         child : Nat, next : Nat]

Types ==
    /\ data.level \in 0..StackSize
    /\ data = [level |-> data.level, xml |-> data.xml,
               current |-> data.current, stack |-> data.stack]
    /\ data.stack \in [0..(StackSize - 1) -> Nat]
    /\ data.xml = IF nodes = << >> THEN NULL ELSE 1
    /\ nodes \in Seq(Node)
    /\ returned \in BOOLEAN /\ fault \in BOOLEAN

(* The parents and the children of n nodes, *)
Kin(par, kids, n) ==
    /\ par \in [1..n -> Nat]
    /\ kids \in [0..n -> Seq(1..n)]
    /\ \A p \in 0..n : \A i \in DOMAIN kids[p] : par[kids[p][i]] = p
    /\ \A m \in 1..n :
          /\ par[m] < m
          /\ \E i \in DOMAIN kids[par[m]] : kids[par[m]][i] = m

(* and the last nodes below each: a child begins where the one before, or  *)
(* the parent's own number, ends.                                          *)
Ends(kids, end, n) ==
    /\ end \in [0..n -> 0..n]
    /\ \A p \in 0..n :
          /\ p <= end[p]
          /\ kids[p] = << >> => end[p] = p
          /\ kids[p] # << >> =>
                kids[p][1] = p + 1 /\ end[kids[p][Len(kids[p])]] = end[p]
          /\ \A i \in 1..(Len(kids[p]) - 1) : kids[p][i + 1] = end[kids[p][i]] + 1
    /\ end[0] = n

Family(par, kids, end, n) == Kin(par, kids, n) /\ Ends(kids, end, n)

Linked(kids) ==
    /\ \A p \in 1..Size :
          nodes[p].child = IF kids[p] = << >> THEN NULL ELSE kids[p][1]
    /\ \A p \in 0..Size : \A i \in DOMAIN kids[p] :
          nodes[kids[p][i]].next = IF i = Len(kids[p]) THEN NULL ELSE kids[p][i + 1]

(* The open element at depth k, 0 being the document. *)
Open(k) == IF k = data.level THEN data.current ELSE data.stack[k]

(* Each open element is in the one before, and nothing came after it. *)
OnPath(par, end) ==
    /\ Open(0) = NULL
    /\ \A k \in 1..data.level : Open(k) \in 1..Size /\ par[Open(k)] = Open(k - 1)
    /\ \A k \in 0..data.level : end[Open(k)] = Size

Shape(par, kids, end) ==
    Family(par, kids, end, Size) /\ Linked(kids) /\ OnPath(par, end)

(* What was reported is kept, but for the mark that writing leaves. *)
Encoded == \A n \in 1..Size : nodes[n].encode <=> nodes[n].text \in Terminators

AttributesKept ==
    \A n \in 1..Size :
       \E attribute \in AttributeLists :
          \/ nodes[n].attribute = attribute
          \/ returned /\ nodes[n].attribute = Append(attribute, Base64)

IInv ==
    /\ Types /\ Encoded /\ AttributesKept
    /\ \E par, kids, end : Shape(par, kids, end)

-----------------------------------------------------------------------------
(***************************************************************************)
(* The walks are recursive, from a node to nodes behind it.  That such a   *)
(* function exists is shown by giving it, that it is the only one from the *)
(* last node backwards.                                                    *)
(***************************************************************************)

(* A set of numbers has a least one. *)
LEMMA Least ==
  ASSUME NEW T \in SUBSET Nat, T # {}
  PROVE  \E x \in T : \A y \in T : x <= y
<1> DEFINE Less == OpToRel(<, Nat)
<1>1. IsWellFoundedOn(Less, Nat)
  BY NatLessThanWellFounded
<1>2. \A x, y \in Nat : <<x, y>> \in Less <=> x < y
  BY DEF OpToRel
<1> HIDE DEF Less
<1>3. PICK x \in T : \A y \in T : ~ (<<y, x>> \in Less)
  BY <1>1, WFMin
<1>4. \A y \in T : ~ (y < x)
  BY <1>2, <1>3
<1> HIDE <1>2
<1>5. x \in Nat /\ \A y \in T : y \in Nat
  BY <1>3
<1> QED
  BY <1>3, <1>4, <1>5

(* Zero comes first, and nothing between it and one. *)
LEMMA FromZero ==
  \A n \in Nat : /\ 0 \in 0..n
                 /\ \A m \in 1..n : m \in 0..n /\ m # 0
                 /\ \A m \in 0..n : m = 0 \/ m \in 1..n
  OBVIOUS

(* The last of a sequence is the part that begins with it. *)
LEMMA LastPart ==
  ASSUME NEW S, NEW s \in Seq(S), Len(s) \in 1..Len(s)
  PROVE  SubSeq(s, Len(s), Len(s)) = << s[Len(s)] >>
<1>1. PICK n : n = Len(s)
  OBVIOUS
<1>2. n \in 1..Len(s) /\ n \in n..Len(s) /\ n + 1 \in Int /\ n \in Int /\ n < n + 1
  BY <1>1
<1>3. SubSeq(s, n, n) = << s[n] >> \o SubSeq(s, n + 1, n)
  BY <1>2, SubSeqRecursiveFirst
<1>4. SubSeq(s, n + 1, n) = << >>
  BY <1>2, SubSeqEmpty
<1>5. << s[n] >> \in Seq(S)
  BY <1>2
<1>6. << s[n] >> \o << >> = << s[n] >>
  BY <1>5, ConcatEmptySeq
<1> QED
  BY <1>1, <1>3, <1>4, <1>6, Zenon

(* What holds of a number if it holds of all later ones, holds of all. *)
LEMMA Backwards ==
  ASSUME NEW n \in Nat, NEW T,
         \A m \in 1..n : (m + 1)..n \subseteq T => m \in T
  PROVE  1..n \subseteq T
<1> SUFFICES ASSUME NEW x \in 1..n, x \notin T PROVE FALSE
  OBVIOUS
<1> DEFINE Bad == {n - m : m \in (1..n) \ T}
<1>1. Bad \in SUBSET Nat /\ n - x \in Bad
  OBVIOUS
<1>2. PICK d \in Bad : \A e \in Bad : d <= e
  BY <1>1, Least
<1>3. PICK m \in (1..n) \ T : d = n - m
  BY <1>2
<1>4. ASSUME NEW l \in (m + 1)..n PROVE l \in T
  <2> SUFFICES ASSUME l \notin T PROVE FALSE
    OBVIOUS
  <2>1. l \in (1..n) \ T /\ n - l < n - m
    BY <1>3
  <2>2. \E k \in (1..n) \ T : n - l = n - k
    BY <2>1
  <2>3. n - l \in Bad
    BY <2>2, Zenon
  <2> HIDE DEF Bad
  <2>4. d <= n - l
    BY <1>2, <2>3
  <2> QED
    BY <1>3, <2>1, <2>4
<1> QED
  BY <1>3, <1>4

(* Numbers that rise at each step rise altogether. *)
LEMMA Rising ==
  ASSUME NEW n \in Nat, NEW s, \A k \in 1..n : s[k] \in Nat,
         \A k \in 1..(n - 1) : s[k] < s[k + 1]
  PROVE  \A i, j \in 1..n : i < j => s[i] < s[j]
<1> SUFFICES ASSUME NEW i \in 1..n, NEW x \in 1..n, i < x, ~ (s[i] < s[x])
             PROVE  FALSE
  OBVIOUS
<1> DEFINE Low == {j \in 1..n : i < j /\ ~ (s[i] < s[j])}
<1>1. Low \in SUBSET Nat /\ x \in Low
  OBVIOUS
<1>2. PICK j \in Low : \A k \in Low : j <= k
  <2> HIDE DEF Low
  <2> QED  BY <1>1, Least
<1>3. j \in 1..n /\ i < j /\ ~ (s[i] < s[j])
  BY <1>2
<1>4. j - 1 \in 1..n /\ j - 1 \in 1..(n - 1) /\ (j - 1) + 1 = j
  BY <1>3
<1>5. s[j - 1] < s[j] /\ s[j - 1] \in Nat /\ s[j] \in Nat /\ s[i] \in Nat
  BY <1>3, <1>4
<1>6. i # j - 1
  BY <1>3, <1>5
<1>7. j - 1 \notin Low
  <2> HIDE DEF Low
  <2> QED  BY <1>2, <1>4
<1>8. i < j - 1
  BY <1>3, <1>4, <1>6
<1> QED
  BY <1>3, <1>4, <1>5, <1>7, <1>8

(* The place of a node among its siblings. *)
PlaceIn(par, kids, m) == CHOOSE i \in DOMAIN kids[par[m]] : kids[par[m]][i] = m

(* A node is where its place says, below its parent. *)
LEMMA Places ==
  ASSUME NEW n \in Nat, NEW par, NEW kids, Kin(par, kids, n), NEW m \in 1..n
  PROVE  /\ par[m] \in 0..n /\ par[m] < m
         /\ PlaceIn(par, kids, m) \in 1..Len(kids[par[m]])
         /\ kids[par[m]][PlaceIn(par, kids, m)] = m
         /\ kids[par[m]] \in Seq(1..n)
<1>1. par[m] \in Nat /\ par[m] < m
  BY DEF Kin
<1>2. par[m] \in 0..n
  BY <1>1
<1>3. kids[par[m]] \in Seq(1..n)
  BY <1>2 DEF Kin
<1>4. \E i \in DOMAIN kids[par[m]] : kids[par[m]][i] = m
  BY DEF Kin
<1>5. /\ PlaceIn(par, kids, m) \in DOMAIN kids[par[m]]
      /\ kids[par[m]][PlaceIn(par, kids, m)] = m
  BY <1>4, Zenon DEF PlaceIn
<1> QED
  BY <1>1, <1>2, <1>3, <1>5

(* Children follow their parent and each other. *)
LEMMA KidsRise ==
  ASSUME NEW n \in Nat, NEW par, NEW kids, NEW end, Family(par, kids, end, n), NEW p \in 0..n
  PROVE  /\ kids[p] \in Seq(1..n)
         /\ \A i \in 1..Len(kids[p]) : p < kids[p][i] /\ par[kids[p][i]] = p
         /\ \A i \in 1..(Len(kids[p]) - 1) : kids[p][i] < kids[p][i + 1]
<1>1. kids[p] \in Seq(1..n)
  BY DEF Family, Kin
<1>2. \A i \in 1..Len(kids[p]) : kids[p][i] \in 1..n /\ p < kids[p][i] /\ par[kids[p][i]] = p
  <2>1. \A i \in 1..Len(kids[p]) : kids[p][i] \in 1..n /\ par[kids[p][i]] = p
    BY <1>1, SMTT(30) DEF Family, Kin
  <2>2. \A m \in 1..n : par[m] < m
    BY DEF Family, Kin
  <2> QED
    BY <2>1, <2>2
<1>3. \A i \in 1..(Len(kids[p]) - 1) : kids[p][i + 1] = end[kids[p][i]] + 1
  BY DEF Family, Ends
<1>4. \A m \in 0..n : m <= end[m] /\ end[m] \in 0..n
  BY DEF Family, Ends
<1>5. ASSUME NEW i \in 1..(Len(kids[p]) - 1) PROVE kids[p][i] < kids[p][i + 1]
  <2>1. kids[p][i] \in 1..n
    BY <1>1, <1>2
  <2> QED
    BY <2>1, <1>3, <1>4
<1> QED
  BY <1>1, <1>2, <1>5

(* No child is in a line twice. *)
LEMMA LineOnce ==
  ASSUME NEW n \in Nat, NEW par, NEW kids, NEW end, Family(par, kids, end, n), NEW p \in 0..n,
         NEW i \in 1..Len(kids[p]), NEW j \in 1..Len(kids[p])
  PROVE  /\ kids[p][i] = kids[p][j] => i = j
         /\ i < j => kids[p][i] < kids[p][j]
<1>1. kids[p] \in Seq(1..n) /\ \A k \in 1..(Len(kids[p]) - 1) : kids[p][k] < kids[p][k + 1]
  BY KidsRise
<1>2. Len(kids[p]) \in Nat /\ \A k \in 1..Len(kids[p]) : kids[p][k] \in Nat
  BY <1>1
<1>3. \A a, b \in 1..Len(kids[p]) : a < b => kids[p][a] < kids[p][b]
  BY <1>1, <1>2, Rising
<1> QED
  BY <1>2, <1>3

(* Where the next sibling is, if there is one. *)
LEMMA NextSibling ==
  ASSUME Size \in Nat, NEW par, NEW kids, NEW end, Family(par, kids, end, Size), Linked(kids),
         NEW m \in 1..Size, NEW s, s = kids[par[m]], NEW i, i = PlaceIn(par, kids, m)
  PROVE  /\ i \in 1..Len(s) /\ s[i] = m /\ s \in Seq(1..Size)
         /\ i = Len(s) => nodes[m].next = NULL
         /\ i # Len(s) =>
               /\ nodes[m].next \in (m + 1)..Size
               /\ nodes[m].next = s[i + 1]
               /\ par[nodes[m].next] = par[m]
               /\ PlaceIn(par, kids, nodes[m].next) = i + 1
<1>1. /\ par[m] \in 0..Size /\ i \in 1..Len(s) /\ s[i] = m /\ s \in Seq(1..Size)
  <2>1. Kin(par, kids, Size)
    BY DEF Family
  <2> QED
    BY <2>1, Places
<1>2. nodes[m].next = IF i = Len(s) THEN NULL ELSE s[i + 1]
  <2>1. i \in DOMAIN kids[par[m]]
    BY <1>1
  <2> QED
    BY <1>1, <2>1 DEF Linked
<1>3. ASSUME i # Len(s)
      PROVE  /\ nodes[m].next \in (m + 1)..Size
             /\ nodes[m].next = s[i + 1]
             /\ par[nodes[m].next] = par[m]
             /\ PlaceIn(par, kids, nodes[m].next) = i + 1
  <2> DEFINE n == nodes[m].next
  <2>1. n = s[i + 1] /\ i + 1 \in 1..Len(s) /\ i \in 1..(Len(s) - 1) /\ n \in 1..Size
    <3>1. n = s[i + 1]
      BY <1>2, <1>3
    <3>2. Len(s) \in Nat
      BY <1>1
    <3>3. i + 1 \in 1..Len(s) /\ i \in 1..(Len(s) - 1)
      BY <1>1, <1>3, <3>2
    <3>4. s[i + 1] \in 1..Size
      BY <1>1, <3>3
    <3> QED  BY <3>1, <3>3, <3>4
  <2>2. par[n] = par[m] /\ m < n
    BY <2>1, <1>1, KidsRise, SMTT(30)
  <2> HIDE DEF n
  <2>3. PlaceIn(par, kids, n) \in 1..Len(s) /\ s[PlaceIn(par, kids, n)] = n
    <3>1. Kin(par, kids, Size)
      BY DEF Family
    <3>2. n \in 1..Size
      BY <2>1
    <3>3. /\ PlaceIn(par, kids, n) \in 1..Len(kids[par[n]])
          /\ kids[par[n]][PlaceIn(par, kids, n)] = n
      BY <3>1, <3>2, Places
    <3> QED  BY <3>3, <2>1, <2>2, <1>1, Zenon
  <2>4. PlaceIn(par, kids, n) = i + 1
    <3>0. par[m] \in 0..Size /\ i + 1 \in 1..Len(kids[par[m]])
      BY <2>1, <1>1
    <3>1. \A j \in 1..Len(kids[par[m]]) :
             kids[par[m]][j] = kids[par[m]][i + 1] => j = i + 1
      BY <3>0, LineOnce
    <3> QED  BY <3>1, <2>1, <2>3
  <2> QED
    BY <2>1, <2>2, <2>4, <1>1 DEF n
<1> QED
  BY <1>1, <1>2, <1>3

(* What obeys the equations of a walk is the walk. *)
LEMMA SiblingsIs ==
  ASSUME Size \in Nat, NEW w, w = [n \in 0..Size |-> w[n]],
         w[NULL] = << >>,
         \A m \in 1..Size : /\ w[m] = << m >> \o w[nodes[m].next]
                            /\ nodes[m].next = NULL \/ nodes[m].next \in (m + 1)..Size
  PROVE  Siblings = w
<1> DEFINE Eq(g) == [n \in 0..Size |-> IF n = NULL THEN << >> ELSE << n >> \o g[nodes[n].next]]
<1>1. w = Eq(w)
  <2>1. \A n \in 0..Size : w[n] = IF n = NULL THEN << >> ELSE << n >> \o w[nodes[n].next]
    <3> SUFFICES ASSUME NEW n \in 0..Size
                 PROVE  w[n] = IF n = NULL THEN << >> ELSE << n >> \o w[nodes[n].next]
      OBVIOUS
    <3>1. CASE n = NULL
      BY <3>1, Zenon
    <3>2. CASE n # NULL
      <4>1. n \in 1..Size
        BY <3>2, FromZero, Zenon DEF NULL
      <4> QED  BY <3>2, <4>1, Zenon
    <3> QED  BY <3>1, <3>2
  <2> QED
    BY <2>1, Zenon
<1>2. Siblings = CHOOSE g : g = Eq(g)
  BY DEF Siblings, Size
<1>3. Siblings = Eq(Siblings)
  <2> HIDE DEF Eq
  <2> QED  BY <1>1, <1>2, Zenon
<1> DEFINE f == Siblings
<1>4. DOMAIN f = 0..Size /\ f[0] = << >>
      /\ \A m \in 1..Size : f[m] = << m >> \o f[nodes[m].next]
  <2> HIDE DEF f
  <2>1. f = Eq(f)
    BY <1>3 DEF f
  <2>2. DOMAIN f = 0..Size /\ \A n \in 0..Size : f[n] = Eq(f)[n]
    BY <2>1, ZenonT(30)
  <2>3. 0 \in 0..Size /\ \A m \in 1..Size : m \in 0..Size /\ m # 0
    BY FromZero, Zenon
  <2> QED
    BY <2>2, <2>3, Zenon DEF NULL
<1> HIDE DEF f
<1>5. ASSUME NEW m \in 1..Size, \A l \in (m + 1)..Size : f[l] = w[l]
      PROVE  f[m] = w[m]
  <2>1. f[nodes[m].next] = w[nodes[m].next]
    BY <1>4, <1>5 DEF NULL
  <2> QED  BY <2>1, <1>4
<1>6. DOMAIN w = 0..Size /\ f[0] = w[0]
  BY <1>4, Zenon DEF NULL
<1>7. \A m \in 0..Size : f[m] = w[m]
  <2> HIDE DEF Eq
  <2> DEFINE T == {m \in 1..Size : f[m] = w[m]}
  <2>1. \A m \in 1..Size : (m + 1)..Size \subseteq T => m \in T
    BY <1>5
  <2> HIDE DEF T
  <2>2. 1..Size \subseteq T
    BY <2>1, Backwards
  <2>3. \A m \in 0..Size : m = 0 \/ m \in 1..Size
    BY FromZero, Zenon
  <2>4. \A m \in T : f[m] = w[m]
    BY DEF T
  <2>5. \A m \in 1..Size : f[m] = w[m]
    BY <2>2, <2>4
  <2> HIDE DEF f
  <2> QED
    BY <2>3, <2>5, <1>6
<1>8. f = [n \in 0..Size |-> f[n]]
  <2>1. f = Eq(f)
    BY <1>3 DEF f
  <2> QED  BY <2>1, Zenon
<1>9. f = w
  BY <1>7, <1>8
<1> QED
  BY <1>9 DEF f

(* A node's later siblings are the children of its parent from it on. *)
LEMMA SiblingsAre ==
  ASSUME Size \in Nat, NEW par, NEW kids, NEW end, Family(par, kids, end, Size), Linked(kids)
  PROVE  /\ Siblings[NULL] = << >>
         /\ \A m \in 1..Size :
               Siblings[m] = SubSeq(kids[par[m]], PlaceIn(par, kids, m), Len(kids[par[m]]))
<1>1. PICK w : w = [n \in 0..Size |->
                       IF n = NULL THEN << >>
                       ELSE SubSeq(kids[par[n]], PlaceIn(par, kids, n), Len(kids[par[n]]))]
  OBVIOUS
<1>2. /\ w = [n \in 0..Size |-> w[n]]
      /\ w[NULL] = << >>
      /\ \A m \in 1..Size :
            w[m] = SubSeq(kids[par[m]], PlaceIn(par, kids, m), Len(kids[par[m]]))
  <2>1. w[NULL] = << >> /\ w = [n \in 0..Size |-> w[n]]
    BY <1>1 DEF NULL
  <2>2. ASSUME NEW m \in 1..Size
        PROVE  w[m] = SubSeq(kids[par[m]], PlaceIn(par, kids, m), Len(kids[par[m]]))
    <3>1. m \in 0..Size /\ m # NULL
      BY DEF NULL
    <3> QED  BY <3>1, <1>1, Zenon
  <2> QED
    BY <2>1, <2>2
<1>3. ASSUME NEW m \in 1..Size
      PROVE  /\ w[m] = << m >> \o w[nodes[m].next]
             /\ nodes[m].next = NULL \/ nodes[m].next \in (m + 1)..Size
  <2>1. PICK s, i : s = kids[par[m]] /\ i = PlaceIn(par, kids, m)
    OBVIOUS
  <2>2. /\ i \in 1..Len(s) /\ s[i] = m /\ s \in Seq(1..Size)
        /\ i = Len(s) => nodes[m].next = NULL
        /\ i # Len(s) =>
              /\ nodes[m].next \in (m + 1)..Size
              /\ par[nodes[m].next] = par[m]
              /\ PlaceIn(par, kids, nodes[m].next) = i + 1
    BY <2>1, NextSibling
  <2>3. w[m] = SubSeq(s, i, Len(s))
    BY <1>2, <2>1
  <2>4. CASE i = Len(s)
    <3>1. SubSeq(s, i, Len(s)) = << m >> /\ w[nodes[m].next] = << >>
      <4>1. SubSeq(s, i, Len(s)) = << s[i] >>
        BY <2>2, <2>4, LastPart, Zenon
      <4> QED
        BY <4>1, <2>2, <2>4, <1>2, Zenon
    <3> QED
      BY <3>1, <2>2, <2>3, <2>4
  <2>5. CASE i # Len(s)
    <3>1. nodes[m].next \in 1..Size
      BY <2>2, <2>5
    <3>2. w[nodes[m].next] = SubSeq(s, i + 1, Len(s))
      BY <1>2, <2>1, <2>2, <2>5, <3>1
    <3>3. SubSeq(s, i, Len(s)) = << s[i] >> \o SubSeq(s, i + 1, Len(s))
      BY <2>2
    <3> QED
      BY <3>2, <3>3, <2>2, <2>3, <2>5
  <2> QED
    BY <2>4, <2>5
<1>4. Siblings = w
  BY <1>2, <1>3, SiblingsIs
<1> QED
  BY <1>2, <1>4
-----------------------------------------------------------------------------
(* Numbers in a row, forwards and backwards. *)
Run(a, b) == [i \in 1..(b - a + 1) |-> a + i - 1]
Back(b, a) == [i \in 1..(b - a + 1) |-> b - i + 1]

(* How long they are and what is at each place of them. *)
LEMMA RunsAre ==
  ASSUME NEW a \in Nat, NEW b \in Nat, a <= b + 1
  PROVE  /\ Run(a, b) \in Seq(Nat) /\ Len(Run(a, b)) = b - a + 1
         /\ Back(b, a) \in Seq(Nat) /\ Len(Back(b, a)) = b - a + 1
         /\ \A i \in 1..(b - a + 1) : Run(a, b)[i] = a + i - 1 /\ Back(b, a)[i] = b - i + 1
<1>1. PICK n \in Nat : n = b - a + 1
  OBVIOUS
<1>2. \A i \in 1..n : a + i - 1 \in Nat /\ b - i + 1 \in Nat
  BY <1>1
<1>3. [i \in 1..n |-> a + i - 1] \in Seq(Nat) /\ [i \in 1..n |-> b - i + 1] \in Seq(Nat)
  BY <1>2
<1> QED
  BY <1>1, <1>3 DEF Run, Back

(* A row that ends before it begins is empty, *)
LEMMA RunNone ==
  ASSUME NEW b \in Nat
  PROVE  Run(b + 1, b) = << >> /\ Back(b, b + 1) = << >>
BY DEF Run, Back

(* one that ends where it begins has one number, *)
LEMMA RunOne ==
  ASSUME NEW a \in Nat
  PROVE  Run(a, a) = << a >> /\ Back(a, a) = << a >>
BY DEF Run, Back

(* A sequence of two parts is the one joined to the other. *)
LEMMA TwoParts ==
  ASSUME NEW r \in Seq(Nat), NEW s \in Seq(Nat), NEW t \in Seq(Nat),
         Len(t) = Len(r) + Len(s),
         \A i \in 1..Len(r) : t[i] = r[i],
         \A i \in 1..Len(s) : t[Len(r) + i] = s[i]
  PROVE  r \o s = t
<1>1. r \o s \in Seq(Nat) /\ Len(r \o s) = Len(t)
  BY ConcatProperties
<1>2. ASSUME NEW i \in 1..Len(t) PROVE (r \o s)[i] = t[i]
  <2>1. (r \o s)[i] = IF i <= Len(r) THEN r[i] ELSE s[i - Len(r)]
    BY ConcatProperties
  <2>2. Len(r) \in Nat /\ Len(s) \in Nat
    OBVIOUS
  <2>3. CASE i <= Len(r)
    BY <2>1, <2>2, <2>3
  <2>4. CASE ~ (i <= Len(r))
    <3>1. i - Len(r) \in 1..Len(s) /\ Len(r) + (i - Len(r)) = i
      BY <2>2, <2>4
    <3>2. t[Len(r) + (i - Len(r))] = s[i - Len(r)]
      BY <3>1
    <3> QED  BY <2>1, <2>4, <3>1, <3>2
  <2> QED
    BY <2>3, <2>4
<1> QED
  BY <1>1, <1>2, SeqEqual

(* and two that meet are one. *)
LEMMA RunsJoin ==
  ASSUME NEW a \in Nat, NEW b \in Nat, NEW c \in Nat, a <= b + 1, b <= c
  PROVE  Run(a, b) \o Run(b + 1, c) = Run(a, c)
<1>1. /\ b + 1 \in Nat /\ b + 1 <= c + 1 /\ a <= c + 1
      /\ c - (b + 1) + 1 = c - b /\ c - a + 1 = (b - a + 1) + (c - b)
      /\ b - a + 1 \in Nat /\ c - b \in Nat
  OBVIOUS
<1>2. /\ Run(a, b) \in Seq(Nat) /\ Len(Run(a, b)) = b - a + 1
      /\ \A i \in 1..(b - a + 1) : Run(a, b)[i] = a + i - 1
  BY RunsAre
<1>3. /\ Run(b + 1, c) \in Seq(Nat) /\ Len(Run(b + 1, c)) = c - b
      /\ \A i \in 1..(c - b) : Run(b + 1, c)[i] = (b + 1) + i - 1
  <2>1. /\ Run(b + 1, c) \in Seq(Nat) /\ Len(Run(b + 1, c)) = c - (b + 1) + 1
        /\ \A i \in 1..(c - (b + 1) + 1) : Run(b + 1, c)[i] = (b + 1) + i - 1
    BY <1>1, RunsAre
  <2> QED
    BY <2>1, <1>1
<1>4. /\ Run(a, c) \in Seq(Nat) /\ Len(Run(a, c)) = c - a + 1
      /\ \A i \in 1..(c - a + 1) : Run(a, c)[i] = a + i - 1
  BY <1>1, RunsAre
<1>5. \A i \in 1..(b - a + 1) : Run(a, c)[i] = Run(a, b)[i]
  BY <1>1, <1>2, <1>4
<1>6. \A i \in 1..(c - b) : Run(a, c)[(b - a + 1) + i] = Run(b + 1, c)[i]
  <2> SUFFICES ASSUME NEW i \in 1..(c - b)
               PROVE  Run(a, c)[(b - a + 1) + i] = Run(b + 1, c)[i]
    OBVIOUS
  <2>1. (b - a + 1) + i \in 1..(c - a + 1) /\ a + ((b - a + 1) + i) - 1 = (b + 1) + i - 1
    BY <1>1
  <2> QED
    BY <2>1, <1>3, <1>4
<1>7. /\ Len(Run(a, c)) = Len(Run(a, b)) + Len(Run(b + 1, c))
      /\ \A i \in 1..Len(Run(a, b)) : Run(a, c)[i] = Run(a, b)[i]
      /\ \A i \in 1..Len(Run(b + 1, c)) : Run(a, c)[Len(Run(a, b)) + i] = Run(b + 1, c)[i]
  BY <1>1, <1>2, <1>3, <1>4, <1>5, <1>6, Zenon
<1> QED
  BY <1>2, <1>3, <1>4, <1>7, TwoParts

(* Backwards, the later numbers come first. *)
LEMMA BacksJoin ==
  ASSUME NEW a \in Nat, NEW b \in Nat, NEW c \in Nat, a <= b + 1, b <= c
  PROVE  Back(c, b + 1) \o Back(b, a) = Back(c, a)
<1>1. /\ b + 1 \in Nat /\ b + 1 <= c + 1 /\ a <= c + 1
      /\ c - (b + 1) + 1 = c - b /\ c - a + 1 = (c - b) + (b - a + 1)
      /\ b - a + 1 \in Nat /\ c - b \in Nat
  OBVIOUS
<1>2. /\ Back(b, a) \in Seq(Nat) /\ Len(Back(b, a)) = b - a + 1
      /\ \A i \in 1..(b - a + 1) : Back(b, a)[i] = b - i + 1
  BY RunsAre
<1>3. /\ Back(c, b + 1) \in Seq(Nat) /\ Len(Back(c, b + 1)) = c - b
      /\ \A i \in 1..(c - b) : Back(c, b + 1)[i] = c - i + 1
  <2>1. /\ Back(c, b + 1) \in Seq(Nat) /\ Len(Back(c, b + 1)) = c - (b + 1) + 1
        /\ \A i \in 1..(c - (b + 1) + 1) : Back(c, b + 1)[i] = c - i + 1
    BY <1>1, RunsAre
  <2> QED
    BY <2>1, <1>1
<1>4. /\ Back(c, a) \in Seq(Nat) /\ Len(Back(c, a)) = c - a + 1
      /\ \A i \in 1..(c - a + 1) : Back(c, a)[i] = c - i + 1
  BY <1>1, RunsAre
<1>5. \A i \in 1..(c - b) : Back(c, a)[i] = Back(c, b + 1)[i]
  BY <1>1, <1>3, <1>4
<1>6. \A i \in 1..(b - a + 1) : Back(c, a)[(c - b) + i] = Back(b, a)[i]
  <2> SUFFICES ASSUME NEW i \in 1..(b - a + 1)
               PROVE  Back(c, a)[(c - b) + i] = Back(b, a)[i]
    OBVIOUS
  <2>1. (c - b) + i \in 1..(c - a + 1) /\ c - ((c - b) + i) + 1 = b - i + 1
    BY <1>1
  <2> QED
    BY <2>1, <1>2, <1>4
<1>7. /\ Len(Back(c, a)) = Len(Back(c, b + 1)) + Len(Back(b, a))
      /\ \A i \in 1..Len(Back(c, b + 1)) : Back(c, a)[i] = Back(c, b + 1)[i]
      /\ \A i \in 1..Len(Back(b, a)) : Back(c, a)[Len(Back(c, b + 1)) + i] = Back(b, a)[i]
  BY <1>1, <1>2, <1>3, <1>4, <1>5, <1>6, Zenon
<1> QED
  BY <1>2, <1>3, <1>4, <1>7, TwoParts

(* Where a node's first child and next sibling are. *)
LEMMA Extents ==
  ASSUME Size \in Nat, NEW par, NEW kids, NEW end, Family(par, kids, end, Size), Linked(kids),
         NEW m \in 1..Size
  PROVE  /\ par[m] \in 0..Size /\ end[par[m]] \in 0..Size /\ end[m] \in 0..Size
         /\ m <= end[m] /\ end[m] <= end[par[m]]
         /\ \/ nodes[m].child = NULL /\ end[m] = m
            \/ /\ nodes[m].child = m + 1 /\ m + 1 \in (m + 1)..Size /\ par[m + 1] = m
         /\ \/ nodes[m].next = NULL /\ end[par[m]] = end[m]
            \/ /\ nodes[m].next = end[m] + 1 /\ end[m] + 1 \in (m + 1)..Size
               /\ par[end[m] + 1] = par[m]
<1>1. PICK s, i : s = kids[par[m]] /\ i = PlaceIn(par, kids, m)
  OBVIOUS
<1>2. /\ i \in 1..Len(s) /\ s[i] = m /\ s \in Seq(1..Size)
      /\ i = Len(s) => nodes[m].next = NULL
      /\ i # Len(s) =>
            /\ nodes[m].next \in (m + 1)..Size
            /\ nodes[m].next = s[i + 1]
            /\ par[nodes[m].next] = par[m]
            /\ PlaceIn(par, kids, nodes[m].next) = i + 1
  BY <1>1, NextSibling, SMTT(30)
<1>3. par[m] \in 0..Size /\ kids[m] \in Seq(1..Size)
  <2>1. Kin(par, kids, Size)
    BY DEF Family
  <2>2. m \in 0..Size
    OBVIOUS
  <2> QED
    BY <2>1, <2>2, Places DEF Kin
<1>4. /\ end[par[m]] \in 0..Size /\ end[m] \in 0..Size /\ m <= end[m]
      /\ \A p \in 1..Size : p <= end[p] /\ end[p] \in 0..Size
  BY <1>3 DEF Family, Ends
<1>5. end[s[Len(s)]] = end[par[m]] /\ \A j \in 1..(Len(s) - 1) : s[j + 1] = end[s[j]] + 1
  <2>1. s # << >>
    BY <1>2
  <2> QED
    BY <2>1, <1>1, <1>3 DEF Family, Ends
<1>6. \/ nodes[m].child = NULL /\ end[m] = m
      \/ /\ nodes[m].child = m + 1 /\ m + 1 \in (m + 1)..Size /\ par[m + 1] = m
  <2>1. CASE kids[m] = << >>
    BY <2>1 DEF Family, Ends, Linked
  <2>2. CASE kids[m] # << >>
    <3>1. 1 \in 1..Len(kids[m]) /\ kids[m][1] \in 1..Size
      BY <1>3, <2>2
    <3>2. kids[m][1] = m + 1
      <4>1. Ends(kids, end, Size) /\ m \in 0..Size
        BY DEF Family
      <4> QED  BY <4>1, <2>2 DEF Ends
    <3>4. par[kids[m][1]] = m
      <4>1. Kin(par, kids, Size) /\ m \in 0..Size
        BY DEF Family
      <4> QED  BY <4>1, <3>1 DEF Kin
    <3>3. nodes[m].child = m + 1
      BY <2>2, <3>2 DEF Linked
    <3> QED
      BY <3>1, <3>2, <3>3, <3>4
  <2> QED
    BY <2>1, <2>2
<1>7. CASE i = Len(s)
  <2>1. end[par[m]] = end[m]
    BY <1>2, <1>5, <1>7
  <2> QED
    BY <2>1, <1>2, <1>3, <1>4, <1>6, <1>7
<1>8. CASE i # Len(s)
  <2>1. i \in 1..(Len(s) - 1) /\ i + 1 \in 1..Len(s) /\ Len(s) \in 1..Len(s)
    BY <1>2, <1>8
  <2>2. nodes[m].next = end[m] + 1
    BY <1>2, <1>5, <1>8, <2>1
  <2>3. s[i + 1] <= s[Len(s)]
    <3>1. i + 1 = Len(s) \/ i + 1 < Len(s)
      BY <2>1
    <3>2. i + 1 < Len(s) => s[i + 1] < s[Len(s)]
      BY <1>1, <1>3, <2>1, LineOnce
    <3>3. s[i + 1] \in 1..Size /\ s[Len(s)] \in 1..Size
      BY <1>2, <2>1
    <3> QED
      BY <3>1, <3>2, <3>3
  <2>4. s[Len(s)] \in 1..Size /\ s[Len(s)] <= end[s[Len(s)]] /\ s[i + 1] = end[m] + 1
    BY <1>2, <1>4, <1>8, <2>1, <2>2
  <2>5. end[m] <= end[par[m]]
    BY <2>3, <2>4, <1>4, <1>5
  <2> QED
    BY <2>2, <2>5, <1>2, <1>3, <1>4, <1>6, <1>8
<1> QED
  BY <1>7, <1>8

(* What obeys the equations of the walk that writes is that walk, *)
LEMMA WrittenIs ==
  ASSUME Size \in Nat, NEW w, w = [n \in 0..Size |-> w[n]],
         w[NULL] = << >>,
         \A m \in 1..Size :
            /\ w[m] = << m >> \o w[nodes[m].child] \o w[nodes[m].next]
            /\ nodes[m].child = NULL \/ nodes[m].child \in (m + 1)..Size
            /\ nodes[m].next = NULL \/ nodes[m].next \in (m + 1)..Size
  PROVE  Written = w
<1> DEFINE Eq(g) == [n \in 0..Size |->
                        IF n = NULL THEN << >>
                        ELSE << n >> \o g[nodes[n].child] \o g[nodes[n].next]]
<1>1. w = Eq(w)
  <2>1. ASSUME NEW n \in 0..Size
        PROVE  w[n] = IF n = NULL THEN << >>
                      ELSE << n >> \o w[nodes[n].child] \o w[nodes[n].next]
    <3>1. CASE n = NULL
      BY <3>1, Zenon
    <3>2. CASE n # NULL
      <4>1. n \in 1..Size
        BY <3>2, FromZero, Zenon DEF NULL
      <4> QED  BY <3>2, <4>1, Zenon
    <3> QED  BY <3>1, <3>2
  <2> QED
    BY <2>1, Zenon
<1>2. Written = CHOOSE g : g = Eq(g)
  BY DEF Written, Size
<1>3. Written = Eq(Written)
  <2> HIDE DEF Eq
  <2> QED  BY <1>1, <1>2, Zenon
<1> DEFINE f == Written
<1>4. DOMAIN f = 0..Size /\ f[0] = << >>
      /\ \A m \in 1..Size : f[m] = << m >> \o f[nodes[m].child] \o f[nodes[m].next]
  <2> HIDE DEF f
  <2>1. f = Eq(f)
    BY <1>3 DEF f
  <2>2. DOMAIN f = 0..Size /\ \A n \in 0..Size : f[n] = Eq(f)[n]
    BY <2>1, ZenonT(30)
  <2>3. 0 \in 0..Size /\ \A m \in 1..Size : m \in 0..Size /\ m # 0
    BY FromZero, Zenon
  <2> QED
    BY <2>2, <2>3, Zenon DEF NULL
<1> HIDE DEF f
<1>5. ASSUME NEW m \in 1..Size, \A l \in (m + 1)..Size : f[l] = w[l]
      PROVE  f[m] = w[m]
  <2>1. f[nodes[m].next] = w[nodes[m].next] /\ f[nodes[m].child] = w[nodes[m].child]
    BY <1>4, <1>5 DEF NULL
  <2> QED  BY <2>1, <1>4
<1>6. DOMAIN w = 0..Size /\ f[0] = w[0]
  BY <1>4, Zenon DEF NULL
<1>7. \A m \in 0..Size : f[m] = w[m]
  <2> HIDE DEF Eq
  <2> DEFINE T == {m \in 1..Size : f[m] = w[m]}
  <2>1. \A m \in 1..Size : (m + 1)..Size \subseteq T => m \in T
    BY <1>5
  <2> HIDE DEF T
  <2>2. 1..Size \subseteq T
    BY <2>1, Backwards
  <2>3. \A m \in 0..Size : m = 0 \/ m \in 1..Size
    BY FromZero, Zenon
  <2>4. \A m \in T : f[m] = w[m]
    BY DEF T
  <2>5. \A m \in 1..Size : f[m] = w[m]
    BY <2>2, <2>4
  <2> HIDE DEF f
  <2> QED
    BY <2>3, <2>5, <1>6
<1>8. f = [n \in 0..Size |-> f[n]]
  <2>1. f = Eq(f)
    BY <1>3 DEF f
  <2> QED  BY <2>1, Zenon
<1>9. f = w
  BY <1>7, <1>8
<1> QED
  BY <1>9 DEF f

(* and of the walk that frees. *)
LEMMA FreedIs ==
  ASSUME Size \in Nat, NEW w, w = [n \in 0..Size |-> w[n]],
         w[NULL] = << >>,
         \A m \in 1..Size :
            /\ w[m] = w[nodes[m].next] \o w[nodes[m].child] \o << m >>
            /\ nodes[m].child = NULL \/ nodes[m].child \in (m + 1)..Size
            /\ nodes[m].next = NULL \/ nodes[m].next \in (m + 1)..Size
  PROVE  Freed = w
<1> DEFINE Eq(g) == [n \in 0..Size |->
                        IF n = NULL THEN << >>
                        ELSE g[nodes[n].next] \o g[nodes[n].child] \o << n >>]
<1>1. w = Eq(w)
  <2>1. ASSUME NEW n \in 0..Size
        PROVE  w[n] = IF n = NULL THEN << >>
                      ELSE w[nodes[n].next] \o w[nodes[n].child] \o << n >>
    <3>1. CASE n = NULL
      BY <3>1, Zenon
    <3>2. CASE n # NULL
      <4>1. n \in 1..Size
        BY <3>2, FromZero, Zenon DEF NULL
      <4> QED  BY <3>2, <4>1, Zenon
    <3> QED  BY <3>1, <3>2
  <2> QED
    BY <2>1, Zenon
<1>2. Freed = CHOOSE g : g = Eq(g)
  BY DEF Freed, Size
<1>3. Freed = Eq(Freed)
  <2> HIDE DEF Eq
  <2> QED  BY <1>1, <1>2, Zenon
<1> DEFINE f == Freed
<1>4. DOMAIN f = 0..Size /\ f[0] = << >>
      /\ \A m \in 1..Size : f[m] = f[nodes[m].next] \o f[nodes[m].child] \o << m >>
  <2> HIDE DEF f
  <2>1. f = Eq(f)
    BY <1>3 DEF f
  <2>2. DOMAIN f = 0..Size /\ \A n \in 0..Size : f[n] = Eq(f)[n]
    BY <2>1, ZenonT(30)
  <2>3. 0 \in 0..Size /\ \A m \in 1..Size : m \in 0..Size /\ m # 0
    BY FromZero, Zenon
  <2> QED
    BY <2>2, <2>3, Zenon DEF NULL
<1> HIDE DEF f
<1>5. ASSUME NEW m \in 1..Size, \A l \in (m + 1)..Size : f[l] = w[l]
      PROVE  f[m] = w[m]
  <2>1. f[nodes[m].next] = w[nodes[m].next] /\ f[nodes[m].child] = w[nodes[m].child]
    BY <1>4, <1>5 DEF NULL
  <2> QED  BY <2>1, <1>4
<1>6. DOMAIN w = 0..Size /\ f[0] = w[0]
  BY <1>4, Zenon DEF NULL
<1>7. \A m \in 0..Size : f[m] = w[m]
  <2> HIDE DEF Eq
  <2> DEFINE T == {m \in 1..Size : f[m] = w[m]}
  <2>1. \A m \in 1..Size : (m + 1)..Size \subseteq T => m \in T
    BY <1>5
  <2> HIDE DEF T
  <2>2. 1..Size \subseteq T
    BY <2>1, Backwards
  <2>3. \A m \in 0..Size : m = 0 \/ m \in 1..Size
    BY FromZero, Zenon
  <2>4. \A m \in T : f[m] = w[m]
    BY DEF T
  <2>5. \A m \in 1..Size : f[m] = w[m]
    BY <2>2, <2>4
  <2> HIDE DEF f
  <2> QED
    BY <2>3, <2>5, <1>6
<1>8. f = [n \in 0..Size |-> f[n]]
  <2>1. f = Eq(f)
    BY <1>3 DEF f
  <2> QED  BY <2>1, Zenon
<1>9. f = w
  BY <1>7, <1>8
<1> QED
  BY <1>9 DEF f


(* From a node on, what is written is all up to the end of its parent, *)
LEMMA WrittenAre ==
  ASSUME Size \in Nat, NEW par, NEW kids, NEW end, Family(par, kids, end, Size), Linked(kids)
  PROVE  /\ Written[NULL] = << >>
         /\ \A m \in 1..Size : Written[m] = Run(m, end[par[m]])
<1>1. PICK w : w = [n \in 0..Size |-> IF n = NULL THEN << >> ELSE Run(n, end[par[n]])]
  OBVIOUS
<1>2. /\ w = [n \in 0..Size |-> w[n]]
      /\ w[NULL] = << >>
      /\ \A m \in 1..Size : w[m] = Run(m, end[par[m]])
  <2>1. w[NULL] = << >> /\ w = [n \in 0..Size |-> w[n]]
    BY <1>1 DEF NULL
  <2>2. ASSUME NEW m \in 1..Size
        PROVE  w[m] = Run(m, end[par[m]])
    <3>1. m \in 0..Size /\ m # NULL
      BY DEF NULL
    <3> QED  BY <3>1, <1>1, Zenon
  <2> QED
    BY <2>1, <2>2
<1>3. ASSUME NEW m \in 1..Size
      PROVE  /\ w[m] = << m >> \o w[nodes[m].child] \o w[nodes[m].next]
             /\ nodes[m].child = NULL \/ nodes[m].child \in (m + 1)..Size
             /\ nodes[m].next = NULL \/ nodes[m].next \in (m + 1)..Size
  <2>1. PICK a, b : a = end[m] /\ b = end[par[m]]
    OBVIOUS
  <2>2. /\ a \in 0..Size /\ b \in 0..Size /\ m <= a /\ a <= b
        /\ \/ nodes[m].child = NULL /\ a = m
           \/ /\ nodes[m].child = m + 1 /\ m + 1 \in (m + 1)..Size /\ par[m + 1] = m
        /\ \/ nodes[m].next = NULL /\ a = b
           \/ /\ nodes[m].next = a + 1 /\ a + 1 \in (m + 1)..Size
              /\ par[a + 1] = par[m]
    BY <2>1, Extents
  <2>3. w[nodes[m].child] = Run(m + 1, a)
    <3>1. CASE nodes[m].child = NULL /\ a = m
      BY <3>1, <1>2, RunNone
    <3>2. CASE nodes[m].child = m + 1 /\ m + 1 \in (m + 1)..Size /\ par[m + 1] = m
      <4>1. m + 1 \in 1..Size
        BY <3>2
      <4> QED  BY <3>2, <4>1, <1>2, <2>1
    <3> QED  BY <3>1, <3>2, <2>2
  <2>4. w[nodes[m].next] = Run(a + 1, b)
    <3>1. CASE nodes[m].next = NULL /\ a = b
      BY <3>1, <1>2, <2>2, RunNone
    <3>2. CASE nodes[m].next = a + 1 /\ a + 1 \in (m + 1)..Size /\ par[a + 1] = par[m]
      <4>1. a + 1 \in 1..Size
        BY <3>2, <2>2
      <4> QED  BY <3>2, <4>1, <1>2, <2>1
    <3> QED  BY <3>1, <3>2, <2>2
  <2>5. Run(m, m) = << m >> /\ Run(m, m) \o Run(m + 1, a) = Run(m, a)
        /\ Run(m, a) \o Run(a + 1, b) = Run(m, b)
    <3>1. m \in Nat /\ a \in Nat /\ b \in Nat /\ m <= m + 1 /\ m <= a + 1
      BY <2>2
    <3>2. Run(m, m) \o Run(m + 1, a) = Run(m, a)
      BY <3>1, <2>2, RunsJoin
    <3>3. Run(m, a) \o Run(a + 1, b) = Run(m, b)
      BY <3>1, <2>2, RunsJoin
    <3> QED  BY <3>1, <3>2, <3>3, RunOne
  <2>6. w[m] = Run(m, b)
    BY <1>2, <2>1
  <2>7. w[m] = (<< m >> \o w[nodes[m].child]) \o w[nodes[m].next]
    BY <2>3, <2>4, <2>5, <2>6
  <2> QED
    BY <2>2, <2>7
<1>4. Written = w
  BY <1>2, <1>3, WrittenIs
<1> QED
  BY <1>2, <1>4

(* and what is freed is the same, backwards. *)
LEMMA FreedAre ==
  ASSUME Size \in Nat, NEW par, NEW kids, NEW end, Family(par, kids, end, Size), Linked(kids)
  PROVE  /\ Freed[NULL] = << >>
         /\ \A m \in 1..Size : Freed[m] = Back(end[par[m]], m)
<1>1. PICK w : w = [n \in 0..Size |-> IF n = NULL THEN << >> ELSE Back(end[par[n]], n)]
  OBVIOUS
<1>2. /\ w = [n \in 0..Size |-> w[n]]
      /\ w[NULL] = << >>
      /\ \A m \in 1..Size : w[m] = Back(end[par[m]], m)
  <2>1. w[NULL] = << >> /\ w = [n \in 0..Size |-> w[n]]
    BY <1>1 DEF NULL
  <2>2. ASSUME NEW m \in 1..Size
        PROVE  w[m] = Back(end[par[m]], m)
    <3>1. m \in 0..Size /\ m # NULL
      BY DEF NULL
    <3> QED  BY <3>1, <1>1, Zenon
  <2> QED
    BY <2>1, <2>2
<1>3. ASSUME NEW m \in 1..Size
      PROVE  /\ w[m] = w[nodes[m].next] \o w[nodes[m].child] \o << m >>
             /\ nodes[m].child = NULL \/ nodes[m].child \in (m + 1)..Size
             /\ nodes[m].next = NULL \/ nodes[m].next \in (m + 1)..Size
  <2>1. PICK a, b : a = end[m] /\ b = end[par[m]]
    OBVIOUS
  <2>2. /\ a \in 0..Size /\ b \in 0..Size /\ m <= a /\ a <= b
        /\ \/ nodes[m].child = NULL /\ a = m
           \/ /\ nodes[m].child = m + 1 /\ m + 1 \in (m + 1)..Size /\ par[m + 1] = m
        /\ \/ nodes[m].next = NULL /\ a = b
           \/ /\ nodes[m].next = a + 1 /\ a + 1 \in (m + 1)..Size
              /\ par[a + 1] = par[m]
    BY <2>1, Extents
  <2>3. w[nodes[m].child] = Back(a, m + 1)
    <3>1. CASE nodes[m].child = NULL /\ a = m
      BY <3>1, <1>2, RunNone
    <3>2. CASE nodes[m].child = m + 1 /\ m + 1 \in (m + 1)..Size /\ par[m + 1] = m
      <4>1. m + 1 \in 1..Size
        BY <3>2
      <4> QED  BY <3>2, <4>1, <1>2, <2>1
    <3> QED  BY <3>1, <3>2, <2>2
  <2>4. w[nodes[m].next] = Back(b, a + 1)
    <3>1. CASE nodes[m].next = NULL /\ a = b
      BY <3>1, <1>2, <2>2, RunNone
    <3>2. CASE nodes[m].next = a + 1 /\ a + 1 \in (m + 1)..Size /\ par[a + 1] = par[m]
      <4>1. a + 1 \in 1..Size
        BY <3>2, <2>2
      <4> QED  BY <3>2, <4>1, <1>2, <2>1
    <3> QED  BY <3>1, <3>2, <2>2
  <2>5. /\ Back(m, m) = << m >>
        /\ Back(b, a + 1) \o Back(a, m + 1) = Back(b, m + 1)
        /\ Back(b, m + 1) \o Back(m, m) = Back(b, m)
    <3>1. /\ m \in Nat /\ a \in Nat /\ b \in Nat /\ m + 1 \in Nat
          /\ m <= m + 1 /\ m <= b /\ m + 1 <= a + 1
      BY <2>2
    <3>2. Back(b, a + 1) \o Back(a, m + 1) = Back(b, m + 1)
      BY <3>1, <2>2, BacksJoin
    <3>3. Back(b, m + 1) \o Back(m, m) = Back(b, m)
      BY <3>1, <2>2, BacksJoin
    <3> QED  BY <3>1, <3>2, <3>3, RunOne
  <2>6. w[m] = Back(b, m)
    BY <1>2, <2>1
  <2>7. w[m] = (w[nodes[m].next] \o w[nodes[m].child]) \o << m >>
    BY <2>3, <2>4, <2>5, <2>6
  <2> QED
    BY <2>2, <2>7
<1>4. Freed = w
  BY <1>2, <1>3, FreedIs
<1> QED
  BY <1>2, <1>4

(* The walk from a node's first child comes by all of its children, *)
LEMMA ChildrenAre ==
  ASSUME Size \in Nat, NEW par, NEW kids, NEW end, Family(par, kids, end, Size), Linked(kids),
         NEW p \in 1..Size
  PROVE  Children(p) = kids[p] /\ kids[p] \in Seq(1..Size)
<1>1. p \in 0..Size /\ kids[p] \in Seq(1..Size) /\ Kin(par, kids, Size)
  BY DEF Family, Kin
<1>2. CASE kids[p] = << >>
  <2>1. nodes[p].child = NULL
    BY <1>2 DEF Linked
  <2>2. Siblings[NULL] = << >>
    BY SiblingsAre
  <2> QED
    BY <1>1, <1>2, <2>1, <2>2 DEF Children
<1>3. CASE kids[p] # << >>
  <2>1. 1 \in 1..Len(kids[p]) /\ kids[p][1] \in 1..Size /\ nodes[p].child = kids[p][1]
    BY <1>1, <1>3 DEF Linked
  <2>2. PICK c : c = kids[p][1]
    OBVIOUS
  <2>3. par[c] = p
    <3>1. \A i \in 1..Len(kids[p]) : p < kids[p][i] /\ par[kids[p][i]] = p
      BY <1>1, KidsRise
    <3> QED  BY <2>1, <2>2, <3>1
  <2>4. PlaceIn(par, kids, c) \in 1..Len(kids[p]) /\ kids[p][PlaceIn(par, kids, c)] = c
    <3>1. c \in 1..Size
      BY <2>1, <2>2
    <3> QED  BY <1>1, <2>3, <3>1, Places
  <2>5. PlaceIn(par, kids, c) = 1
    <3>1. \A j \in 1..Len(kids[p]) : kids[p][j] = kids[p][1] => j = 1
      BY <1>1, <2>1, LineOnce
    <3> QED  BY <2>2, <2>4, <3>1
  <2>6. Siblings[c] = SubSeq(kids[par[c]], PlaceIn(par, kids, c), Len(kids[par[c]]))
    BY <2>1, <2>2, SiblingsAre
  <2>7. Siblings[c] = SubSeq(kids[p], 1, Len(kids[p]))
    BY <2>3, <2>5, <2>6
  <2>8. SubSeq(kids[p], 1, Len(kids[p])) = kids[p]
    BY <1>1, SubSeqFull
  <2> QED
    BY <1>1, <2>1, <2>2, <2>7, <2>8 DEF Children
<1> QED
  BY <1>2, <1>3

(* so that it finds the parent of each. *)
LEMMA ParentsAre ==
  ASSUME Size \in Nat, NEW par, NEW kids, NEW end, Family(par, kids, end, Size), Linked(kids),
         DOMAIN nodes = 1..Size, NEW n \in 1..Size
  PROVE  ParentOf(n) = par[n]
<1>1. Kin(par, kids, Size)
  BY DEF Family
<1>2. /\ par[n] \in 0..Size /\ par[n] < n
      /\ PlaceIn(par, kids, n) \in 1..Len(kids[par[n]])
      /\ kids[par[n]][PlaceIn(par, kids, n)] = n
      /\ kids[par[n]] \in Seq(1..Size)
  BY <1>1, Places
<1>3. \A p \in 1..Size : n \in ToSet(Children(p)) <=> p = par[n]
  <2> SUFFICES ASSUME NEW p \in 1..Size PROVE n \in ToSet(Children(p)) <=> p = par[n]
    OBVIOUS
  <2>1. Children(p) = kids[p] /\ kids[p] \in Seq(1..Size)
    BY ChildrenAre
  <2>2. ASSUME n \in ToSet(Children(p)) PROVE p = par[n]
    <3>1. PICK i \in DOMAIN kids[p] : kids[p][i] = n
      BY <2>1, <2>2 DEF ToSet
    <3>2. p \in 0..Size /\ i \in 1..Len(kids[p])
      BY <2>1, <3>1
    <3> QED  BY <3>1, <3>2, KidsRise
  <2>3. ASSUME p = par[n] PROVE n \in ToSet(Children(p))
    <3>1. PlaceIn(par, kids, n) \in DOMAIN kids[p]
      BY <1>2, <2>1, <2>3
    <3> QED  BY <1>2, <2>1, <2>3, <3>1 DEF ToSet
  <2> QED
    BY <2>2, <2>3
<1>4. CASE par[n] = 0
  <2>1. ~ \E p \in DOMAIN nodes : n \in ToSet(Children(p))
    BY <1>3, <1>4
  <2> QED
    BY <1>4, <2>1 DEF ParentOf
<1>5. CASE par[n] # 0
  <2>1. par[n] \in DOMAIN nodes /\ \A p \in DOMAIN nodes : n \in ToSet(Children(p)) <=> p = par[n]
    BY <1>2, <1>3, <1>5
  <2> QED
    BY <2>1, Zenon DEF ParentOf
<1> QED
  BY <1>4, <1>5

(* The walks from the root. *)
LEMMA WalksAre ==
  ASSUME nodes \in Seq(Node), data.xml = IF nodes = << >> THEN NULL ELSE 1,
         NEW par, NEW kids, NEW end, Family(par, kids, end, Size), Linked(kids)
  PROVE  /\ Written[data.xml] = [n \in 1..Size |-> n]
         /\ IsInjective(Freed[data.xml])
         /\ ToSet(Freed[data.xml]) = 1..Size
<1>1. Size \in Nat /\ DOMAIN nodes = 1..Size
  BY DEF Size
<1>2. CASE Size = 0
  <2>1. data.xml = NULL
    BY <1>2 DEF Size
  <2>2. Written[data.xml] = << >> /\ Freed[data.xml] = << >>
    BY <1>1, <2>1, WrittenAre, FreedAre
  <2> QED
    BY <1>2, <2>2 DEF IsInjective, ToSet
<1>3. CASE Size # 0
  <2>1. data.xml = 1 /\ 1 \in 1..Size
    BY <1>1, <1>3 DEF Size
  <2>2. par[1] = 0 /\ end[0] = Size
    <3>1. par[1] \in Nat /\ par[1] < 1
      BY <2>1 DEF Family, Kin
    <3> QED  BY <3>1 DEF Family, Ends
  <2>3. Written[1] = Run(1, Size) /\ Freed[1] = Back(Size, 1)
    <3>1. Written[1] = Run(1, end[par[1]]) /\ Freed[1] = Back(end[par[1]], 1)
      BY <1>1, <2>1, WrittenAre, FreedAre
    <3> QED  BY <2>2, <3>1
  <2>4. Run(1, Size) = [n \in 1..Size |-> n]
    BY <1>1 DEF Run
  <2>5. Back(Size, 1) = [n \in 1..Size |-> Size - n + 1]
    BY <1>1 DEF Back
  <2>6. IsInjective(Back(Size, 1))
    BY <1>1, <2>5 DEF IsInjective
  <2>7. ToSet(Back(Size, 1)) = 1..Size
    <3>1. ASSUME NEW n \in 1..Size PROVE \E m \in 1..Size : Size - m + 1 = n
      <4>1. Size - n + 1 \in 1..Size /\ Size - (Size - n + 1) + 1 = n
        BY <1>1
      <4> QED  BY <4>1
    <3> QED
      BY <1>1, <2>5, <3>1 DEF ToSet
  <2> QED
    BY <2>1, <2>3, <2>4, <2>6, <2>7
<1> QED
  BY <1>2, <1>3

(* Every node is where a walk comes by it, and once. *)
LEMMA OnceEach ==
  IInv => EachNodeOnce
<1> SUFFICES ASSUME IInv PROVE EachNodeOnce
  OBVIOUS
<1>1. /\ nodes \in Seq(Node) /\ data.xml = IF nodes = << >> THEN NULL ELSE 1
      /\ Size \in Nat /\ DOMAIN nodes = 1..Size
  BY DEF IInv, Types, Size
<1>2. PICK par, kids, end : Family(par, kids, end, Size) /\ Linked(kids)
  BY DEF IInv, Shape
<1>3. /\ Written[data.xml] = [n \in 1..Size |-> n]
      /\ IsInjective(Freed[data.xml])
      /\ ToSet(Freed[data.xml]) = 1..Size
  BY <1>1, <1>2, WalksAre
<1>4. ASSUME NEW n \in 1..Size, NEW k \in DOMAIN Children(n), NEW l \in DOMAIN Children(n), k < l
      PROVE  Children(n)[k] < Children(n)[l]
  <2>1. Children(n) = kids[n] /\ kids[n] \in Seq(1..Size) /\ n \in 0..Size
    BY <1>1, <1>2, ChildrenAre
  <2>2. k \in 1..Len(kids[n]) /\ l \in 1..Len(kids[n])
    BY <2>1
  <2> QED
    BY <1>1, <1>2, <1>4, <2>1, <2>2, LineOnce
<1> QED
  BY <1>1, <1>3, <1>4 DEF EachNodeOnce
-----------------------------------------------------------------------------
(***************************************************************************)
(* An element begins: node n + 1 is the last child of c, and every element *)
(* on the path to c now ends with it.                                      *)
(***************************************************************************)
ParGrown(par, n, c) == [m \in 1..(n + 1) |-> IF m = n + 1 THEN c ELSE par[m]]
KidsGrown(kids, n, c) ==
    [p \in 0..(n + 1) |-> IF p = n + 1 THEN << >>
                          ELSE IF p = c THEN Append(kids[c], n + 1) ELSE kids[p]]
EndGrown(end, n, path) ==
    [m \in 0..(n + 1) |-> IF m = n + 1 \/ m \in path THEN n + 1 ELSE end[m]]

Branch(par, kids, end, n, c, path) ==
    /\ path \subseteq 0..n /\ 0 \in path /\ c \in path
    /\ \A m \in path : m <= c /\ end[m] = n /\ (m # 0 => par[m] \in path)
    /\ \A m \in path : m # c => \E i \in DOMAIN kids[m] : kids[m][i] \in path

(* On the path, it is the last child that is on it. *)
LEMMA LastOnPath ==
  ASSUME NEW n \in Nat, NEW par, NEW kids, NEW end, Family(par, kids, end, n),
         NEW c, NEW path, Branch(par, kids, end, n, c, path), NEW p \in 0..n
  PROVE  /\ kids[p] \in Seq(1..n)
         /\ \A i \in 1..Len(kids[p]) :
               kids[p][i] \in path => i = Len(kids[p]) /\ p \in path /\ p # c
         /\ p \in path /\ p # c => kids[p] # << >> /\ kids[p][Len(kids[p])] \in path
<1>1. /\ kids[p] \in Seq(1..n)
      /\ \A i \in 1..Len(kids[p]) : p < kids[p][i] /\ par[kids[p][i]] = p
  BY KidsRise
<1>2. ASSUME NEW i \in 1..Len(kids[p]), kids[p][i] \in path
      PROVE  i = Len(kids[p]) /\ p \in path /\ p # c
  <2>1. PICK m : m = kids[p][i]
    OBVIOUS
  <2>2. m \in 1..n /\ p < m /\ par[m] = p
    BY <1>1, <2>1
  <2>3. m <= c /\ end[m] = n /\ par[m] \in path /\ c \in 0..n
    <3>1. m \in path /\ m # 0
      BY <1>2, <2>1, <2>2
    <3>2. c \in path /\ path \subseteq 0..n
      BY DEF Branch
    <3> QED  BY <3>1, <3>2, Zenon DEF Branch
  <2>4. p \in path /\ p # c
    BY <2>2, <2>3
  <2>5. i = Len(kids[p])
    <3> SUFFICES ASSUME i # Len(kids[p]) PROVE FALSE
      OBVIOUS
    <3>1. i \in 1..(Len(kids[p]) - 1) /\ i + 1 \in 1..Len(kids[p])
      BY <1>1
    <3>2. kids[p][i + 1] = end[kids[p][i]] + 1
      BY <3>1 DEF Family, Ends
    <3>3. kids[p][i + 1] \in 1..n
      BY <1>1, <3>1
    <3> QED  BY <2>1, <2>3, <3>2, <3>3
  <2> QED
    BY <2>4, <2>5
<1>3. ASSUME p \in path, p # c PROVE kids[p] # << >> /\ kids[p][Len(kids[p])] \in path
  <2>1. PICK i \in DOMAIN kids[p] : kids[p][i] \in path
    BY <1>3 DEF Branch
  <2>2. i \in 1..Len(kids[p])
    BY <1>1, <2>1
  <2> QED
    BY <1>1, <1>2, <2>1, <2>2
<1> QED
  BY <1>1, <1>2, <1>3

(* The parents and children stay in keeping, *)
LEMMA KinGrown ==
  ASSUME NEW n \in Nat, NEW par, NEW kids, Kin(par, kids, n), NEW c \in 0..n
  PROVE  Kin(ParGrown(par, n, c), KidsGrown(kids, n, c), n + 1)
<1>1. PICK q, k : q = ParGrown(par, n, c) /\ k = KidsGrown(kids, n, c)
  OBVIOUS
<1>2. /\ q \in [1..(n + 1) -> Nat] /\ q[n + 1] = c
      /\ \A m \in 1..n : q[m] = par[m] /\ par[m] < m /\ par[m] \in 0..n
  <2>1. \A m \in 1..n : par[m] \in Nat /\ par[m] < m
    BY DEF Kin
  <2>2. \A m \in 1..n : m \in 1..(n + 1) /\ m # n + 1 /\ par[m] \in 0..n
    BY <2>1
  <2>3. n + 1 \in 1..(n + 1)
    OBVIOUS
  <2> QED
    BY <1>1, <2>1, <2>2, <2>3 DEF ParGrown
<1>3. /\ k[n + 1] = << >>
      /\ k[c] = Append(kids[c], n + 1)
      /\ \A p \in 0..n : p # c => k[p] = kids[p]
      /\ k = [p \in 0..(n + 1) |-> k[p]]
  BY <1>1 DEF KidsGrown
<1>4. \A p \in 0..n : kids[p] \in Seq(1..n)
  BY DEF Kin
<1>5. /\ k[c] \in Seq(1..(n + 1)) /\ Len(k[c]) = Len(kids[c]) + 1
      /\ k[c][Len(kids[c]) + 1] = n + 1
      /\ \A i \in 1..Len(kids[c]) : k[c][i] = kids[c][i]
  <2>1. kids[c] \in Seq(1..n) /\ kids[c] \in Seq(1..(n + 1))
    BY <1>4
  <2> QED
    BY <1>3, <2>1, AppendProperties
<1>6. ASSUME NEW p \in 0..(n + 1) PROVE k[p] \in Seq(1..(n + 1))
  <2>1. CASE p \in 0..n /\ p # c
    <3>1. k[p] = kids[p] /\ kids[p] \in Seq(1..n) /\ 1..n \subseteq 1..(n + 1)
      <4>1. k[p] = kids[p]
        BY <2>1, <1>3, Zenon
      <4>2. kids[p] \in Seq(1..n)
        BY <2>1, <1>4, Zenon
      <4> QED  BY <4>1, <4>2
    <3> QED  BY <3>1, SeqMonotonic, Zenon
  <2>2. CASE p = n + 1
    BY <2>2, <1>3
  <2> QED
    BY <2>1, <2>2, <1>5
<1>7. k \in [0..(n + 1) -> Seq(1..(n + 1))]
  BY <1>3, <1>6
<1>8. ASSUME NEW p \in 0..(n + 1), NEW i \in DOMAIN k[p] PROVE q[k[p][i]] = p
  <2>1. p # n + 1
    BY <1>3, <1>8
  <2>2. CASE p = c
    <3>1. i \in 1..Len(kids[c]) \/ i = Len(kids[c]) + 1
      <4>1. i \in 1..Len(k[c])
        BY <2>2, <1>5, LenProperties
      <4>2. Len(kids[c]) \in Nat /\ Len(k[c]) = Len(kids[c]) + 1
        BY <1>4, <1>5
      <4> HIDE <2>2
      <4> QED  BY <4>1, <4>2
    <3>2. CASE i \in 1..Len(kids[c])
      <4>1. kids[c][i] \in 1..n /\ par[kids[c][i]] = c
        <5>1. kids[c] \in Seq(1..n) /\ i \in DOMAIN kids[c]
          BY <3>2, <1>4
        <5> QED  BY <5>1, SMTT(30) DEF Kin
      <4> QED  BY <3>2, <4>1, <2>2, <1>2, <1>5
    <3>3. CASE i = Len(kids[c]) + 1
      BY <3>3, <2>2, <1>2, <1>5
    <3> QED  BY <3>1, <3>2, <3>3
  <2>3. CASE p # c
    <3>1. p \in 0..n
      BY <2>1
    <3>2. k[p] = kids[p] /\ i \in DOMAIN kids[p] /\ kids[p] \in Seq(1..n)
      BY <3>1, <2>3, <1>3, <1>4, <1>8
    <3>3. kids[p][i] \in 1..n /\ par[kids[p][i]] = p
      BY <3>1, <3>2, SMTT(30) DEF Kin
    <3> QED  BY <3>2, <3>3, <1>2
  <2> QED
    BY <2>2, <2>3
<1>9. ASSUME NEW m \in 1..(n + 1)
      PROVE  q[m] < m /\ \E i \in DOMAIN k[q[m]] : k[q[m]][i] = m
  <2>1. CASE m = n + 1
    <3>1. q[m] < m
      BY <2>1, <1>2
    <3>2. Len(kids[c]) + 1 \in DOMAIN k[c] /\ k[c][Len(kids[c]) + 1] = m
      BY <2>1, <1>4, <1>5
    <3> QED  BY <2>1, <3>1, <3>2, <1>2
  <2>2. CASE m \in 1..n
    <3>1. q[m] = par[m] /\ par[m] < m /\ par[m] \in 0..n
      BY <2>2, <1>2
    <3>2. PICK i \in DOMAIN kids[par[m]] : kids[par[m]][i] = m
      BY <2>2 DEF Kin
    <3>3. CASE par[m] = c
      <4>1. i \in 1..Len(kids[c])
        BY <3>2, <3>3, <1>4
      <4>2. i \in DOMAIN k[c]
        BY <4>1, <1>4, <1>5
      <4> QED  BY <3>1, <3>2, <3>3, <4>1, <4>2, <1>5
    <3>4. CASE par[m] # c
      BY <3>1, <3>2, <3>4, <1>3
    <3> QED  BY <3>3, <3>4
  <2> QED
    BY <2>1, <2>2
<1>10. Kin(q, k, n + 1)
  BY <1>2, <1>7, <1>8, <1>9, Zenon DEF Kin
<1> QED
  BY <1>1, <1>10

(* and the ends: those on the path move to the new node, the others stay. *)
LEMMA EndsGrown ==
  ASSUME NEW n \in Nat, NEW par, NEW kids, NEW end, Family(par, kids, end, n),
         NEW c \in 0..n, NEW path, Branch(par, kids, end, n, c, path)
  PROVE  Ends(KidsGrown(kids, n, c), EndGrown(end, n, path), n + 1)
<1>1. PICK k, e : k = KidsGrown(kids, n, c) /\ e = EndGrown(end, n, path)
  OBVIOUS
<1>2. /\ k[n + 1] = << >>
      /\ k[c] = Append(kids[c], n + 1)
      /\ \A p \in 0..n : p # c => k[p] = kids[p]
  BY <1>1 DEF KidsGrown
<1>3. /\ \A m \in 0..n : end[m] \in 0..n /\ m <= end[m]
      /\ path \subseteq 0..n /\ 0 \in path /\ c \in path
      /\ \A m \in path : m <= c /\ end[m] = n
  BY DEF Family, Ends, Branch
<1>4. /\ e[n + 1] = n + 1
      /\ \A m \in path : e[m] = n + 1
      /\ \A m \in 0..n : m \notin path => e[m] = end[m]
      /\ e = [m \in 0..(n + 1) |-> e[m]]
  BY <1>1, <1>3 DEF EndGrown
<1>5. \A m \in 0..(n + 1) : e[m] \in 0..(n + 1) /\ m <= e[m]
  <2> SUFFICES ASSUME NEW m \in 0..(n + 1) PROVE e[m] \in 0..(n + 1) /\ m <= e[m]
    OBVIOUS
  <2>1. CASE m = n + 1
    BY <2>1, <1>4
  <2>2. CASE m \in path
    <3>1. e[m] = n + 1
      BY <2>2, <1>4
    <3> QED  BY <3>1
  <2>3. CASE m \in 0..n /\ m \notin path
    <3>1. e[m] = end[m] /\ end[m] \in 0..n /\ m <= end[m]
      BY <2>3, <1>3, <1>4
    <3> QED  BY <3>1
  <2> QED
    BY <2>1, <2>2, <2>3
<1>6. e \in [0..(n + 1) -> 0..(n + 1)] /\ e[0] = n + 1
  BY <1>3, <1>4, <1>5
<1>7. /\ kids[c] \in Seq(1..n)
      /\ Len(k[c]) = Len(kids[c]) + 1
      /\ k[c][Len(kids[c]) + 1] = n + 1
      /\ \A i \in 1..Len(kids[c]) : k[c][i] = kids[c][i] /\ kids[c][i] \in 1..n
  <2>1. kids[c] \in Seq(1..n)
    BY LastOnPath
  <2> QED
    BY <1>2, <2>1
<1>8. \A p \in 0..n :
         /\ kids[p] \in Seq(1..n)
         /\ \A i \in 1..Len(kids[p]) :
               kids[p][i] \in path => i = Len(kids[p]) /\ p \in path /\ p # c
         /\ p \in path /\ p # c => kids[p] # << >> /\ kids[p][Len(kids[p])] \in path
  BY LastOnPath
<1>9. \A p \in 0..n :
         /\ kids[p] = << >> => end[p] = p
         /\ kids[p] # << >> => kids[p][1] = p + 1 /\ end[kids[p][Len(kids[p])]] = end[p]
         /\ \A i \in 1..(Len(kids[p]) - 1) : kids[p][i + 1] = end[kids[p][i]] + 1
  BY DEF Family, Ends
<1>10. ASSUME NEW p \in 0..(n + 1)
       PROVE  /\ k[p] = << >> => e[p] = p
              /\ k[p] # << >> => k[p][1] = p + 1 /\ e[k[p][Len(k[p])]] = e[p]
              /\ \A i \in 1..(Len(k[p]) - 1) : k[p][i + 1] = e[k[p][i]] + 1
  <2>1. CASE p = n + 1
    BY <2>1, <1>2, <1>4
  <2>2. CASE p = c
    <3>1. k[c] # << >>
      BY <1>7
    <3>2. k[c][1] = c + 1
      <4>1. CASE kids[c] = << >>
        BY <4>1, <1>3, <1>7, <1>9
      <4>2. CASE kids[c] # << >>
        BY <4>2, <1>7, <1>9, SMTT(30)
      <4> QED  BY <4>1, <4>2
    <3>3. e[k[c][Len(k[c])]] = e[c]
      BY <1>3, <1>4, <1>7
    <3>4. ASSUME NEW i \in 1..(Len(k[c]) - 1) PROVE k[c][i + 1] = e[k[c][i]] + 1
      <4>1. i \in 1..Len(kids[c]) /\ kids[c][i] \in 1..n /\ k[c][i] = kids[c][i]
        BY <1>7
      <4>2. e[k[c][i]] = end[kids[c][i]]
        <5>1. kids[c][i] \notin path
          BY <4>1, <1>8
        <5>2. kids[c][i] \in 0..n
          BY <4>1
        <5>3. e[kids[c][i]] = end[kids[c][i]]
          BY <5>1, <5>2, <1>4, Zenon
        <5> QED  BY <4>1, <5>3, Zenon
      <4>3. CASE i = Len(kids[c])
        <5>1. kids[c] # << >> /\ end[c] = n
          BY <4>1, <1>3, <1>7
        <5>2. end[kids[c][i]] = n
          BY <5>1, <4>3, <1>9
        <5> QED  BY <4>2, <4>3, <5>2, <1>7
      <4>4. CASE i # Len(kids[c])
        <5>1. i \in 1..(Len(kids[c]) - 1) /\ i + 1 \in 1..Len(kids[c])
          BY <4>1, <4>4, <1>7
        <5> QED  BY <4>2, <5>1, <1>7, <1>9
      <4> QED  BY <4>3, <4>4
    <3> QED
      BY <2>2, <3>1, <3>2, <3>3, <3>4
  <2>3. CASE p \in 0..n /\ p # c
    <3>1. k[p] = kids[p] /\ kids[p] \in Seq(1..n)
      BY <2>3, <1>2, <1>8
    <3>2. ASSUME kids[p] = << >> PROVE e[p] = p
      BY <2>3, <3>2, <1>4, <1>8, <1>9
    <3>3. ASSUME kids[p] # << >>
          PROVE  kids[p][1] = p + 1 /\ e[kids[p][Len(kids[p])]] = e[p]
      <4>1. Len(kids[p]) \in 1..Len(kids[p]) /\ kids[p][Len(kids[p])] \in 1..n
        BY <3>1, <3>3
      <4>2. kids[p][Len(kids[p])] \in path <=> p \in path
        BY <2>3, <4>1, <1>8
      <4>3. kids[p][1] = p + 1 /\ end[kids[p][Len(kids[p])]] = end[p]
        BY <2>3, <3>3, <1>9
      <4>4. PICK l \in 0..n : l = kids[p][Len(kids[p])]
        BY <4>1
      <4>5. e[l] = e[p]
        BY <2>3, <4>2, <4>3, <4>4, <1>4
      <4> QED  BY <4>3, <4>4, <4>5
    <3>4. ASSUME NEW i \in 1..(Len(kids[p]) - 1) PROVE kids[p][i + 1] = e[kids[p][i]] + 1
      <4>1. i \in 1..Len(kids[p]) /\ i # Len(kids[p]) /\ kids[p][i] \in 1..n
        BY <3>1
      <4>2. kids[p][i] \notin path
        BY <2>3, <4>1, <1>8
      <4>3. PICK l \in 0..n : l = kids[p][i]
        BY <4>1
      <4>4. e[l] = end[l]
        BY <4>2, <4>3, <1>4
      <4>5. kids[p][i + 1] = end[l] + 1
        BY <2>3, <4>3, <1>9
      <4> QED  BY <4>3, <4>4, <4>5
    <3> QED
      BY <3>1, <3>2, <3>3, <3>4
  <2> QED
    BY <2>1, <2>2, <2>3
<1>11. Ends(k, e, n + 1)
  BY <1>5, <1>6, <1>10, Zenon DEF Ends
<1> QED
  BY <1>1, <1>11
-----------------------------------------------------------------------------
OpenNodes == {Open(k) : k \in 0..data.level}

(* The open elements are such a path to the current one. *)
LEMMA OpenPath ==
  ASSUME Types, NEW par, NEW kids, NEW end, Shape(par, kids, end)
  PROVE  /\ Branch(par, kids, end, Size, data.current, OpenNodes)
         /\ data.current \in 0..Size /\ end[data.current] = Size
         /\ data.level > 0 => data.current \in 1..Size
<1> DEFINE n == data.level
<1>1. n \in Nat /\ Size \in Nat
  BY XmlAssumption DEF Types, Size
<1>2. /\ Open(0) = 0 /\ Open(n) = data.current
      /\ \A k \in 1..n : Open(k) \in 1..Size /\ par[Open(k)] = Open(k - 1)
      /\ \A k \in 0..n : end[Open(k)] = Size
  BY DEF Shape, OnPath, Open, NULL
<1>3. Kin(par, kids, Size)
  BY DEF Shape, Family
<1> HIDE DEF n
<1>4. \A k \in 0..n : Open(k) \in 0..Size
  <2> SUFFICES ASSUME NEW k \in 0..n PROVE Open(k) \in 0..Size
    OBVIOUS
  <2>1. CASE k = 0
    BY <2>1, <1>1, <1>2
  <2>2. CASE k # 0
    <3>1. k \in 1..n
      BY <2>2
    <3>2. Open(k) \in 1..Size
      BY <3>1, <1>2
    <3> QED  BY <3>2
  <2> QED
    BY <2>1, <2>2
<1>5. \A k \in 1..n : Open(k - 1) < Open(k)
  <2> SUFFICES ASSUME NEW k \in 1..n PROVE Open(k - 1) < Open(k)
    OBVIOUS
  <2>1. PICK m \in 1..Size : m = Open(k) /\ par[m] = Open(k - 1)
    BY <1>2
  <2>2. par[m] < m
    BY <1>3 DEF Kin
  <2> QED
    BY <2>1, <2>2
<1>6. \A k \in 0..n : Open(k) <= Open(n)
  <2>1. PICK s : s = [k \in 1..(n + 1) |-> Open(k - 1)]
    OBVIOUS
  <2>2. \A k \in 1..(n + 1) : s[k] = Open(k - 1) /\ s[k] \in Nat
    <3> SUFFICES ASSUME NEW k \in 1..(n + 1) PROVE s[k] = Open(k - 1) /\ s[k] \in Nat
      OBVIOUS
    <3>1. k - 1 \in 0..n
      BY <1>1
    <3>2. Open(k - 1) \in 0..Size
      BY <3>1, <1>4
    <3> QED  BY <2>1, <3>2
  <2>3. \A k \in 1..((n + 1) - 1) : s[k] < s[k + 1]
    <3> SUFFICES ASSUME NEW k \in 1..((n + 1) - 1) PROVE s[k] < s[k + 1]
      OBVIOUS
    <3>1. k \in 1..n /\ k \in 1..(n + 1) /\ k + 1 \in 1..(n + 1) /\ (k + 1) - 1 = k
      BY <1>1
    <3> QED  BY <3>1, <2>2, <1>5
  <2>4. \A i, j \in 1..(n + 1) : i < j => s[i] < s[j]
    <3>1. n + 1 \in Nat /\ \A k \in 1..(n + 1) : s[k] \in Nat
      BY <1>1, <2>2
    <3> QED  BY <3>1, <2>3, Rising
  <2> SUFFICES ASSUME NEW k \in 0..n PROVE Open(k) <= Open(n)
    OBVIOUS
  <2>5. /\ k + 1 \in 1..(n + 1) /\ n + 1 \in 1..(n + 1)
        /\ (k + 1) - 1 = k /\ (n + 1) - 1 = n
        /\ k = n \/ k + 1 < n + 1
        /\ k \in 0..n /\ n \in 0..n
    BY <1>1
  <2>6. s[k + 1] = Open(k) /\ s[n + 1] = Open(n) /\ Open(k) \in Nat /\ Open(n) \in Nat
    BY <2>2, <2>5
  <2>7. k = n \/ s[k + 1] < s[n + 1]
    BY <2>4, <2>5
  <2> QED
    BY <2>6, <2>7
<1>7. ASSUME NEW m \in OpenNodes
      PROVE  /\ m \in 0..Size /\ m <= data.current /\ end[m] = Size
             /\ m # 0 => par[m] \in OpenNodes
             /\ m # data.current => \E i \in DOMAIN kids[m] : kids[m][i] \in OpenNodes
  <2>1. PICK k \in 0..n : m = Open(k)
    BY DEF OpenNodes, n
  <2>2. m \in 0..Size /\ m <= data.current /\ end[m] = Size
    BY <2>1, <1>2, <1>4, <1>6
  <2>3. ASSUME m # 0 PROVE par[m] \in OpenNodes
    <3>1. k # 0
      BY <2>1, <2>3, <1>2
    <3>2. k \in 1..n /\ k - 1 \in 0..n
      BY <1>1, <3>1
    <3>3. par[m] = Open(k - 1)
      BY <3>2, <2>1, <1>2
    <3> QED  BY <3>2, <3>3 DEF OpenNodes, n
  <2>4. ASSUME m # data.current PROVE \E i \in DOMAIN kids[m] : kids[m][i] \in OpenNodes
    <3>1. k # n
      BY <2>1, <2>4, <1>2
    <3>2. k + 1 \in 1..n /\ (k + 1) - 1 = k /\ k + 1 \in 0..n
      BY <1>1, <3>1
    <3>3. PICK l \in 1..Size : l = Open(k + 1) /\ par[l] = m
      BY <3>2, <2>1, <1>2
    <3>4. \E i \in DOMAIN kids[m] : kids[m][i] = l
      BY <3>3, <1>3 DEF Kin
    <3>5. l \in OpenNodes
      BY <3>2, <3>3 DEF OpenNodes, n
    <3> QED  BY <3>4, <3>5
  <2> QED
    BY <2>2, <2>3, <2>4
<1>8. 0 \in OpenNodes /\ data.current \in OpenNodes
  <2>1. 0 \in 0..n /\ n \in 0..n
    BY <1>1
  <2> QED
    BY <2>1, <1>2 DEF OpenNodes, n
<1>9. OpenNodes \subseteq 0..Size
  BY <1>7
<1>10. Branch(par, kids, end, Size, data.current, OpenNodes)
  BY <1>7, <1>8, <1>9, Zenon DEF Branch
<1>11. data.level > 0 => data.current \in 1..Size
  <2>1. data.level > 0 => n \in 1..n
    BY <1>1 DEF n
  <2> QED
    BY <2>1, <1>2
<1> QED
  BY <1>7, <1>8, <1>10, <1>11

(* A sequence that is not empty has a first and a last element. *)
LEMMA FirstAndLast ==
  ASSUME NEW S, NEW s \in Seq(S), s # << >>
  PROVE  /\ Len(s) \in Nat /\ 1 \in 1..Len(s) /\ Len(s) \in 1..Len(s)
         /\ s[1] \in S /\ s[Len(s)] \in S
OBVIOUS

(* Setting one link of one node. *)
LEMMA ChildSet ==
  ASSUME NEW ns \in Seq(Node), NEW c \in 1..Len(ns), NEW v \in Nat,
         NEW gs, gs = [ns EXCEPT ![c].child = v]
  PROVE  /\ gs \in Seq(Node) /\ Len(gs) = Len(ns)
         /\ \A m \in 1..Len(ns) :
               /\ gs[m].text = ns[m].text /\ gs[m].encode = ns[m].encode
               /\ gs[m].attribute = ns[m].attribute
               /\ gs[m].child = IF m = c THEN v ELSE ns[m].child
               /\ gs[m].next = ns[m].next
<1>1. ns[c] \in Node
  OBVIOUS
<1>2. PICK node : node = [ns[c] EXCEPT !.child = v]
  OBVIOUS
<1>3. /\ node \in Node /\ node.child = v /\ node.next = ns[c].next /\ node.text = ns[c].text
      /\ node.encode = ns[c].encode /\ node.attribute = ns[c].attribute
  BY <1>1, <1>2 DEF Node
<1>4. gs = [ns EXCEPT ![c] = node]
  BY <1>2
<1>5. /\ gs \in Seq(Node) /\ Len(gs) = Len(ns)
      /\ \A m \in 1..Len(ns) : gs[m] = IF m = c THEN node ELSE ns[m]
  BY <1>3, <1>4, ExceptSeq
<1> QED
  BY <1>3, <1>5

(* The same for the other link. *)
LEMMA NextSet ==
  ASSUME NEW ns \in Seq(Node), NEW c \in 1..Len(ns), NEW v \in Nat,
         NEW gs, gs = [ns EXCEPT ![c].next = v]
  PROVE  /\ gs \in Seq(Node) /\ Len(gs) = Len(ns)
         /\ \A m \in 1..Len(ns) :
               /\ gs[m].text = ns[m].text /\ gs[m].encode = ns[m].encode
               /\ gs[m].attribute = ns[m].attribute
               /\ gs[m].next = IF m = c THEN v ELSE ns[m].next
               /\ gs[m].child = ns[m].child
<1>1. ns[c] \in Node
  OBVIOUS
<1>2. PICK node : node = [ns[c] EXCEPT !.next = v]
  OBVIOUS
<1>3. /\ node \in Node /\ node.next = v /\ node.child = ns[c].child /\ node.text = ns[c].text
      /\ node.encode = ns[c].encode /\ node.attribute = ns[c].attribute
  BY <1>1, <1>2 DEF Node
<1>4. gs = [ns EXCEPT ![c] = node]
  BY <1>2
<1>5. /\ gs \in Seq(Node) /\ Len(gs) = Len(ns)
      /\ \A m \in 1..Len(ns) : gs[m] = IF m = c THEN node ELSE ns[m]
  BY <1>3, <1>4, ExceptSeq
<1> QED
  BY <1>3, <1>5

(* What the beginning of an element does to the nodes. *)
LEMMA NodesGrown ==
  ASSUME nodes \in Seq(Node), NEW par, NEW kids, NEW end,
         Family(par, kids, end, Size), Linked(kids),
         NEW attribute \in Seq(Attributes), NEW c \in 0..Size, NEW ns,
         ns = xdebug_xml_add_child(Append(nodes, xdebug_xml_node_init_ex(attribute)), c, Size + 1)
  PROVE  /\ ns \in Seq(Node) /\ Len(ns) = Size + 1
         /\ ns[Size + 1] = xdebug_xml_node_init_ex(attribute)
         /\ \A m \in 1..Size :
               /\ ns[m].text = nodes[m].text /\ ns[m].encode = nodes[m].encode
               /\ ns[m].attribute = nodes[m].attribute
               /\ ns[m].child = IF m = c /\ kids[c] = << >> THEN Size + 1 ELSE nodes[m].child
               /\ ns[m].next = IF c # 0 /\ kids[c] # << >> /\ m = kids[c][Len(kids[c])]
                               THEN Size + 1 ELSE nodes[m].next
<1>1. /\ Size \in Nat /\ DOMAIN nodes = 1..Size
      /\ \A m \in 1..Size : nodes[m] \in Node
  BY DEF Size
<1>2. xdebug_xml_node_init_ex(attribute) \in Node
  BY DEF Node, xdebug_xml_node_init_ex, NULL
<1>3. PICK grown : grown = Append(nodes, xdebug_xml_node_init_ex(attribute))
  OBVIOUS
<1>4. /\ grown \in Seq(Node) /\ Len(grown) = Size + 1
      /\ grown[Size + 1] = xdebug_xml_node_init_ex(attribute)
      /\ \A m \in 1..Size : grown[m] = nodes[m]
  BY <1>2, <1>3, AppendProperties DEF Size
<1>5. CASE c = 0
  <2>1. ns = grown
    BY <1>3, <1>5 DEF xdebug_xml_add_child, NULL
  <2>2. \A m \in 1..Size : m # c
    BY <1>5
  <2> QED
    BY <1>4, <1>5, <2>1, <2>2
<1>6. CASE c # 0
  <2>1. c \in 1..Size /\ kids[c] \in Seq(1..Size) /\ Children(c) = kids[c]
    BY <1>1, <1>6, ChildrenAre
  <2>2. grown[c].child = nodes[c].child
    BY <2>1, <1>4
  <2>3. nodes[c].child = NULL <=> kids[c] = << >>
    <3>1. nodes[c].child = IF kids[c] = << >> THEN NULL ELSE kids[c][1]
      BY <2>1 DEF Linked
    <3>2. kids[c] # << >> => kids[c][1] \in 1..Size
      BY <2>1, FirstAndLast
    <3> QED
      BY <3>1, <3>2 DEF NULL
  <2>4. CASE kids[c] = << >>
    <3>1. ns = [grown EXCEPT ![c].child = Size + 1]
      BY <2>2, <2>3, <2>4, <1>3, <1>6 DEF xdebug_xml_add_child, NULL
    <3>2. c \in 1..Len(grown) /\ Size + 1 \in Nat /\ grown \in Seq(Node)
      BY <2>1, <1>1, <1>4
    <3>3. /\ ns \in Seq(Node) /\ Len(ns) = Len(grown)
          /\ \A m \in 1..Len(grown) :
                /\ ns[m].text = grown[m].text /\ ns[m].encode = grown[m].encode
                /\ ns[m].attribute = grown[m].attribute
                /\ ns[m].child = IF m = c THEN Size + 1 ELSE grown[m].child
                /\ ns[m].next = grown[m].next
      BY <3>1, <3>2, ChildSet
    <3>4. ns[Size + 1] = xdebug_xml_node_init_ex(attribute)
      <4>1. Size + 1 \in 1..Len(grown) /\ Size + 1 # c
        BY <1>1, <1>4, <2>1
      <4> QED
        BY <4>1, <3>1, <3>2, <1>4
    <3> QED
      BY <3>3, <3>4, <2>4, <1>1, <1>4
  <2>5. CASE kids[c] # << >>
    <3>1. PICK l \in 1..Size : l = kids[c][Len(kids[c])]
      BY <2>1, <2>5, FirstAndLast
    <3>2. ns = [grown EXCEPT ![l].next = Size + 1]
      BY <3>1, <2>1, <2>2, <2>3, <2>5, <1>3, <1>6 DEF xdebug_xml_add_child, NULL, Last
    <3>3. l \in 1..Len(grown) /\ Size + 1 \in Nat /\ grown \in Seq(Node)
      BY <2>1, <1>1, <1>4
    <3>4. /\ ns \in Seq(Node) /\ Len(ns) = Len(grown)
          /\ \A m \in 1..Len(grown) :
                /\ ns[m].text = grown[m].text /\ ns[m].encode = grown[m].encode
                /\ ns[m].attribute = grown[m].attribute
                /\ ns[m].next = IF m = l THEN Size + 1 ELSE grown[m].next
                /\ ns[m].child = grown[m].child
      BY <3>2, <3>3, NextSet
    <3>5. ns[Size + 1] = xdebug_xml_node_init_ex(attribute)
      <4>1. Size + 1 \in 1..Len(grown) /\ Size + 1 # l
        BY <1>1, <1>4
      <4> QED
        BY <4>1, <3>2, <3>3, <1>4
    <3> QED
      BY <3>1, <3>4, <3>5, <2>5, <1>1, <1>4, <1>6
  <2> QED
    BY <2>4, <2>5
<1> QED
  BY <1>5, <1>6

(* and that the links are those of the larger family. *)
LEMMA LinkedGrown ==
  ASSUME Size \in Nat, NEW par, NEW kids, NEW end,
         Family(par, kids, end, Size), Linked(kids), NEW c \in 0..Size, c = 0 => Size = 0, NEW ns,
         ns[Size + 1].child = NULL, ns[Size + 1].next = NULL,
         \A m \in 1..Size :
            /\ ns[m].child = IF m = c /\ kids[c] = << >> THEN Size + 1 ELSE nodes[m].child
            /\ ns[m].next = IF c # 0 /\ kids[c] # << >> /\ m = kids[c][Len(kids[c])]
                            THEN Size + 1 ELSE nodes[m].next,
         NEW k, k = KidsGrown(kids, Size, c)
  PROVE  /\ \A p \in 1..(Size + 1) :
               ns[p].child = IF k[p] = << >> THEN NULL ELSE k[p][1]
         /\ \A p \in 0..(Size + 1) : \A i \in DOMAIN k[p] :
               ns[k[p][i]].next = IF i = Len(k[p]) THEN NULL ELSE k[p][i + 1]
<1>1. /\ k[Size + 1] = << >>
      /\ k[c] = Append(kids[c], Size + 1)
      /\ \A p \in 0..Size : p # c => k[p] = kids[p]
  BY DEF KidsGrown
<1>2. /\ \A p \in 0..Size : kids[p] \in Seq(1..Size)
      /\ \A p \in 0..Size : \A i \in DOMAIN kids[p] : par[kids[p][i]] = p
  BY DEF Family, Kin
<1>3. /\ Len(k[c]) = Len(kids[c]) + 1 /\ Len(kids[c]) \in Nat
      /\ DOMAIN k[c] = 1..(Len(kids[c]) + 1) /\ DOMAIN kids[c] = 1..Len(kids[c])
      /\ k[c][Len(kids[c]) + 1] = Size + 1
      /\ \A i \in 1..Len(kids[c]) : k[c][i] = kids[c][i] /\ kids[c][i] \in 1..Size
  <2>1. kids[c] \in Seq(1..Size)
    BY <1>2
  <2> QED
    BY <1>1, <2>1
<1>4. ASSUME NEW p \in 1..(Size + 1)
      PROVE  ns[p].child = IF k[p] = << >> THEN NULL ELSE k[p][1]
  <2>1. CASE p = Size + 1
    BY <2>1, <1>1
  <2>2. CASE p = c
    <3>1. p \in 1..Size /\ k[c] # << >>
      BY <2>2, <1>3
    <3>2. CASE kids[c] = << >>
      BY <3>1, <3>2, <2>2, <1>3
    <3>3. CASE kids[c] # << >>
      <4>1. nodes[p].child = kids[c][1]
        BY <3>1, <3>3, <2>2 DEF Linked
      <4>2. k[c][1] = kids[c][1]
        <5>1. 1 \in 1..Len(kids[c])
          BY <3>3, <1>2, FirstAndLast
        <5> QED  BY <5>1, <1>3
      <4> QED  BY <3>1, <3>3, <4>1, <4>2, <2>2
    <3> QED  BY <3>2, <3>3
  <2>3. CASE p \in 1..Size /\ p # c
    <3>1. p \in 0..Size
      BY <2>3
    <3>2. k[p] = kids[p] /\ ns[p].child = nodes[p].child
      BY <3>1, <2>3, <1>1
    <3> QED  BY <3>2, <2>3 DEF Linked
  <2> QED
    BY <2>1, <2>2, <2>3
<1>5. ASSUME NEW p \in 0..(Size + 1), NEW i \in DOMAIN k[p]
      PROVE  ns[k[p][i]].next = IF i = Len(k[p]) THEN NULL ELSE k[p][i + 1]
  <2>1. p # Size + 1
    BY <1>1, <1>5
  <2>2. CASE p = c
    <3>1. CASE i = Len(kids[c]) + 1
      BY <3>1, <2>2, <1>3
    <3>2. CASE i \in 1..Len(kids[c])
      <4>1. kids[c] # << >> /\ c # 0
        <5>1. kids[c] # << >>
          BY <3>2
        <5>2. kids[c][i] \in 1..Size
          BY <3>2, <1>3
        <5> QED  BY <5>1, <5>2
      <4>2. PICK m \in 1..Size : m = kids[c][i] /\ m = k[p][i]
        BY <3>2, <2>2, <1>3
      <4>3. nodes[m].next = IF i = Len(kids[c]) THEN NULL ELSE kids[c][i + 1]
        <5>1. c \in 0..Size /\ i \in DOMAIN kids[c]
          BY <3>2, <1>3
        <5>2. nodes[kids[c][i]].next = IF i = Len(kids[c]) THEN NULL ELSE kids[c][i + 1]
          BY <5>1, Zenon DEF Linked
        <5> QED  BY <5>2, <4>2, Zenon
      <4>4. m = kids[c][Len(kids[c])] <=> i = Len(kids[c])
        <5>1. Len(kids[c]) \in 1..Len(kids[c])
          BY <3>2
        <5>2. kids[c][i] = kids[c][Len(kids[c])] => i = Len(kids[c])
          BY <5>1, <3>2, LineOnce
        <5> QED  BY <4>2, <5>2
      <4>5. ns[m].next = IF i = Len(kids[c]) THEN Size + 1 ELSE nodes[m].next
        BY <4>1, <4>4
      <4>6. i # Len(k[p])
        BY <3>2, <2>2, <1>3
      <4>7. i # Len(kids[c]) => k[p][i + 1] = kids[c][i + 1]
        <5>1. i # Len(kids[c]) => i + 1 \in 1..Len(kids[c])
          BY <3>2, <1>3
        <5> QED  BY <5>1, <2>2, <1>3
      <4>8. i = Len(kids[c]) => k[p][i + 1] = Size + 1
        BY <2>2, <1>3
      <4> QED  BY <4>2, <4>3, <4>5, <4>6, <4>7, <4>8
    <3> QED
      BY <3>1, <3>2, <2>2, <1>3
  <2>3. CASE p # c
    <3>1. p \in 0..Size
      BY <2>1
    <3>2. k[p] = kids[p] /\ kids[p] \in Seq(1..Size) /\ i \in DOMAIN kids[p]
      BY <3>1, <2>3, <1>1, <1>2, <1>5
    <3>3. PICK m \in 1..Size : m = kids[p][i]
      BY <3>2
    <3>4. par[m] = p
      BY <3>1, <3>2, <3>3, <1>2
    <3>5. ~ (kids[c] # << >> /\ m = kids[c][Len(kids[c])])
      <4> SUFFICES ASSUME kids[c] # << >>, m = kids[c][Len(kids[c])] PROVE FALSE
        OBVIOUS
      <4>1. Len(kids[c]) \in DOMAIN kids[c]
        BY <1>2, FirstAndLast
      <4>2. par[m] = c
        BY <4>1, <1>2
      <4> QED  BY <4>2, <3>4, <2>3
    <3>6. ns[m].next = nodes[m].next
      BY <3>5
    <3> QED
      BY <3>1, <3>2, <3>3, <3>6 DEF Linked
  <2> QED
    BY <2>2, <2>3
<1> QED
  BY <1>4, <1>5

-----------------------------------------------------------------------------
(* An element begins. *)
LEMMA Started ==
  ASSUME Types, NEW par, NEW kids, NEW end, Shape(par, kids, end),
         NEW attribute \in AttributeLists, xdebug_xml_start_element_handler(attribute),
         NEW q, q = ParGrown(par, Size, data.current),
         NEW k, k = KidsGrown(kids, Size, data.current),
         NEW e, e = EndGrown(end, Size, OpenNodes)
  PROVE  /\ Types'
         /\ Shape(q, k, e)'
         /\ Size' = Size + 1
         /\ nodes'[Size + 1] = xdebug_xml_node_init_ex(attribute)
         /\ \A m \in 1..Size :
               /\ nodes'[m].text = nodes[m].text /\ nodes'[m].encode = nodes[m].encode
               /\ nodes'[m].attribute = nodes[m].attribute
<1>0. PICK n, c, l : n = Size /\ c = data.current /\ l = data.level
  OBVIOUS
<1> USE <1>0
<1>1. /\ nodes \in Seq(Node) /\ n \in Nat /\ l \in Nat /\ l \in 0..(StackSize - 1)
      /\ StackSize \in Nat /\ attribute \in Seq(Attributes)
      /\ Family(par, kids, end, n) /\ Linked(kids)
  BY XmlAssumption DEF Types, Size, Shape, xdebug_xml_start_element_handler
<1>2. /\ Branch(par, kids, end, n, c, OpenNodes) /\ c \in 0..n
      /\ l > 0 => c \in 1..n
  BY OpenPath
<1>3. /\ nodes' = xdebug_xml_add_child(Append(nodes, xdebug_xml_node_init_ex(attribute)), c, n + 1)
      /\ data' = [data EXCEPT !.stack[l] = c, !.level = l + 1, !.current = n + 1,
                              !.xml = IF @ = NULL THEN n + 1 ELSE @]
      /\ returned' = returned /\ fault' = fault
      /\ l > 0 \/ nodes = << >>
  BY DEF xdebug_xml_start_element_handler, Size
<1>4. c = 0 => n = 0
  BY <1>1, <1>2, <1>3 DEF Size
<1>5. /\ nodes' \in Seq(Node) /\ Len(nodes') = n + 1
      /\ nodes'[n + 1] = xdebug_xml_node_init_ex(attribute)
      /\ \A m \in 1..n :
            /\ nodes'[m].text = nodes[m].text /\ nodes'[m].encode = nodes[m].encode
            /\ nodes'[m].attribute = nodes[m].attribute
            /\ nodes'[m].child = IF m = c /\ kids[c] = << >> THEN n + 1 ELSE nodes[m].child
            /\ nodes'[m].next = IF c # 0 /\ kids[c] # << >> /\ m = kids[c][Len(kids[c])]
                                THEN n + 1 ELSE nodes[m].next
  BY <1>1, <1>2, <1>3, NodesGrown, SMTT(30)
<1>6. Size' = n + 1
  BY <1>5 DEF Size
<1>7. Types'
  <2>1. /\ data = [level |-> l, xml |-> data.xml, current |-> c, stack |-> data.stack]
        /\ data.stack \in [0..(StackSize - 1) -> Nat]
        /\ data.xml = IF nodes = << >> THEN NULL ELSE 1
        /\ returned \in BOOLEAN /\ fault \in BOOLEAN
    BY DEF Types
  <2>2. /\ data'.level = l + 1 /\ data'.current = n + 1
        /\ data'.stack = [data.stack EXCEPT ![l] = c]
        /\ data'.xml = IF data.xml = NULL THEN n + 1 ELSE data.xml
        /\ data' = [level |-> data'.level, xml |-> data'.xml,
                    current |-> data'.current, stack |-> data'.stack]
    BY <2>1, <1>3
  <2>3. data'.level \in 0..StackSize
    BY <1>1, <2>2
  <2>4. data'.stack \in [0..(StackSize - 1) -> Nat]
    BY <1>1, <1>2, <2>1, <2>2
  <2>5. data'.xml = 1 /\ nodes' # << >>
    <3>3. nodes' # << >>
      <4>1. Len(nodes') # 0
        BY <1>1, <1>5
      <4> QED  BY <4>1
    <3>1. CASE nodes = << >>
      <4>1. n = 0 /\ data.xml = NULL
        BY <3>1, <2>1, <1>1 DEF Size
      <4>2. data'.xml = 1
        BY <4>1, <2>2
      <4> QED  BY <4>2, <3>3
    <3>2. CASE nodes # << >>
      BY <3>2, <2>1, <2>2, <1>1, <1>5 DEF NULL
    <3> QED  BY <3>1, <3>2, <3>3
  <2> QED
    BY <2>1, <2>2, <2>3, <2>4, <2>5, <1>3, <1>5 DEF Types
<1>8. Family(q, k, e, n + 1)
  BY <1>1, <1>2, KinGrown, EndsGrown DEF Family
<1>9. Linked(k)'
  <2>1. nodes'[n + 1].child = NULL /\ nodes'[n + 1].next = NULL
    BY <1>5 DEF xdebug_xml_node_init_ex
  <2>3. PICK ns : ns = nodes'
    OBVIOUS
  <2>4. \A m \in 1..Size :
            /\ ns[m].child = IF m = c /\ kids[c] = << >> THEN Size + 1 ELSE nodes[m].child
            /\ ns[m].next = IF c # 0 /\ kids[c] # << >> /\ m = kids[c][Len(kids[c])]
                            THEN Size + 1 ELSE nodes[m].next
    BY <2>3, <1>5
  <2>5. /\ ns[Size + 1].child = NULL /\ ns[Size + 1].next = NULL
        /\ Size \in Nat /\ c \in 0..Size /\ (c = 0 => Size = 0)
        /\ k = KidsGrown(kids, Size, c)
    BY <2>1, <2>3, <1>1, <1>2, <1>4
  <2>6. Family(par, kids, end, Size) /\ Linked(kids)
    BY <1>1
  <2>7. /\ \A p \in 1..(Size + 1) :
              ns[p].child = IF k[p] = << >> THEN NULL ELSE k[p][1]
        /\ \A p \in 0..(Size + 1) : \A i \in DOMAIN k[p] :
              ns[k[p][i]].next = IF i = Len(k[p]) THEN NULL ELSE k[p][i + 1]
    <3> QED
      BY <2>4, <2>5, <2>6, LinkedGrown
  <2>2. /\ \A p \in 1..(n + 1) :
              nodes'[p].child = IF k[p] = << >> THEN NULL ELSE k[p][1]
        /\ \A p \in 0..(n + 1) : \A i \in DOMAIN k[p] :
              nodes'[k[p][i]].next = IF i = Len(k[p]) THEN NULL ELSE k[p][i + 1]
    BY <2>3, <2>7
  <2> QED
    BY <2>2, <1>6 DEF Linked
<1>10. OnPath(q, e)'
  <2>1. /\ data'.level = l + 1 /\ data'.current = n + 1
        /\ data'.stack = [data.stack EXCEPT ![l] = c]
        /\ DOMAIN data.stack = 0..(StackSize - 1)
    BY <1>3 DEF Types
  <2>2. /\ \A j \in 0..l : Open(j)' = Open(j)
        /\ Open(l + 1)' = n + 1
    <3>1. ASSUME NEW j \in 0..l PROVE Open(j)' = Open(j)
      <4>1. Open(j)' = data'.stack[j]
        <5>1. j # l + 1
          BY <1>1
        <5> QED  BY <5>1, <2>1 DEF Open
      <4>2. data'.stack[j] = IF j = l THEN c ELSE data.stack[j]
        BY <2>1, <1>1
      <4> QED  BY <4>1, <4>2 DEF Open
    <3>2. Open(l + 1)' = n + 1
      BY <2>1 DEF Open
    <3> QED  BY <3>1, <3>2
  <2>3. /\ Open(0) = NULL
        /\ \A j \in 1..l : Open(j) \in 1..n /\ par[Open(j)] = Open(j - 1)
        /\ Open(l) = c
    BY DEF Shape, OnPath, Open
  <2>4. \A j \in 0..l : Open(j) \in OpenNodes
    BY DEF OpenNodes
  <2>5. /\ \A m \in 1..n : q[m] = par[m]
        /\ q[n + 1] = c
    BY <1>1 DEF ParGrown
  <2>6. /\ \A m \in OpenNodes : e[m] = n + 1
        /\ e[n + 1] = n + 1
    <3>1. OpenNodes \subseteq 0..(n + 1)
      BY <1>1, <1>2 DEF Branch
    <3> QED  BY <3>1, <1>1 DEF EndGrown
  <2>7. Open(0)' = NULL
    BY <2>2, <2>3, <1>1
  <2>8. ASSUME NEW j \in 1..(l + 1) PROVE Open(j)' \in 1..(n + 1) /\ q[Open(j)'] = Open(j - 1)'
    <3>1. CASE j = l + 1
      <4>1. Open(j - 1)' = c
        <5>1. j - 1 = l /\ l \in 0..l
          BY <3>1, <1>1
        <5> QED  BY <5>1, <2>2, <2>3
      <4> QED  BY <3>1, <4>1, <2>2, <2>5, <1>1
    <3>2. CASE j # l + 1
      <4>1. j \in 1..l /\ j \in 0..l /\ j - 1 \in 0..l
        BY <3>2, <1>1
      <4>2. Open(j)' = Open(j) /\ Open(j - 1)' = Open(j - 1)
        BY <4>1, <2>2
      <4>3. Open(j) \in 1..n /\ par[Open(j)] = Open(j - 1)
        BY <4>1, <2>3
      <4>4. q[Open(j)] = Open(j - 1)
        BY <4>3, <2>5
      <4>5. Open(j) \in 1..(n + 1)
        BY <4>3, <1>1
      <4> QED  BY <4>2, <4>4, <4>5
    <3> QED  BY <3>1, <3>2
  <2>9. ASSUME NEW j \in 0..(l + 1) PROVE e[Open(j)'] = n + 1
    <3>1. CASE j = l + 1
      BY <3>1, <2>2, <2>6
    <3>2. CASE j \in 0..l
      BY <3>2, <2>2, <2>4, <2>6
    <3> QED  BY <3>1, <3>2, <1>1
  <2> QED
    BY <2>1, <2>7, <2>8, <2>9, <1>6 DEF OnPath
<1> QED
  BY <1>5, <1>6, <1>7, <1>8, <1>9, <1>10 DEF Shape

(* An element ends. *)
LEMMA Ended ==
  ASSUME Types, NEW par, NEW kids, NEW end, Shape(par, kids, end),
         xdebug_xml_end_element_handler
  PROVE  Types' /\ Shape(par, kids, end)'
<1>0. PICK l : l = data.level
  OBVIOUS
<1>1. /\ l \in Nat /\ l \in 1..StackSize /\ StackSize \in Nat
      /\ data.stack \in [0..(StackSize - 1) -> Nat]
      /\ data = [level |-> l, xml |-> data.xml, current |-> data.current, stack |-> data.stack]
  BY <1>0, XmlAssumption DEF Types, xdebug_xml_end_element_handler
<1>2. /\ data' = [data EXCEPT !.level = l - 1, !.current = data.stack[l - 1]]
      /\ nodes' = nodes /\ returned' = returned /\ fault' = fault
  BY <1>0 DEF xdebug_xml_end_element_handler
<1>3. /\ data'.level = l - 1 /\ data'.current = data.stack[l - 1]
      /\ data'.stack = data.stack /\ data'.xml = data.xml
      /\ data' = [level |-> data'.level, xml |-> data'.xml,
                  current |-> data'.current, stack |-> data'.stack]
  BY <1>1, <1>2
<1>4. Types'
  <2>1. data'.level \in 0..StackSize
    BY <1>1, <1>3
  <2> QED
    BY <2>1, <1>2, <1>3 DEF Types
<1>5. \A k \in 0..(l - 1) : Open(k)' = Open(k)
  <2> SUFFICES ASSUME NEW k \in 0..(l - 1) PROVE Open(k)' = Open(k)
    OBVIOUS
  <2>1. k # l
    BY <1>1
  <2> QED
    BY <2>1, <1>0, <1>3 DEF Open
<1>6. OnPath(par, end)'
  <2>1. /\ Open(0) = NULL
        /\ \A k \in 1..l : Open(k) \in 1..Size /\ par[Open(k)] = Open(k - 1)
        /\ \A k \in 0..l : end[Open(k)] = Size
    BY <1>0 DEF Shape, OnPath
  <2>2. Size' = Size /\ 0 \in 0..(l - 1)
    BY <1>1, <1>2 DEF Size
  <2>3. \A k \in 1..(l - 1) : k \in 1..l /\ k - 1 \in 0..(l - 1) /\ k \in 0..(l - 1)
    BY <1>1
  <2>4. \A k \in 0..(l - 1) : k \in 0..l
    BY <1>1
  <2>5. \A k \in 1..(l - 1) : Open(k)' \in 1..Size /\ par[Open(k)'] = Open(k - 1)'
    BY <2>1, <2>3, <1>5
  <2>6. \A k \in 0..(l - 1) : end[Open(k)'] = Size
    BY <2>1, <2>4, <1>5
  <2>7. Open(0)' = NULL
    BY <2>1, <2>2, <1>5
  <2> QED
    BY <2>2, <2>5, <2>6, <2>7, <1>3 DEF OnPath
<1>7. Family(par, kids, end, Size)' /\ Linked(kids)'
  BY <1>2 DEF Shape, Size, Linked
<1> QED
  BY <1>4, <1>6, <1>7 DEF Shape

(* A step that leaves the links alone leaves the tree alone. *)
LEMMA LinksKept ==
  ASSUME Types, NEW par, NEW kids, NEW end, Shape(par, kids, end), data' = data,
         nodes' \in Seq(Node), Len(nodes') = Size,
         returned' \in BOOLEAN, fault' \in BOOLEAN,
         \A n \in 1..Size : nodes'[n].child = nodes[n].child /\ nodes'[n].next = nodes[n].next
  PROVE  Types' /\ Shape(par, kids, end)'
<1>1. Size' = Size /\ Size \in Nat /\ nodes \in Seq(Node)
  BY DEF Size, Types
<1>2. nodes' = << >> <=> nodes = << >>
  BY <1>1 DEF Size
<1>3. Types'
  BY <1>2 DEF Types
<1>4. Linked(kids)'
  <2>1. \A p \in 0..Size : \A i \in DOMAIN kids[p] : kids[p][i] \in 1..Size
    <3>1. \A p \in 0..Size : kids[p] \in Seq(1..Size)
      BY DEF Shape, Family, Kin
    <3> QED  BY <3>1
  <2>2. Linked(kids)
    BY DEF Shape
  <2> QED
    BY <2>1, <2>2, <1>1 DEF Linked
<1>5. \A k : Open(k)' = Open(k)
  BY DEF Open
<1>6. OnPath(par, end)'
  BY <1>1, <1>5 DEF Shape, OnPath
<1> QED
  BY <1>1, <1>3, <1>4, <1>6 DEF Shape

(* Text is reported. *)
LEMMA TextTaken ==
  ASSUME Types, NEW par, NEW kids, NEW end, Shape(par, kids, end),
         NEW text \in Texts, xdebug_xml_char_handler(text)
  PROVE  /\ Types' /\ Shape(par, kids, end)' /\ Size' = Size
         /\ data.current \in 1..Size
         /\ \A n \in 1..Size :
               /\ nodes'[n].attribute = nodes[n].attribute
               /\ nodes'[n].text = IF n = data.current THEN text ELSE nodes[n].text
               /\ nodes'[n].encode = IF n = data.current THEN text \in Terminators
                                     ELSE nodes[n].encode
<1>1. /\ nodes \in Seq(Node) /\ Size \in Nat /\ Size = Len(nodes)
      /\ returned \in BOOLEAN /\ fault \in BOOLEAN
  BY DEF Types, Size
<1>2. data.current \in 1..Size
  BY OpenPath DEF xdebug_xml_char_handler
<1>3. PICK c \in 1..Size : c = data.current
  BY <1>2
<1>4. nodes[c] \in Node
  BY <1>1
<1>5. PICK marked \in BOOLEAN : marked = (text \in Terminators)
  <2>1. CASE text \in Terminators
    <3>1. TRUE = (text \in Terminators)
      BY <2>1
    <3> QED  BY <3>1
  <2>2. CASE text \notin Terminators
    <3>1. FALSE = (text \in Terminators)
      BY <2>2
    <3> QED  BY <3>1
  <2> QED
    BY <2>1, <2>2
<1>6. PICK node : node = [nodes[c] EXCEPT !.text = text, !.encode = marked]
  OBVIOUS
<1>7. /\ node \in Node /\ node.text = text /\ node.encode = marked
      /\ node.attribute = nodes[c].attribute
      /\ node.child = nodes[c].child /\ node.next = nodes[c].next
  BY <1>4, <1>6 DEF Node
<1>8. nodes' = [nodes EXCEPT ![c] = node]
  BY <1>3, <1>1, <1>5, <1>6 DEF xdebug_xml_char_handler
<1>9. /\ nodes' \in Seq(Node) /\ Len(nodes') = Size
      /\ \A n \in 1..Size : nodes'[n] = IF n = c THEN node ELSE nodes[n]
  BY <1>1, <1>7, <1>8, ExceptSeq
<1>10. /\ \A n \in 1..Size : nodes'[n].child = nodes[n].child /\ nodes'[n].next = nodes[n].next
      /\ data' = data /\ returned' = returned /\ fault' = fault
  BY <1>7, <1>9 DEF xdebug_xml_char_handler
<1>11. Types' /\ Shape(par, kids, end)'
  BY <1>1, <1>9, <1>10, LinksKept
<1> QED
  BY <1>2, <1>3, <1>5, <1>7, <1>9, <1>11 DEF Size

(* parse_message returns. *)
LEMMA HandedOver ==
  ASSUME Types, NEW par, NEW kids, NEW end, Shape(par, kids, end), parse_message_returns
  PROVE  /\ Types' /\ Shape(par, kids, end)' /\ Size' = Size
         /\ \A n \in 1..Size :
               /\ nodes'[n].text = nodes[n].text /\ nodes'[n].encode = nodes[n].encode
               /\ nodes'[n].attribute = IF nodes[n].encode THEN Append(nodes[n].attribute, Base64)
                                        ELSE nodes[n].attribute
<1>1. /\ nodes \in Seq(Node) /\ Size \in Nat /\ Size = Len(nodes) /\ DOMAIN nodes = 1..Size
      /\ data.xml = (IF nodes = << >> THEN NULL ELSE 1) /\ fault \in BOOLEAN
      /\ Family(par, kids, end, Size) /\ Linked(kids)
  BY DEF Types, Size, Shape
<1>2. ToSet(Written[data.xml]) = 1..Size
  <2>1. Written[data.xml] = [n \in 1..Size |-> n]
    BY <1>1, WalksAre
  <2> QED
    BY <2>1, Zenon, SMTT(30) DEF ToSet
<1>3. /\ nodes' = [n \in 1..Size |-> IF nodes[n].encode
                                    THEN xdebug_xml_add_attribute_ex(nodes[n]) ELSE nodes[n]]
      /\ data' = data /\ fault' = fault /\ returned' = TRUE
  BY <1>1, <1>2 DEF parse_message_returns
<1>4. Base64 \in Attributes
  BY DEF Attributes
<1>5. \A node \in Node :
         /\ xdebug_xml_add_attribute_ex(node) \in Node
         /\ xdebug_xml_add_attribute_ex(node).text = node.text
         /\ xdebug_xml_add_attribute_ex(node).encode = node.encode
         /\ xdebug_xml_add_attribute_ex(node).child = node.child
         /\ xdebug_xml_add_attribute_ex(node).next = node.next
         /\ xdebug_xml_add_attribute_ex(node).attribute = Append(node.attribute, Base64)
  <2> SUFFICES ASSUME NEW node \in Node
               PROVE  /\ xdebug_xml_add_attribute_ex(node) \in Node
                      /\ xdebug_xml_add_attribute_ex(node).text = node.text
                      /\ xdebug_xml_add_attribute_ex(node).encode = node.encode
                      /\ xdebug_xml_add_attribute_ex(node).child = node.child
                      /\ xdebug_xml_add_attribute_ex(node).next = node.next
                      /\ xdebug_xml_add_attribute_ex(node).attribute = Append(node.attribute, Base64)
    OBVIOUS
  <2>1. PICK longer : longer = Append(node.attribute, Base64)
    OBVIOUS
  <2>2. node.attribute \in Seq(Attributes)
    BY DEF Node
  <2>3. longer \in Seq(Attributes)
    BY <1>4, <2>1, <2>2
  <2>4. xdebug_xml_add_attribute_ex(node) = [node EXCEPT !.attribute = longer]
    BY <2>1 DEF xdebug_xml_add_attribute_ex
  <2>5. /\ [node EXCEPT !.attribute = longer] \in Node
        /\ [node EXCEPT !.attribute = longer].text = node.text
        /\ [node EXCEPT !.attribute = longer].encode = node.encode
        /\ [node EXCEPT !.attribute = longer].child = node.child
        /\ [node EXCEPT !.attribute = longer].next = node.next
        /\ [node EXCEPT !.attribute = longer].attribute = longer
    BY <2>3 DEF Node
  <2> QED
    BY <2>1, <2>4, <2>5, Zenon
<1>6. \A n \in 1..Size :
         nodes[n] \in Node /\ nodes'[n] = IF nodes[n].encode
                                         THEN xdebug_xml_add_attribute_ex(nodes[n]) ELSE nodes[n]
  BY <1>1, <1>3
<1>7. \A n \in 1..Size :
         /\ nodes'[n] \in Node
         /\ nodes'[n].text = nodes[n].text /\ nodes'[n].encode = nodes[n].encode
         /\ nodes'[n].child = nodes[n].child /\ nodes'[n].next = nodes[n].next
         /\ nodes'[n].attribute = IF nodes[n].encode THEN Append(nodes[n].attribute, Base64)
                                  ELSE nodes[n].attribute
  <2> SUFFICES ASSUME NEW n \in 1..Size
               PROVE  /\ nodes'[n] \in Node
                      /\ nodes'[n].text = nodes[n].text /\ nodes'[n].encode = nodes[n].encode
                      /\ nodes'[n].child = nodes[n].child /\ nodes'[n].next = nodes[n].next
                      /\ nodes'[n].attribute = IF nodes[n].encode
                                               THEN Append(nodes[n].attribute, Base64)
                                               ELSE nodes[n].attribute
    OBVIOUS
  <2>1. CASE nodes[n].encode
    <3>1. nodes[n] \in Node /\ nodes'[n] = xdebug_xml_add_attribute_ex(nodes[n])
      BY <1>6, <2>1
    <3> QED
      BY <1>5, <2>1, <3>1, Zenon
  <2>2. CASE ~nodes[n].encode
    <3>1. nodes[n] \in Node /\ nodes'[n] = nodes[n]
      BY <1>6, <2>2
    <3> QED
      BY <2>2, <3>1
  <2> QED
    BY <2>1, <2>2
<1>8. nodes' \in Seq(Node) /\ Len(nodes') = Size
  <2>1. \E n \in Nat : nodes' \in [1..n -> Node] /\ n = Size
    BY <1>1, <1>3, <1>7
  <2> QED
    BY <2>1, <1>1
<1>9. Types' /\ Shape(par, kids, end)'
  BY <1>1, <1>3, <1>7, <1>8, LinksKept
<1> QED
  BY <1>7, <1>8, <1>9 DEF Size

-----------------------------------------------------------------------------
(* An empty document is a family of none. *)
LEMMA Initially == Init => IInv
<1> SUFFICES ASSUME Init PROVE IInv
  OBVIOUS
<1>1. nodes = << >> /\ Size = 0 /\ data.level = 0 /\ data.current = 0
  BY DEF Init, Size, NULL
<1>2. Types
  <2>1. StackSize \in Nat
    BY XmlAssumption
  <2>2. [n \in 0..(StackSize - 1) |-> 0] \in [0..(StackSize - 1) -> Nat]
    OBVIOUS
  <2>3. /\ data.stack = [n \in 0..(StackSize - 1) |-> 0]
        /\ data = [level |-> data.level, xml |-> data.xml,
                   current |-> data.current, stack |-> data.stack]
        /\ data.xml = NULL
    BY DEF Init, NULL
  <2>4. nodes \in Seq(Node)
    BY <1>1
  <2>5. returned = FALSE /\ fault = FALSE
    BY DEF Init
  <2>6. data.level \in 0..StackSize
    BY <1>1, <2>1
  <2>8. returned \in BOOLEAN /\ fault \in BOOLEAN
    BY <2>5, Zenon
  <2>7. data.stack \in [0..(StackSize - 1) -> Nat]
    BY <2>2, <2>3, Zenon
  <2> QED
    BY <1>1, <2>3, <2>4, <2>6, <2>7, <2>8, Zenon DEF Types
<1>3. Encoded /\ AttributesKept
  BY <1>1 DEF Encoded, AttributesKept
<1>4. PICK par, kids, end : /\ par = [m \in 1..0 |-> 0]
                           /\ kids = [p \in 0..0 |-> << >>]
                           /\ end = [p \in 0..0 |-> 0]
  OBVIOUS
<1>5. kids[0] = << >> /\ end[0] = 0 /\ \A p \in 0..0 : p = 0
  BY <1>4
<1>6. Family(par, kids, end, Size)
  BY <1>1, <1>4, <1>5 DEF Family, Kin, Ends
<1>7. Linked(kids)
  BY <1>1, <1>5 DEF Linked
<1>8. OnPath(par, end)
  BY <1>1, <1>5 DEF OnPath, Open, NULL
<1> QED
  BY <1>2, <1>3, <1>6, <1>7, <1>8 DEF IInv, Shape

(* Every step keeps the invariant. *)
LEMMA Steps == IInv /\ [Next]_vars => IInv'
<1> SUFFICES ASSUME IInv, [Next]_vars PROVE IInv'
  OBVIOUS
<1>0. Types /\ Encoded /\ AttributesKept
  BY DEF IInv
<1>1. PICK par, kids, end : Shape(par, kids, end)
  BY DEF IInv
<1>2. ASSUME NEW attribute \in AttributeLists, xdebug_xml_start_element_handler(attribute)
      PROVE  IInv'
  <2>1. PICK q, k, e : /\ q = ParGrown(par, Size, data.current)
                       /\ k = KidsGrown(kids, Size, data.current)
                       /\ e = EndGrown(end, Size, OpenNodes)
    OBVIOUS
  <2>2. /\ Types' /\ Shape(q, k, e)' /\ Size' = Size + 1
        /\ nodes'[Size + 1] = xdebug_xml_node_init_ex(attribute)
        /\ \A m \in 1..Size :
              /\ nodes'[m].text = nodes[m].text /\ nodes'[m].encode = nodes[m].encode
              /\ nodes'[m].attribute = nodes[m].attribute
    BY <1>0, <1>1, <1>2, <2>1, Started
  <2>3. /\ nodes'[Size + 1].text = NULL /\ nodes'[Size + 1].encode = FALSE
        /\ nodes'[Size + 1].attribute = attribute
    BY <2>2 DEF xdebug_xml_node_init_ex
  <2>4. Size \in Nat /\ \A m \in 1..(Size + 1) : m \in 1..Size \/ m = Size + 1
    BY <1>0 DEF Types, Size
  <2>5. Encoded'
    <3>1. NULL \notin Terminators
      BY XmlAssumption
    <3> QED  BY <3>1, <1>0, <2>2, <2>3, <2>4 DEF Encoded
  <2>6. AttributesKept'
    <3>1. returned' = returned
      BY <1>2 DEF xdebug_xml_start_element_handler
    <3> QED  BY <3>1, <1>0, <2>2, <2>3, <2>4, SMTT(30) DEF AttributesKept
  <2> QED
    BY <2>2, <2>5, <2>6 DEF IInv
<1>3. CASE start_element_overrun
  <2>1. /\ data' = data /\ nodes' = nodes /\ returned' = returned /\ fault' = TRUE
        /\ nodes \in Seq(Node) /\ Len(nodes) = Size /\ returned \in BOOLEAN
    BY <1>0, <1>3 DEF start_element_overrun, Types, Size
  <2>2. Types' /\ Shape(par, kids, end)'
    BY <1>0, <1>1, <2>1, LinksKept
  <2>3. Encoded' /\ AttributesKept'
    BY <1>0, <2>1 DEF Encoded, AttributesKept, Size
  <2> QED
    BY <2>2, <2>3 DEF IInv
<1>4. ASSUME NEW text \in Texts, xdebug_xml_char_handler(text)
      PROVE  IInv'
  <2>1. /\ Types' /\ Shape(par, kids, end)' /\ Size' = Size
        /\ \A n \in 1..Size :
              /\ nodes'[n].attribute = nodes[n].attribute
              /\ nodes'[n].text = IF n = data.current THEN text ELSE nodes[n].text
              /\ nodes'[n].encode = IF n = data.current THEN text \in Terminators
                                    ELSE nodes[n].encode
    BY <1>0, <1>1, <1>4, TextTaken
  <2>2. Encoded'
    BY <1>0, <2>1, Zenon DEF Encoded
  <2>3. AttributesKept'
    <3>1. returned' = returned
      BY <1>4 DEF xdebug_xml_char_handler
    <3> QED  BY <3>1, <1>0, <2>1 DEF AttributesKept
  <2> QED
    BY <2>1, <2>2, <2>3 DEF IInv
<1>5. CASE xdebug_xml_end_element_handler
  <2>1. Types' /\ Shape(par, kids, end)'
    BY <1>0, <1>1, <1>5, Ended
  <2>2. nodes' = nodes /\ returned' = returned
    BY <1>5 DEF xdebug_xml_end_element_handler
  <2>3. Encoded' /\ AttributesKept'
    BY <1>0, <2>2 DEF Encoded, AttributesKept, Size
  <2> QED
    BY <2>1, <2>3 DEF IInv
<1>6. CASE parse_message_returns
  <2>1. /\ Types' /\ Shape(par, kids, end)' /\ Size' = Size
        /\ \A n \in 1..Size :
              /\ nodes'[n].text = nodes[n].text /\ nodes'[n].encode = nodes[n].encode
              /\ nodes'[n].attribute = IF nodes[n].encode THEN Append(nodes[n].attribute, Base64)
                                       ELSE nodes[n].attribute
    BY <1>0, <1>1, <1>6, HandedOver
  <2>2. Encoded'
    BY <1>0, <2>1 DEF Encoded
  <2>3. AttributesKept'
    <3>1. ~returned /\ returned' = TRUE
      BY <1>6 DEF parse_message_returns, Reports
    <3> QED  BY <3>1, <1>0, <2>1 DEF AttributesKept
  <2> QED
    BY <2>1, <2>2, <2>3 DEF IInv
<1>7. CASE UNCHANGED vars
  <2>1. /\ data' = data /\ nodes' = nodes /\ returned' = returned /\ fault' = fault
    BY <1>7 DEF vars
  <2> QED
    BY <1>0, <1>1, <2>1 DEF IInv, Types, Encoded, AttributesKept, Shape, Linked, OnPath, Open, Size
<1> QED
  BY <1>2, <1>3, <1>4, <1>5, <1>6, <1>7 DEF Next

(* The invariant holds in every state. *)
LEMMA Always == Spec => []IInv
  BY Initially, Steps, PTL DEF Spec

-----------------------------------------------------------------------------
(* The attribute found is the first of its name. *)
LEMMA FirstWins ==
  IInv => EngineEncodingWins
<1> SUFFICES ASSUME IInv, NEW n \in DOMAIN nodes, NEW found,
                    found = xdebug_xml_fetch_attribute(n, "encoding"),
                    found # NULL, nodes[n].attribute[found] = Base64,
                    NEW k \in DOMAIN nodes[n].attribute, nodes[n].attribute[k].name = "encoding"
             PROVE  nodes[n].attribute[k] = Base64
  BY DEF EngineEncodingWins
<1>1. n \in 1..Size /\ nodes[n] \in Node
  BY DEF IInv, Types, Size
<1>2. PICK sent \in AttributeLists :
         nodes[n].attribute = sent \/ nodes[n].attribute = Append(sent, Base64)
  BY <1>1 DEF IInv, AttributesKept
<1>3. sent \in Seq(Attributes) /\ NamesOnce(sent)
  BY XmlAssumption
<1>4. PICK attribute : attribute = nodes[n].attribute
  OBVIOUS
<1>5. attribute \in Seq(Attributes)
  BY <1>1, <1>4 DEF Node
<1>6. PICK places : places = {l \in DOMAIN attribute : attribute[l].name = "encoding"}
  OBVIOUS
<1>7. places \in SUBSET Nat /\ k \in places
  BY <1>4, <1>5, <1>6
<1>8. found \in places /\ found <= k
  <2>1. PICK first \in places : \A l \in places : first <= l
    BY <1>7, Least
  <2>2. found = CHOOSE x \in places : \A l \in places : x <= l
    BY <1>4, <1>6, <1>7, Zenon DEF xdebug_xml_fetch_attribute
  <2>3. found \in places /\ \A l \in places : found <= l
    BY <2>1, <2>2, Zenon
  <2> QED
    BY <2>3, <1>7
<1>9. attribute[found] = Base64 /\ attribute[found].name = "encoding" /\ attribute[k].name = "encoding"
      /\ found \in DOMAIN attribute
  BY <1>4, <1>6, <1>8
<1>10. CASE attribute = sent
  <2>1. found = k
    BY <1>3, <1>4, <1>9, <1>10, Zenon DEF NamesOnce
  <2> QED
    BY <2>1, <1>4, <1>9
<1>11. CASE attribute = Append(sent, Base64)
  <2>1. /\ Len(sent) \in Nat /\ DOMAIN attribute = 1..(Len(sent) + 1)
        /\ attribute[Len(sent) + 1] = Base64
        /\ \A l \in 1..Len(sent) : attribute[l] = sent[l]
    <3>1. Base64 \in Attributes
      BY DEF Attributes
    <3> QED  BY <3>1, <1>3, <1>11, AppendProperties
  <2>2. CASE k = Len(sent) + 1
    BY <2>1, <2>2, <1>4
  <2>3. CASE k # Len(sent) + 1
    <3>1. k \in 1..Len(sent) /\ found \in 1..Len(sent)
      BY <2>1, <2>3, <1>4, <1>8, <1>9
    <3>2. sent[k].name = sent[found].name
      BY <3>1, <2>1, <1>9
    <3>3. k \in DOMAIN sent /\ found \in DOMAIN sent
      BY <3>1, <1>3
    <3>4. k = found
      BY <3>2, <3>3, <1>3, Zenon DEF NamesOnce
    <3> QED
      BY <3>4, <1>4, <1>9
  <2> QED
    BY <2>2, <2>3
<1> QED
  BY <1>2, <1>4, <1>10, <1>11
-----------------------------------------------------------------------------
(* The document's elements and path, as Tree sees them. *)
TextOf(text) == IF text = NULL THEN << >> ELSE << text >>

Elements ==
    [n \in DOMAIN nodes |-> [parent |-> ParentOf(n), text |-> TextOf(nodes[n].text),
                             attribute |-> nodes[n].attribute]]

Path == [k \in 1..data.level |-> IF k < data.level THEN data.stack[k] ELSE data.current]

Element == [parent : Nat, text : Seq(Texts), attribute : Seq(Attributes)]

ElementsKnown ==
    \A par, kids, end :
       Types /\ Shape(par, kids, end) =>
          /\ Elements \in Seq(Element) /\ Len(Elements) = Size
          /\ \A n \in 1..Size :
                Elements[n] = [parent |-> par[n], text |-> TextOf(nodes[n].text),
                               attribute |-> nodes[n].attribute]

(* Each node is an element, below its parent. *)
LEMMA ElementsAre == ElementsKnown
<1> SUFFICES ASSUME NEW par, NEW kids, NEW end, Types, Shape(par, kids, end)
             PROVE  /\ Elements \in Seq(Element) /\ Len(Elements) = Size
                    /\ \A n \in 1..Size :
                          Elements[n] = [parent |-> par[n], text |-> TextOf(nodes[n].text),
                                         attribute |-> nodes[n].attribute]
  BY DEF ElementsKnown
<1>1. /\ Size \in Nat /\ DOMAIN nodes = 1..Size /\ \A n \in 1..Size : nodes[n] \in Node
      /\ Family(par, kids, end, Size) /\ Linked(kids)
  BY DEF Types, Size, Shape
<1>2. \A n \in 1..Size : ParentOf(n) = par[n] /\ par[n] \in Nat
  <2>1. \A n \in 1..Size : ParentOf(n) = par[n]
    BY <1>1, ParentsAre
  <2>2. \A n \in 1..Size : par[n] \in Nat
    BY DEF Shape, Family, Kin
  <2> QED
    BY <2>1, <2>2
<1>3. \A n \in 1..Size : TextOf(nodes[n].text) \in Seq(Texts) /\ nodes[n].attribute \in Seq(Attributes)
  BY <1>1 DEF Node, TextOf
<1>4. \A n \in 1..Size :
         Elements[n] = [parent |-> par[n], text |-> TextOf(nodes[n].text),
                        attribute |-> nodes[n].attribute]
  BY <1>1, <1>2 DEF Elements
<1>5. \A n \in 1..Size : Elements[n] \in Element
  <2> SUFFICES ASSUME NEW n \in 1..Size PROVE Elements[n] \in Element
    OBVIOUS
  <2>1. PICK p, t, a : p = par[n] /\ t = TextOf(nodes[n].text) /\ a = nodes[n].attribute
    OBVIOUS
  <2>2. p \in Nat /\ t \in Seq(Texts) /\ a \in Seq(Attributes)
    BY <2>1, <1>2, <1>3
  <2>3. [parent |-> p, text |-> t, attribute |-> a] \in Element
    BY <2>2 DEF Element
  <2> QED
    BY <2>1, <2>3, <1>4
<1>6. Elements = [n \in 1..Size |-> Elements[n]]
  BY <1>1 DEF Elements
<1>7. Elements \in Seq(Element) /\ Len(Elements) = Size
  BY <1>1, <1>5, <1>6
<1> QED
  BY <1>4, <1>7

PathKnown ==
    \A par, kids, end :
       Types /\ Shape(par, kids, end) =>
          /\ Path \in Seq(Nat) /\ Len(Path) = data.level
          /\ \A k \in 1..data.level : Path[k] = Open(k)

(* The path leads over the open elements. *)
LEMMA PathIs == PathKnown
<1> SUFFICES ASSUME NEW par, NEW kids, NEW end, Types, Shape(par, kids, end)
             PROVE  /\ Path \in Seq(Nat) /\ Len(Path) = data.level
                    /\ \A k \in 1..data.level : Path[k] = Open(k)
  BY DEF PathKnown
<1>1. data.level \in Nat
  BY XmlAssumption DEF Types
<1>2. \A k \in 1..data.level : Path[k] = Open(k) /\ Open(k) \in Nat
  <2>1. \A k \in 1..data.level : Open(k) \in 1..Size
    BY DEF Shape, OnPath
  <2> QED
    BY <1>1, <2>1 DEF Path, Open
<1>3. PICK n \in Nat : n = data.level
  BY <1>1
<1>4. Path \in [1..n -> Nat]
  <2>1. Path = [k \in 1..n |-> Path[k]]
    BY <1>3 DEF Path
  <2>2. \A k \in 1..n : Path[k] \in Nat
    BY <1>2, <1>3
  <2> QED
    BY <2>1, <2>2, Zenon
<1>5. Path \in Seq(Nat) /\ Len(Path) = n
  BY <1>4
<1> QED
  BY <1>2, <1>3, <1>5

(* A node's beginning is an element's: one more, below the last of the path. *)
LEMMA StartsAs ==
  ASSUME IInv, IInv', ElementsKnown', PathKnown',
         NEW attribute \in AttributeLists, xdebug_xml_start_element_handler(attribute)
  PROVE  Tree!Start(attribute)
<1>0. Types /\ Types' /\ ~returned /\ returned' = returned
  BY DEF IInv, xdebug_xml_start_element_handler, Reports
<1>1. PICK par, kids, end : Shape(par, kids, end)
  BY DEF IInv
<1>2. PICK n, c, l : n = Size /\ c = data.current /\ l = data.level
  OBVIOUS
<1>3. PICK q, k, e : /\ q = ParGrown(par, Size, data.current)
                     /\ k = KidsGrown(kids, Size, data.current)
                     /\ e = EndGrown(end, Size, OpenNodes)
  OBVIOUS
<1>4. /\ Shape(q, k, e)' /\ Size' = n + 1
      /\ nodes'[n + 1] = xdebug_xml_node_init_ex(attribute)
      /\ \A m \in 1..n : nodes'[m].text = nodes[m].text /\ nodes'[m].attribute = nodes[m].attribute
  BY <1>0, <1>1, <1>2, <1>3, Started
<1>5. /\ Elements \in Seq(Element) /\ Len(Elements) = n
      /\ \A m \in 1..n :
            Elements[m] = [parent |-> par[m], text |-> TextOf(nodes[m].text),
                           attribute |-> nodes[m].attribute]
  BY <1>0, <1>1, <1>2, ElementsAre DEF ElementsKnown
<1>6. /\ Elements' \in Seq(Element) /\ Len(Elements') = n + 1
      /\ \A m \in 1..(n + 1) :
            Elements'[m] = [parent |-> q[m], text |-> TextOf(nodes'[m].text),
                            attribute |-> nodes'[m].attribute]
  BY <1>0, <1>4 DEF ElementsKnown, TextOf
<1>7. n \in Nat /\ l \in Nat /\ c \in Nat /\ data'.level = l + 1 /\ data'.current = n + 1
  <2>1. Size \in Nat /\ data.level \in Nat /\ data.current \in 0..Size
    BY <1>0, <1>1, OpenPath, XmlAssumption DEF Types, Size
  <2>2. data'.level = data.level + 1 /\ data'.current = Size + 1
    BY <1>0 DEF Types, Size, xdebug_xml_start_element_handler
  <2> QED
    BY <1>2, <2>1, <2>2
<1>8. q[n + 1] = c /\ \A m \in 1..n : q[m] = par[m]
  BY <1>2, <1>3, <1>7 DEF ParGrown
<1>9. PICK new : new = [parent |-> c, text |-> << >>, attribute |-> attribute]
  OBVIOUS
<1>10. Elements'[n + 1] = new /\ \A m \in 1..n : Elements'[m] = Elements[m]
  <2>1. Elements'[n + 1] = new
    <3>1. n + 1 \in 1..(n + 1)
      BY <1>7
    <3>2. TextOf(nodes'[n + 1].text) = << >> /\ nodes'[n + 1].attribute = attribute
      BY <1>4 DEF xdebug_xml_node_init_ex, TextOf
    <3> QED  BY <3>1, <3>2, <1>6, <1>8, <1>9
  <2>2. ASSUME NEW m \in 1..n PROVE Elements'[m] = Elements[m]
    <3>1. m \in 1..(n + 1)
      BY <1>7
    <3> QED  BY <3>1, <1>4, <1>5, <1>6, <1>8
  <2> QED
    BY <2>1, <2>2
<1>11. Elements' = Append(Elements, new)
  <2>1. new \in Element
    <3>1. n + 1 \in 1..Len(Elements')
      BY <1>6, <1>7
    <3> QED  BY <3>1, <1>6, <1>10
  <2>2. /\ Append(Elements, new) \in Seq(Element) /\ Len(Append(Elements, new)) = n + 1
        /\ \A m \in 1..n : Append(Elements, new)[m] = Elements[m]
        /\ Append(Elements, new)[n + 1] = new
    BY <2>1, <1>5, AppendProperties
  <2>3. \A m \in 1..(n + 1) : Elements'[m] = Append(Elements, new)[m]
    <3>1. \A m \in 1..(n + 1) : m \in 1..n \/ m = n + 1
      BY <1>7
    <3> QED  BY <3>1, <2>2, <1>10
  <2> QED
    BY <2>2, <2>3, <1>6, SeqEqual
<1>12. /\ Path \in Seq(Nat) /\ Len(Path) = l
       /\ \A j \in 1..l : Path[j] = Open(j)
  BY <1>0, <1>1, <1>2, PathIs DEF PathKnown
<1>13. /\ Path' \in Seq(Nat) /\ Len(Path') = l + 1
       /\ \A j \in 1..(l + 1) : Path'[j] = Open(j)'
  BY <1>0, <1>4, <1>7 DEF PathKnown
<1>14. c = IF Path = << >> THEN 0 ELSE Last(Path)
  <2>1. CASE l = 0
    <3>1. Path = << >>
      BY <2>1, <1>12
    <3>2. c = 0
      BY <2>1, <1>1, <1>2 DEF Shape, OnPath, Open, NULL
    <3> QED  BY <3>1, <3>2
  <2>2. CASE l # 0
    <3>1. l \in 1..l /\ Path # << >>
      BY <2>2, <1>7, <1>12
    <3>2. Path[l] = c
      BY <3>1, <1>2, <1>12 DEF Open
    <3> QED  BY <3>1, <3>2, <1>12 DEF Last
  <2> QED
    BY <2>1, <2>2
<1>15. Path' = Append(Path, n + 1)
  <2>1. ASSUME NEW j \in 1..l PROVE Path'[j] = Path[j]
    <3>1. j # l + 1 /\ j \in 1..(l + 1)
      BY <1>7
    <3>2. Path'[j] = data'.stack[j]
      BY <3>1, <1>7, <1>13 DEF Open
    <3>3. data'.stack[j] = IF j = l THEN c ELSE data.stack[j]
      <4>1. data'.stack = [data.stack EXCEPT ![l] = c] /\ DOMAIN data.stack = 0..(StackSize - 1)
        BY <1>0, <1>2 DEF Types, xdebug_xml_start_element_handler
      <4>2. data.level < StackSize /\ StackSize \in Nat
        BY XmlAssumption DEF xdebug_xml_start_element_handler
      <4>3. j \in 0..(StackSize - 1)
        BY <4>2, <1>2, <1>7
      <4> QED  BY <4>1, <4>3
    <3> QED  BY <3>2, <3>3, <1>2, <1>12 DEF Open
  <2>2. Path'[l + 1] = n + 1
    <3>1. l + 1 \in 1..(l + 1)
      BY <1>7
    <3> QED  BY <3>1, <1>7, <1>13 DEF Open
  <2>3. /\ Append(Path, n + 1) \in Seq(Nat) /\ Len(Append(Path, n + 1)) = l + 1
        /\ \A j \in 1..l : Append(Path, n + 1)[j] = Path[j]
        /\ Append(Path, n + 1)[l + 1] = n + 1
    BY <1>7, <1>12, AppendProperties
  <2>4. \A j \in 1..(l + 1) : Path'[j] = Append(Path, n + 1)[j]
    <3>1. \A j \in 1..(l + 1) : j \in 1..l \/ j = l + 1
      BY <1>7
    <3> QED  BY <3>1, <2>1, <2>2, <2>3
  <2> QED
    BY <2>3, <2>4, <1>13, SeqEqual
<1>16. /\ Elements' = Append(Elements, [parent |-> IF Path = << >> THEN 0 ELSE Last(Path),
                                        text |-> << >>, attribute |-> attribute])
       /\ Path' = Append(Path, Len(Elements) + 1)
  BY <1>5, <1>9, <1>11, <1>14, <1>15
<1> QED
  BY <1>0, <1>16 DEF Tree!Start, Tree!Last, Last, Elements, Path, TextOf

(* An element's end shortens the path. *)
LEMMA EndsAs ==
  ASSUME IInv, IInv', PathKnown', xdebug_xml_end_element_handler
  PROVE  Tree!End
<1>0. Types /\ Types' /\ ~returned /\ returned' = returned /\ nodes' = nodes
  BY DEF IInv, xdebug_xml_end_element_handler, Reports
<1>1. PICK par, kids, end : Shape(par, kids, end)
  BY DEF IInv
<1>2. PICK l : l = data.level
  OBVIOUS
<1>3. l \in Nat /\ l > 0 /\ data'.level = l - 1
  BY <1>0, <1>2, XmlAssumption DEF Types, xdebug_xml_end_element_handler
<1>4. data'.stack = data.stack /\ data'.current = data.stack[l - 1]
  BY <1>0, <1>2 DEF Types, xdebug_xml_end_element_handler
<1>5. Shape(par, kids, end)'
  BY <1>0, <1>1, Ended
<1>6. /\ Path \in Seq(Nat) /\ Len(Path) = l
      /\ \A j \in 1..l : Path[j] = Open(j)
  BY <1>0, <1>1, <1>2, PathIs DEF PathKnown
<1>7. /\ Path' \in Seq(Nat) /\ Len(Path') = l - 1
      /\ \A j \in 1..(l - 1) : Path'[j] = Open(j)'
  BY <1>0, <1>3, <1>5 DEF PathKnown
<1>8. \A j \in 1..(l - 1) : Path'[j] = Path[j]
  <2> SUFFICES ASSUME NEW j \in 1..(l - 1) PROVE Path'[j] = Path[j]
    OBVIOUS
  <2>1. j \in 1..l /\ j # l
    BY <1>3
  <2>2. Path[j] = data.stack[j]
    BY <2>1, <1>2, <1>6 DEF Open
  <2>3. Path'[j] = data.stack[j]
    BY <1>3, <1>4, <1>7 DEF Open
  <2> QED
    BY <2>2, <2>3
<1>9. Path' = Front(Path) /\ Path # << >>
  <2>1. /\ SubSeq(Path, 1, l - 1) \in Seq(Nat) /\ Len(SubSeq(Path, 1, l - 1)) = l - 1
        /\ \A j \in 1..(l - 1) : SubSeq(Path, 1, l - 1)[j] = Path[j]
    BY <1>3, <1>6
  <2>2. Path' = SubSeq(Path, 1, l - 1)
    BY <2>1, <1>7, <1>8, SeqEqual
  <2> QED
    BY <2>2, <1>3, <1>6 DEF Front
<1>10. Elements' = Elements
  BY <1>0 DEF Elements, ParentOf, Children, Siblings
<1> QED
  BY <1>0, <1>9, <1>10 DEF Tree!End, Tree!Front, Front, Elements, Path, TextOf

(* The text of an element that had none, *)
LEMMA TextsAs ==
  ASSUME ~SplitsText, IInv, IInv', ElementsKnown',
         NEW text \in Texts, xdebug_xml_char_handler(text)
  PROVE  Tree!Text(text)
<1>0. Types /\ Types' /\ ~returned /\ returned' = returned /\ data' = data
  BY DEF IInv, xdebug_xml_char_handler, Reports
<1>1. PICK par, kids, end : Shape(par, kids, end)
  BY DEF IInv
<1>2. PICK n, c, l : n = Size /\ c = data.current /\ l = data.level
  OBVIOUS
<1>3. /\ Shape(par, kids, end)' /\ Size' = n /\ c \in 1..n
      /\ \A m \in 1..n :
            /\ nodes'[m].attribute = nodes[m].attribute
            /\ nodes'[m].text = IF m = c THEN text ELSE nodes[m].text
  BY <1>0, <1>1, <1>2, TextTaken
<1>4. /\ Elements \in Seq(Element) /\ Len(Elements) = n
      /\ \A m \in 1..n :
            Elements[m] = [parent |-> par[m], text |-> TextOf(nodes[m].text),
                           attribute |-> nodes[m].attribute]
  BY <1>0, <1>1, <1>2, ElementsAre DEF ElementsKnown
<1>5. /\ Elements' \in Seq(Element) /\ Len(Elements') = n
      /\ \A m \in 1..n :
            Elements'[m] = [parent |-> par[m], text |-> TextOf(nodes'[m].text),
                            attribute |-> nodes'[m].attribute]
  BY <1>0, <1>3 DEF ElementsKnown, TextOf
<1>6. Elements[c].text = << >> /\ TextOf(text) = Append(Elements[c].text, text)
  <2>1. nodes[c].text = NULL
    BY <1>2 DEF xdebug_xml_char_handler
  <2>2. text # NULL
    BY XmlAssumption
  <2> QED
    BY <2>1, <2>2, <1>3, <1>4 DEF TextOf
<1>7. PICK element : element = [Elements[c] EXCEPT !.text = Append(@, text)]
  OBVIOUS
<1>8. element = [parent |-> par[c], text |-> TextOf(text), attribute |-> nodes[c].attribute]
  BY <1>3, <1>4, <1>6, <1>7
<1>9. \A m \in 1..n : Elements'[m] = IF m = c THEN element ELSE Elements[m]
  BY <1>3, <1>4, <1>5, <1>8
<1>10. Elements' = [Elements EXCEPT ![c] = element]
  <2>1. element \in Element
    BY <1>3, <1>5, <1>9
  <2>2. /\ [Elements EXCEPT ![c] = element] \in Seq(Element)
        /\ Len([Elements EXCEPT ![c] = element]) = n
        /\ \A m \in 1..n : [Elements EXCEPT ![c] = element][m] = IF m = c THEN element ELSE Elements[m]
    BY <2>1, <1>3, <1>4, ExceptSeq
  <2>3. \A m \in 1..n : Elements'[m] = [Elements EXCEPT ![c] = element][m]
    BY <2>2, <1>9
  <2> QED
    BY <2>2, <2>3, <1>5, SeqEqual
<1>11. /\ Path \in Seq(Nat) /\ Len(Path) = l
       /\ \A j \in 1..l : Path[j] = Open(j)
  BY <1>0, <1>1, <1>2, PathIs DEF PathKnown
<1>12. Path # << >> /\ Last(Path) = c
  <2>1. l \in Nat /\ l > 0
    BY <1>0, <1>2, XmlAssumption DEF Types, xdebug_xml_char_handler
  <2>2. l \in 1..l
    BY <2>1
  <2> QED
    BY <2>1, <2>2, <1>2, <1>11 DEF Open, Last
<1>13. Path' = Path
  BY <1>0 DEF Path
<1>14. Elements' = [Elements EXCEPT ![Last(Path)].text = Append(@, text)]
  BY <1>7, <1>10, <1>12
<1> QED
  BY <1>0, <1>12, <1>13, <1>14 DEF Tree!Text, Tree!Last, Last, Elements, Path, TextOf

(* and the attribute that logging leaves with those whose text ends a section. *)
LEMMA HandsOverAs ==
  ASSUME IInv, IInv', ElementsKnown', parse_message_returns
  PROVE  Tree!HandOver
<1>0. Types /\ Types' /\ Encoded /\ ~returned /\ returned' = TRUE /\ data' = data
  BY DEF IInv, parse_message_returns, Reports
<1>1. PICK par, kids, end : Shape(par, kids, end)
  BY DEF IInv
<1>2. PICK n : n = Size
  OBVIOUS
<1>3. /\ Shape(par, kids, end)' /\ Size' = n
      /\ \A m \in 1..n :
            /\ nodes'[m].text = nodes[m].text
            /\ nodes'[m].attribute = IF nodes[m].encode THEN Append(nodes[m].attribute, Base64)
                                     ELSE nodes[m].attribute
  BY <1>0, <1>1, <1>2, HandedOver
<1>4. /\ Elements \in Seq(Element) /\ Len(Elements) = n
      /\ \A m \in 1..n :
            Elements[m] = [parent |-> par[m], text |-> TextOf(nodes[m].text),
                           attribute |-> nodes[m].attribute]
  BY <1>0, <1>1, <1>2, ElementsAre DEF ElementsKnown
<1>5. /\ Elements' \in Seq(Element) /\ Len(Elements') = n
      /\ \A m \in 1..n :
            Elements'[m] = [parent |-> par[m], text |-> TextOf(nodes'[m].text),
                            attribute |-> nodes'[m].attribute]
  BY <1>0, <1>3 DEF ElementsKnown, TextOf
<1>6. ASSUME NEW m \in 1..n PROVE Elements'[m] = Tree!Marked(Elements[m])
  <2>1. (\E j \in DOMAIN Elements[m].text : Elements[m].text[j] \in Terminators) <=> nodes[m].encode
    <3>1. nodes[m].encode <=> nodes[m].text \in Terminators
      BY <1>0, <1>2 DEF Encoded
    <3>2. NULL \notin Terminators
      BY XmlAssumption
    <3>3. Elements[m].text = TextOf(nodes[m].text)
      BY <1>4
    <3>4. CASE nodes[m].text = NULL
      BY <3>1, <3>2, <3>3, <3>4 DEF TextOf
    <3>5. CASE nodes[m].text # NULL
      <4>1. Elements[m].text = << nodes[m].text >>
        BY <3>3, <3>5 DEF TextOf
      <4> QED  BY <3>1, <4>1
    <3> QED  BY <3>4, <3>5
  <2>2. CASE nodes[m].encode
    <3>1. Tree!Marked(Elements[m]) = [Elements[m] EXCEPT !.attribute = Append(@, Base64)]
      BY <2>1, <2>2, Zenon DEF Tree!Marked
    <3>2. PICK p, t, a : p = par[m] /\ t = TextOf(nodes[m].text) /\ a = nodes[m].attribute
      OBVIOUS
    <3>3. Elements[m] = [parent |-> p, text |-> t, attribute |-> a]
      BY <3>2, <1>4
    <3>4. Tree!Marked(Elements[m]) = [parent |-> p, text |-> t, attribute |-> Append(a, Base64)]
      BY <3>1, <3>3
    <3>5. Elements'[m] = [parent |-> p, text |-> t, attribute |-> Append(a, Base64)]
      <4>1. nodes'[m].text = nodes[m].text /\ nodes'[m].attribute = Append(a, Base64)
        BY <3>2, <2>2, <1>3
      <4> QED  BY <4>1, <3>2, <1>5
    <3> QED
      BY <3>4, <3>5
  <2>3. CASE ~nodes[m].encode
    <3>1. Tree!Marked(Elements[m]) = Elements[m]
      BY <2>1, <2>3, Zenon DEF Tree!Marked
    <3> QED
      BY <3>1, <2>3, <1>3, <1>4, <1>5
  <2> QED
    BY <2>2, <2>3
<1>7. Elements' = [m \in DOMAIN Elements |-> Tree!Marked(Elements[m])]
  <2>1. DOMAIN Elements = 1..n /\ DOMAIN Elements' = 1..n
    BY <1>4, <1>5
  <2>2. Elements' = [m \in 1..n |-> Elements'[m]]
    BY <2>1, <1>5
  <2> QED
    BY <2>1, <2>2, <1>6, Zenon
<1>8. Path' = Path
  BY <1>0 DEF Path
<1> QED
  BY <1>0, <1>7, <1>8 DEF Tree!HandOver, Elements, Path, TextOf

(* Every step of the reader is one of the document, or none. *)
LEMMA StepsAs ==
  ASSUME ~SplitsText, IInv, IInv', ElementsKnown', PathKnown', [Next]_vars
  PROVE  [Tree!Next]_(Tree!vars)
<1>1. ASSUME NEW attribute \in AttributeLists, xdebug_xml_start_element_handler(attribute)
      PROVE  Tree!Next
  BY <1>1, StartsAs DEF Tree!Next
<1>2. ASSUME NEW text \in Texts, xdebug_xml_char_handler(text)
      PROVE  Tree!Next
  BY <1>2, TextsAs DEF Tree!Next
<1>3. CASE xdebug_xml_end_element_handler
  BY <1>3, EndsAs DEF Tree!Next
<1>4. CASE parse_message_returns
  BY <1>4, HandsOverAs DEF Tree!Next
<1>5. CASE start_element_overrun \/ UNCHANGED vars
  <2>1. data' = data /\ nodes' = nodes /\ returned' = returned
    BY <1>5 DEF start_element_overrun, vars
  <2> QED
    BY <2>1 DEF Tree!vars, ParentOf, Children, Siblings
<1> QED
  BY <1>1, <1>2, <1>3, <1>4, <1>5 DEF Next

(* Both begin with nothing. *)
LEMMA BeginsAs == Init => Tree!Init
  BY DEF Init, Tree!Init

-----------------------------------------------------------------------------
(***************************************************************************)
(* The results.                                                            *)
(***************************************************************************)

(* However a document is nested, its nodes are chained in the order of the *)
(* document, each below one parent, and the walks that log and free the    *)
(* tree come by every node once.                                           *)
THEOREM NodesOnce == Spec => []EachNodeOnce
  BY Always, OnceEach, PTL

(* The attribute that logging adds is found under "encoding" only if the   *)
(* engine sent no other.                                                   *)
THEOREM EncodingWins == Spec => []EngineEncodingWins
  BY Always, FirstWins, PTL

(* When the text of an element is reported in one piece, the tree is the   *)
(* document's, each element below the one open when it began.              *)
THEOREM TreeIsTheDocument == ASSUME ~SplitsText PROVE Spec => ImplementsTree
<1>1. IInv /\ IInv' /\ ElementsKnown' /\ PathKnown' /\ [Next]_vars => [Tree!Next]_(Tree!vars)
  BY StepsAs
<1> QED
  BY <1>1, Always, BeginsAs, ElementsAre, PathIs, PTL DEF Spec, ImplementsTree, Tree!Spec
=============================================================================
