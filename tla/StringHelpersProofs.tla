------------------------ MODULE StringHelpersProofs ------------------------
(***************************************************************************)
(* For strings of any kind and length, and any number of bytes allocated   *)
(* beyond what is needed: nothing is written outside of the memory there   *)
(* is, the text ends where l says, and the buffer implements Text.  What   *)
(* the helpers make of such a text is right for all delimiters and limits. *)
(***************************************************************************)
EXTENDS StringHelpers, SequenceTheorems, WellFoundedInduction, TLAPS

(* The text is made of characters, and a NUL stands behind it within the   *)
(* memory, once there is any.                                              *)
IInv ==
    /\ l \in Nat /\ a \in Nat
    /\ d \in [0..(a - 1) -> Chars \cup {NUL, JUNK}]
    /\ a = 0 => l = 0
    /\ a # 0 => l < a /\ d[l] = NUL
    /\ \A i \in 0..(l - 1) : d[i] \in Chars
    /\ ~ overrun

(* Room is made for the bytes, and for the NUL. *)
LEMMA RoomSuffices ==
    ASSUME IInv, NEW le \in Nat
    PROVE  Room(le) \in Nat /\ l + le < Room(le) /\ a <= Room(le)
  BY StrAssumption DEF IInv, Room

(* The text of a string is a sequence of characters. *)
LEMMA ContentIsText ==
    ASSUME IInv
    PROVE  Content \in Seq(Chars) /\ Len(Content) = l
<1>1. \A i \in 1..l : i - 1 \in 0..(l - 1)
  BY DEF IInv
<1>2. \A i \in 1..l : d[i - 1] \in Chars
  BY <1>1 DEF IInv
<1>3. Content \in [1..l -> Chars]
  BY <1>2 DEF Content
<1> QED  BY <1>3 DEF IInv

(* What memory holds after adding: the old text, the new one, and a NUL. *)
LEMMA StoredHolds ==
    ASSUME IInv, NEW str \in Seq(Chars)
    PROVE  /\ Stored(str) \in [0..(Room(Len(str)) - 1) -> Chars \cup {NUL, JUNK}]
           /\ \A i \in 0..(l - 1) : Stored(str)[i] = d[i]
           /\ \A i \in 1..Len(str) : Stored(str)[l + i - 1] = str[i]
           /\ Stored(str)[l + Len(str)] = NUL
<1> DEFINE le == Len(str)
           room == Room(le)
<1>1. le \in Nat /\ room \in Nat /\ l + le < room /\ a <= room
  BY RoomSuffices
<1>2. l \in Nat /\ a \in Nat /\ (l = 0 \/ l < a)
  BY DEF IInv
<1>3. ASSUME NEW i \in 0..(room - 1)
      PROVE  (IF l <= i /\ i < l + le THEN str[i - l + 1]
              ELSE IF i = l + le THEN NUL ELSE Kept(i, le)) \in Chars \cup {NUL, JUNK}
  <2>1. CASE l <= i /\ i < l + le
    <3>1. i - l + 1 \in 1..le
      BY <2>1, <1>1, <1>2
    <3>2. str[i - l + 1] \in Chars
      BY <3>1
    <3> QED  BY <2>1, <3>2
  <2>2. CASE ~ (l <= i /\ i < l + le)
    <3>1. Kept(i, le) \in Chars \cup {NUL, JUNK}
      <4>1. i < a => i \in 0..(a - 1)
        BY <1>1, <1>2
      <4> QED  BY <4>1 DEF Kept, IInv
    <3> QED  BY <2>2, <3>1
  <2> QED  BY <2>1, <2>2
<1>4. Stored(str) \in [0..(room - 1) -> Chars \cup {NUL, JUNK}]
  BY <1>3 DEF Stored
<1>5. ASSUME NEW i \in 0..(l - 1)
      PROVE  Stored(str)[i] = d[i]
  BY <1>1, <1>2 DEF Stored, Kept
<1>6. ASSUME NEW i \in 1..le
      PROVE  Stored(str)[l + i - 1] = str[i]
  <2>1. l + i - 1 \in 0..(room - 1) /\ l <= l + i - 1 /\ l + i - 1 < l + le
    BY <1>1, <1>2
  <2>2. (l + i - 1) - l + 1 = i
    BY <1>2
  <2> QED  BY <2>1, <2>2 DEF Stored
<1>7. Stored(str)[l + le] = NUL
  BY <1>1, <1>2 DEF Stored
<1> QED  BY <1>4, <1>5, <1>6, <1>7

(* Adding preserves the invariant and appends to the text. *)
LEMMA Adding ==
    ASSUME IInv, NEW str \in Seq(Chars), Adds(str)
    PROVE  IInv' /\ Content' = Content \o str
<1> DEFINE le == Len(str)
<1>1. le \in Nat /\ Room(le) \in Nat /\ l + le < Room(le) /\ a <= Room(le)
  BY RoomSuffices
<1>2. l' = l + le /\ a' = Room(le) /\ d' = Stored(str)
  BY DEF Adds
<1>3. l \in Nat /\ a \in Nat
  BY DEF IInv
<1>4. \A i \in 0..(l + le - 1) : i \notin 0..(l - 1) => i - l + 1 \in 1..le /\ l + (i - l + 1) - 1 = i
  BY <1>1, <1>3
<1>5. \A i \in 0..(l' - 1) : d'[i] \in Chars
  <2> SUFFICES ASSUME NEW i \in 0..(l + le - 1) PROVE Stored(str)[i] \in Chars
    BY <1>1, <1>2, <1>3
  <2>1. CASE i \in 0..(l - 1)
    BY <2>1, StoredHolds DEF IInv
  <2>2. CASE i \notin 0..(l - 1)
    <3> DEFINE j == i - l + 1
    <3>1. j \in 1..le /\ l + j - 1 = i
      BY <2>2, <1>4
    <3>2. Stored(str)[l + j - 1] = str[j] /\ str[j] \in Chars
      BY <3>1, StoredHolds
    <3> QED  BY <3>1, <3>2
  <2> QED  BY <2>1, <2>2
<1>6. ~ overrun'
  <2>1. ~ (l + le >= Room(le))
    BY <1>1, <1>3
  <2> QED  BY <2>1 DEF Adds, IInv
<1>7. IInv'
  <2>1. l' \in Nat /\ a' \in Nat /\ a' # 0 /\ l' < a'
    BY <1>1, <1>2, <1>3
  <2>2. d' \in [0..(a' - 1) -> Chars \cup {NUL, JUNK}] /\ d'[l'] = NUL
    BY <1>2, StoredHolds
  <2> QED  BY <2>1, <2>2, <1>5, <1>6 DEF IInv
<1>8. Content' = Content \o str
  <2>1. Content \in Seq(Chars) /\ Len(Content) = l
    BY ContentIsText
  <2>2. Content' \in Seq(Chars) /\ Len(Content') = l + le
    <3>1. l' \in Nat /\ \A i \in 1..l' : d'[i - 1] \in Chars
      BY <1>1, <1>2, <1>3, <1>5
    <3>2. Content' \in [1..l' -> Chars]
      BY <3>1 DEF Content
    <3> QED  BY <3>1, <3>2, <1>2
  <2>3. ASSUME NEW i \in 1..(l + le)
        PROVE  Content'[i] = (Content \o str)[i]
    <3>1. Content'[i] = Stored(str)[i - 1]
      BY <1>2 DEF Content
    <3>2. CASE i <= l
      <4>1. i - 1 \in 0..(l - 1) /\ i \in 1..l
        BY <3>2, <1>3
      <4>2. Stored(str)[i - 1] = d[i - 1]
        BY <4>1, StoredHolds
      <4>3. (Content \o str)[i] = Content[i]
        BY <4>1, <2>1
      <4>4. Content[i] = d[i - 1]
        BY <4>1 DEF Content
      <4> QED  BY <3>1, <4>2, <4>3, <4>4
    <3>3. CASE i > l
      <4> DEFINE j == i - l
      <4>1. j \in 1..le /\ l + j - 1 = i - 1 /\ l + j = i
        BY <3>3, <1>1, <1>3
      <4>2. Stored(str)[l + j - 1] = str[j]
        BY <4>1, StoredHolds
      <4>3. (Content \o str)[i] = str[j]
        BY <3>3, <4>1, <2>1
      <4> QED  BY <3>1, <4>1, <4>2, <4>3
    <3>4. i <= l \/ i > l
      BY <1>1, <1>3
    <3> QED  BY <3>2, <3>3, <3>4, Zenon
  <2>4. Content \o str \in Seq(Chars) /\ Len(Content \o str) = l + le
    BY <2>1
  <2> QED  BY <2>2, <2>3, <2>4, SeqEqual
<1> QED  BY <1>7, <1>8

(* Chopping does too, and shortens the text unless there is less of it. *)
LEMMA Chopping ==
    ASSUME IInv, NEW c \in Nat, xdebug_str_chop(c)
    PROVE  IInv' /\ T!Chop(c)
<1>1. l \in Nat /\ a \in Nat /\ a # 0 /\ l < a
  BY DEF IInv, xdebug_str_chop
<1>2. Content \in Seq(Chars) /\ Len(Content) = l
  BY ContentIsText
<1>3. CASE c > l
  <2>1. UNCHANGED <<l, a, d, overrun>>
    BY <1>3 DEF xdebug_str_chop
  <2>2. IInv'
    BY <2>1 DEF IInv
  <2>3. Content' = Content
    BY <2>1 DEF Content
  <2> QED  BY <2>2, <2>3, <1>2, <1>3 DEF T!Chop
<1>4. CASE ~ (c > l)
  <2>1. l' = l - c /\ d' = [d EXCEPT ![l - c] = NUL] /\ a' = a /\ overrun' = overrun
    BY <1>4 DEF xdebug_str_chop
  <2>2. l - c \in 0..(a - 1) /\ l - c \in Nat /\ l - c < a
    BY <1>1, <1>4
  <2>3. d' \in [0..(a - 1) -> Chars \cup {NUL, JUNK}] /\ d'[l - c] = NUL
    BY <2>1, <2>2 DEF IInv
  <2>4. \A i \in 0..(l - c - 1) : d'[i] = d[i] /\ d[i] \in Chars
    <3> TAKE i \in 0..(l - c - 1)
    <3>1. i \in 0..(l - 1) /\ i \in 0..(a - 1) /\ i # l - c
      BY <1>1, <2>2
    <3> QED  BY <3>1, <2>1 DEF IInv
  <2>5. IInv'
    BY <1>1, <2>1, <2>2, <2>3, <2>4 DEF IInv
  <2>6. Content' = SubSeq(Content, 1, l - c)
    <3>1. Content' = [i \in 1..(l - c) |-> d'[i - 1]]
      BY <2>1 DEF Content
    <3>2. SubSeq(Content, 1, l - c) = [i \in 1..(l - c) |-> Content[i]]
      BY <1>1, <1>2, <2>2
    <3>3. ASSUME NEW i \in 1..(l - c)
          PROVE  d'[i - 1] = Content[i]
      <4>1. i - 1 \in 0..(l - c - 1) /\ i \in 1..l
        BY <1>1, <2>2
      <4> QED  BY <4>1, <2>4 DEF Content
    <3> QED  BY <3>1, <3>2, <3>3
  <2> QED  BY <2>5, <2>6, <1>2, <1>4 DEF T!Chop
<1> QED  BY <1>3, <1>4

(* Every step preserves the invariant, and is one of Text's or none. *)
THEOREM Inductive ==
    ASSUME IInv, [Next]_vars
    PROVE  IInv' /\ [T!Next]_Content
<1>1. CASE UNCHANGED vars
  <2>1. IInv'
    BY <1>1 DEF IInv, vars
  <2>2. Content' = Content
    BY <1>1 DEF Content, vars
  <2> QED  BY <2>1, <2>2
<1>2. ASSUME NEW str \in Strings, xdebug_str_add(str)
      PROVE  IInv' /\ T!Next
  <2>1. str \in Seq(Chars)
    BY StrAssumption
  <2>2. IInv' /\ Content' = Content \o str
    BY <1>2, <2>1, Adding DEF xdebug_str_add
  <2> QED  BY <2>2 DEF T!Next, T!Adds
<1>3. ASSUME NEW str \in Strings, NEW le \in 0..Len(str), xdebug_str_addl(str, le)
      PROVE  IInv' /\ T!Next
  <2>1. str \in Seq(Chars)
    BY StrAssumption
  <2>2. SubSeq(str, 1, le) \in Seq(Chars)
    BY <2>1
  <2>3. IInv' /\ Content' = Content \o SubSeq(str, 1, le)
    BY <1>3, <2>2, Adding DEF xdebug_str_addl
  <2> QED  BY <2>3 DEF T!Next, T!Adds
<1>4. ASSUME NEW c \in 0..MaxChop, xdebug_str_chop(c)
      PROVE  IInv' /\ T!Next
  <2>1. c \in Nat
    BY StrAssumption
  <2>2. IInv' /\ T!Chop(c)
    BY <1>4, <2>1, Chopping
  <2> QED  BY <2>2 DEF T!Next
<1> QED  BY <1>1, <1>2, <1>3, <1>4 DEF Next

(* An empty buffer is an empty text. *)
LEMMA Initially == Init => IInv /\ T!Init
<1> SUFFICES ASSUME Init PROVE IInv /\ T!Init
  OBVIOUS
<1>1. l = 0 /\ a = 0 /\ ~ overrun /\ d = [i \in {} |-> JUNK]
  BY DEF Init
<1>2. d \in [0..(a - 1) -> Chars \cup {NUL, JUNK}]
  BY <1>1
<1>3. IInv
  BY <1>1, <1>2 DEF IInv
<1>4. Content = << >>
  <2>1. Content \in Seq(Chars) /\ Len(Content) = 0
    BY <1>1, <1>3, ContentIsText
  <2> QED  BY <2>1
<1> QED  BY <1>3, <1>4 DEF T!Init

(* The invariant always holds. *)
THEOREM Invariance == Spec => []IInv
<1>1. IInv /\ [Next]_vars => IInv'
  BY Inductive
<1> QED  BY Initially, <1>1, PTL DEF Spec

(* No byte is written outside of the memory, and the text ends in a NUL     *)
(* where l says (xdebug_str.c 27-71).                                      *)
THEOREM StaysInside == Spec => []TerminatedInside
<1>1. IInv => TerminatedInside
  BY StrAssumption DEF IInv, TerminatedInside
<1> QED  BY <1>1, Invariance, PTL

(* The buffer is a text: reallocation loses nothing of it (27-71). *)
THEOREM Refinement == Spec => ImplementsText
<1>1. Init => T!Init
  BY Initially
<1>2. IInv /\ [Next]_vars => [T!Next]_Content
  BY Inductive
<1> QED  BY <1>1, <1>2, Invariance, PTL DEF Spec, ImplementsText, T!Spec
-----------------------------------------------------------------------------
(***************************************************************************)
(* The helpers are recursive.  A recursive definition names the function   *)
(* that obeys an equation, and says nothing unless there is one; so for    *)
(* each helper such a function is first built, position by position, from  *)
(* the end of the text.                                                    *)
(***************************************************************************)

(* A set of numbers has a least one. *)
LEMMA Least ==
  ASSUME NEW Good \in SUBSET Nat, Good # {}
  PROVE  \E x \in Good : \A y \in Good : x <= y
<1> DEFINE Less == OpToRel(<, Nat)
<1>1. IsWellFoundedOn(Less, Nat)
  BY NatLessThanWellFounded
<1>2. \A x, y \in Nat : <<x, y>> \in Less <=> x < y
  BY DEF OpToRel
<1> HIDE DEF Less
<1>3. PICK x \in Good : \A y \in Good : ~ (<<y, x>> \in Less)
  BY <1>1, WFMin
<1>4. \A y \in Good : ~ (y < x)
  BY <1>2, <1>3
<1> HIDE <1>2
<1>5. x \in Nat /\ \A y \in Good : y \in Nat
  BY <1>3
<1> QED
  BY <1>3, <1>4, <1>5

(* What holds of a number if it holds of all later ones, holds of all. *)
LEMMA Backwards ==
  ASSUME NEW b \in Int, NEW n \in Int, NEW Good,
         \A m \in b..n : (m + 1)..n \subseteq Good => m \in Good
  PROVE  b..n \subseteq Good
<1> SUFFICES ASSUME NEW x \in b..n, x \notin Good PROVE FALSE
  OBVIOUS
<1> DEFINE Bad == {n - m : m \in (b..n) \ Good}
<1>1. Bad \in SUBSET Nat /\ n - x \in Bad
  OBVIOUS
<1>2. PICK e \in Bad : \A f \in Bad : e <= f
  BY <1>1, Least
<1>3. PICK m \in (b..n) \ Good : e = n - m
  BY <1>2
<1>4. ASSUME NEW j \in (m + 1)..n PROVE j \in Good
  <2> SUFFICES ASSUME j \notin Good PROVE FALSE
    OBVIOUS
  <2>1. j \in (b..n) \ Good /\ n - j < n - m
    BY <1>3
  <2>2. \E k \in (b..n) \ Good : n - j = n - k
    BY <2>1
  <2>3. n - j \in Bad
    BY <2>2, Zenon
  <2> HIDE DEF Bad
  <2>4. e <= n - j
    BY <1>2, <2>3
  <2> QED
    BY <1>3, <2>1, <2>4
<1> QED
  BY <1>3, <1>4

(* What holds of the first, and of a number after one it holds of, holds    *)
(* of all.                                                                 *)
LEMMA Forwards ==
  ASSUME NEW n \in Nat, NEW Good, n > 0 => 1 \in Good,
         \A m \in 1..(n - 1) : m \in Good => m + 1 \in Good
  PROVE  1..n \subseteq Good
<1> SUFFICES ASSUME NEW x \in 1..n, x \notin Good PROVE FALSE
  OBVIOUS
<1> DEFINE Bad == {m \in 1..n : m \notin Good}
<1>1. Bad \in SUBSET Nat /\ x \in Bad
  OBVIOUS
<1>2. PICK m \in Bad : \A k \in Bad : m <= k
  <2> HIDE DEF Bad
  <2> QED
    BY <1>1, Least
<1>3. m \in 1..n /\ m \notin Good /\ m # 1
  BY <1>2
<1>4. m - 1 \in 1..(n - 1) /\ m - 1 \in 1..n /\ (m - 1) + 1 = m /\ ~ (m <= m - 1)
  BY <1>3
<1>5. m - 1 \in Good
  BY <1>2, <1>4
<1> QED
  BY <1>3, <1>4, <1>5
-----------------------------------------------------------------------------
(* A function of 1..n is a sequence. *)
LEMMA SeqOfFunction ==
  ASSUME NEW S, NEW n \in Nat, NEW seq \in [1..n -> S]
  PROVE  seq \in Seq(S) /\ Len(seq) = n
  OBVIOUS

(* A sequence is one of any larger set. *)
LEMMA SeqOfMore ==
  ASSUME NEW R, NEW S \in SUBSET R, NEW seq \in Seq(S)
  PROVE  seq \in Seq(R)
<1>1. Len(seq) \in Nat /\ seq \in [1..Len(seq) -> S]
  OBVIOUS
<1>2. seq \in [1..Len(seq) -> R]
  BY <1>1
<1> QED
  BY <1>1, <1>2

(* What FlattenSeq puts together. *)

(* part is how far the sequences in ss are put together, one by one. *)
Joins(part, ss) ==
    /\ part[1] = ss[1]
    /\ \A i \in 2..Len(ss) : part[i] = part[i - 1] \o ss[i]

(* There is such a part, and its last is what FlattenSeq gives. *)
LEMMA FlattenJoins ==
  ASSUME NEW S, NEW ss \in Seq(Seq(S)), Len(ss) > 0
  PROVE  \E part : /\ Joins(part, ss)
                   /\ \A i \in 1..Len(ss) : part[i] \in Seq(S)
                   /\ FlattenSeq(ss) = part[Len(ss)]
<1>1. PICK n : n = Len(ss)
  OBVIOUS
<1>2. n \in Nat /\ n > 0 /\ n # 0
  BY <1>1
<1> DEFINE Eq(g, m) == [i \in 1..m |-> IF i = 1 THEN ss[i] ELSE g[i - 1] \o ss[i]]
           Good == {m \in 1..n : \E g : g = Eq(g, m)}
<1>3. 1 \in Good
  <2>1. PICK g : g = [i \in 1..1 |-> ss[i]]
    OBVIOUS
  <2>2. \A i \in 1..1 : i = 1
    OBVIOUS
  <2>3. g = Eq(g, 1)
    BY <2>1, <2>2, Zenon
  <2>4. 1 \in 1..n
    BY <1>2
  <2> QED
    BY <2>3, <2>4, Zenon
<1>4. ASSUME NEW m \in 1..(n - 1), m \in Good
      PROVE  m + 1 \in Good
  <2>1. PICK g : g = Eq(g, m)
    BY <1>4
  <2>2. PICK h : h = [i \in 1..(m + 1) |-> IF i = m + 1 THEN g[m] \o ss[m + 1] ELSE g[i]]
    OBVIOUS
  <2>3. m + 1 \in 1..n /\ m + 1 \in 1..(m + 1) /\ m + 1 # 1 /\ (m + 1) - 1 = m
        /\ m \in 1..(m + 1) /\ m # m + 1
    BY <1>2
  <2>4. ASSUME NEW i \in 1..(m + 1)
        PROVE  h[i] = IF i = 1 THEN ss[i] ELSE h[i - 1] \o ss[i]
    <3>1. CASE i = m + 1
      <4>1. h[i] = g[m] \o ss[m + 1] /\ h[m] = g[m]
        BY <2>2, <2>3, <3>1, Zenon
      <4> QED
        BY <3>1, <4>1, <2>3, Zenon
    <3>2. CASE i # m + 1
      <4>1. i \in 1..m /\ (i # 1 => i - 1 \in 1..m /\ i - 1 \in 1..(m + 1) /\ i - 1 # m + 1)
        BY <3>2
      <4>2. h[i] = g[i] /\ (i # 1 => h[i - 1] = g[i - 1])
        BY <2>2, <3>2, <4>1, Zenon
      <4>3. g[i] = Eq(g, m)[i]
        BY <2>1, Zenon
      <4>4. g[i] = IF i = 1 THEN ss[i] ELSE g[i - 1] \o ss[i]
        BY <4>1, <4>3, Zenon
      <4> QED
        BY <4>1, <4>2, <4>4, Zenon
    <3> QED
      BY <3>1, <3>2
  <2>5. h = Eq(h, m + 1)
    BY <2>2, <2>4, Zenon
  <2> QED
    BY <2>3, <2>5, Zenon
<1>5. n \in Good
  <2> HIDE DEF Good
  <2>1. 1..n \subseteq Good
    BY <1>2, <1>3, <1>4, Forwards
  <2> QED
    BY <1>2, <2>1
<1>6. \E g : g = Eq(g, n)
  BY <1>5
<1> DEFINE part == CHOOSE g : g = Eq(g, n)
<1>7. part = Eq(part, n)
  <2> HIDE DEF Eq
  <2> QED
    BY <1>6, Zenon
<1>8. FlattenSeq(ss) = part[n]
  <2>1. Len(ss) # 0
    BY <1>1, <1>2
  <2> QED
    BY <1>1, <2>1, Zenon DEF FlattenSeq
<1> HIDE DEF part, Good
<1>9. Joins(part, ss)
  <2>1. \A i \in 1..n : part[i] = Eq(part, n)[i]
    BY <1>7, Zenon
  <2>2. 1 \in 1..n /\ \A i \in 2..n : i \in 1..n /\ i # 1
    BY <1>2
  <2>3. part[1] = ss[1] /\ \A i \in 2..n : part[i] = part[i - 1] \o ss[i]
    BY <2>1, <2>2, Zenon
  <2> QED
    BY <1>1, <2>3, Zenon DEF Joins
<1> HIDE DEF Eq
<1>10. \A i \in 1..n : part[i] \in Seq(S)
  <2> DEFINE U == {i \in 1..n : part[i] \in Seq(S)}
  <2>1. \A i \in 1..n : ss[i] \in Seq(S)
    BY <1>1
  <2>2. 1 \in U
    BY <1>1, <1>2, <1>9, <2>1 DEF Joins
  <2>3. ASSUME NEW m \in 1..(n - 1), m \in U PROVE m + 1 \in U
    <3>1. m + 1 \in 2..n /\ m + 1 \in 1..n /\ (m + 1) - 1 = m
      BY <1>2
    <3>2. part[m + 1] = part[m] \o ss[m + 1]
      BY <1>1, <1>9, <3>1 DEF Joins
    <3>3. part[m] \in Seq(S) /\ ss[m + 1] \in Seq(S)
      BY <2>1, <2>3, <3>1
    <3>4. part[m] \o ss[m + 1] \in Seq(S)
      BY <3>3, ConcatProperties
    <3> QED
      BY <3>1, <3>2, <3>4
  <2> HIDE DEF U
  <2>4. 1..n \subseteq U
    BY <1>2, <2>2, <2>3, Forwards
  <2> QED
    BY <2>4 DEF U
<1> QED
  BY <1>1, <1>8, <1>9, <1>10, Zenon

(* The parts are the only ones. *)
LEMMA JoinsOnce ==
  ASSUME NEW ss, NEW n \in Nat, n = Len(ss), NEW part, NEW other,
         Joins(part, ss), Joins(other, ss)
  PROVE  \A i \in 1..n : part[i] = other[i]
<1> DEFINE Good == {i \in 1..n : part[i] = other[i]}
<1>1. n > 0 => 1 \in Good
  BY DEF Joins
<1>2. ASSUME NEW m \in 1..(n - 1), m \in Good PROVE m + 1 \in Good
  <2>1. m + 1 \in 2..n /\ m + 1 \in 1..n /\ (m + 1) - 1 = m
    OBVIOUS
  <2>2. part[m + 1] = part[m] \o ss[m + 1] /\ other[m + 1] = other[m] \o ss[m + 1]
    BY <2>1 DEF Joins
  <2> QED
    BY <1>2, <2>1, <2>2
<1> HIDE DEF Good
<1>3. 1..n \subseteq Good
  BY <1>1, <1>2, Forwards
<1> QED
  BY <1>3 DEF Good

(* What is put together is a sequence of the same elements. *)
LEMMA FlattenIsSeq ==
  ASSUME NEW S, NEW ss \in Seq(Seq(S))
  PROVE  FlattenSeq(ss) \in Seq(S)
<1>1. CASE Len(ss) = 0
  <2>1. \A seq \in Seq(Seq(S)) : seq # << >> => Len(seq) \in Nat \ {0}
    BY EmptySeq
  <2>2. ss = << >>
    BY <1>1, <2>1
  <2>3. FlattenSeq(ss) = << >>
    BY <1>1, <2>2, Zenon DEF FlattenSeq
  <2> QED
    BY <2>3
<1>2. CASE Len(ss) # 0
  <2>1. Len(ss) > 0 /\ Len(ss) \in 1..Len(ss)
    BY <1>2
  <2>2. PICK part : /\ \A i \in 1..Len(ss) : part[i] \in Seq(S)
                    /\ FlattenSeq(ss) = part[Len(ss)]
    BY <2>1, FlattenJoins
  <2> QED
    BY <2>1, <2>2, Zenon
<1> QED
  BY <1>1, <1>2

Associates(s, t, u) == (s \o t) \o u = s \o (t \o u)

(* Which of three sequences are put together first makes no difference. *)
LEMMA Associative ==
  ASSUME NEW S, NEW s \in Seq(S), NEW t \in Seq(S), NEW u \in Seq(S)
  PROVE  Associates(s, t, u)
  BY DEF Associates

(* A sequence with one more in front. *)
LEMMA InFront ==
  ASSUME NEW S, NEW s \in S, NEW ss \in Seq(S)
  PROVE  /\ << s >> \o ss \in Seq(S)
         /\ Len(<< s >> \o ss) = Len(ss) + 1
         /\ (<< s >> \o ss)[1] = s
         /\ \A i \in 1..Len(ss) : (<< s >> \o ss)[i + 1] = ss[i]
<1>1. PICK n, tt : n = Len(ss) /\ tt = << s >> \o ss
  OBVIOUS
<1>2. << s >> \in Seq(S) /\ Len(<< s >>) = 1 /\ << s >>[1] = s
  OBVIOUS
<1>3. /\ tt \in Seq(S) /\ Len(tt) = Len(<< s >>) + Len(ss)
      /\ \A i \in 1..(Len(<< s >>) + Len(ss)) :
            tt[i] = IF i <= Len(<< s >>) THEN << s >>[i] ELSE ss[i - Len(<< s >>)]
  BY <1>1, <1>2, ConcatProperties
<1>4. /\ Len(tt) = 1 + n
      /\ \A i \in 1..(1 + n) : tt[i] = IF i <= 1 THEN << s >>[i] ELSE ss[i - 1]
  BY <1>1, <1>2, <1>3
<1>5. n \in Nat
  BY <1>1
<1>6. tt[1] = s
  <2>1. 1 \in 1..(1 + n) /\ 1 <= 1
    BY <1>5
  <2> QED
    BY <1>2, <1>4, <2>1
<1>7. ASSUME NEW i \in 1..n PROVE tt[i + 1] = ss[i]
  <2>1. i + 1 \in 1..(1 + n) /\ ~ (i + 1 <= 1) /\ (i + 1) - 1 = i
    BY <1>5
  <2> QED
    BY <1>4, <2>1
<1>8. Len(tt) = n + 1
  BY <1>4, <1>5
<1> QED
  BY <1>1, <1>3, <1>6, <1>7, <1>8, Zenon

(* One more in front comes out in front. *)
LEMMA FlattenCons ==
  ASSUME NEW S, NEW s \in Seq(S), NEW ss \in Seq(Seq(S))
  PROVE  /\ FlattenSeq(ss) \in Seq(S)
         /\ FlattenSeq(<< s >> \o ss) = s \o FlattenSeq(ss)
<1>1. PICK n, tt : n = Len(ss) /\ tt = << s >> \o ss
  OBVIOUS
<1>3. /\ n \in Nat /\ tt \in Seq(Seq(S)) /\ Len(tt) = n + 1
      /\ tt[1] = s /\ \A i \in 1..n : tt[i + 1] = ss[i]
  <2>1. s \in Seq(S) /\ n \in Nat
    BY <1>1
  <2> QED
    BY <1>1, <2>1, InFront
<1>4. PICK whole : /\ Joins(whole, tt)
                   /\ \A i \in 1..Len(tt) : whole[i] \in Seq(S)
                   /\ FlattenSeq(tt) = whole[Len(tt)]
  <2>1. tt \in Seq(Seq(S)) /\ Len(tt) > 0
    BY <1>3
  <2> HIDE <1>1, <1>3
  <2> QED
    BY <2>1, FlattenJoins
<1>5. CASE n = 0
  <2>1. ss = << >>
    <3>1. \A seq \in Seq(Seq(S)) : seq # << >> => Len(seq) \in Nat \ {0}
      BY EmptySeq
    <3> QED
      BY <1>1, <1>5, <3>1
  <2>2. FlattenSeq(ss) = << >>
    BY <1>1, <1>5, <2>1 DEF FlattenSeq
  <2>3. FlattenSeq(tt) = s
    BY <1>3, <1>4, <1>5 DEF Joins
  <2>4. s \o << >> = s /\ << >> \in Seq(S)
    BY ConcatEmptySeq
  <2> QED
    BY <1>1, <2>2, <2>3, <2>4, Zenon
<1>6. CASE n # 0
  <2>1. PICK part : /\ Joins(part, ss)
                    /\ \A i \in 1..Len(ss) : part[i] \in Seq(S)
                    /\ FlattenSeq(ss) = part[Len(ss)]
    <3>1. Len(ss) > 0
      BY <1>1, <1>3, <1>6
    <3> QED
      BY <3>1, FlattenJoins
  <2> DEFINE Good == {i \in 1..n : whole[i + 1] = s \o part[i]}
  <2>2. 1 \in Good
    <3>1. 1 \in 1..n /\ 2 \in 2..(n + 1) /\ 2 - 1 = 1 /\ 1 + 1 = 2
      BY <1>3, <1>6
    <3>2. whole[2] = whole[1] \o tt[2] /\ whole[1] = tt[1]
      BY <1>3, <1>4, <3>1 DEF Joins
    <3>3. tt[2] = ss[1] /\ tt[1] = s /\ part[1] = ss[1]
      BY <1>3, <2>1, <3>1 DEF Joins
    <3> QED
      BY <3>1, <3>2, <3>3
  <2>3. ASSUME NEW m \in 1..(n - 1), m \in Good PROVE m + 1 \in Good
    <3>1. /\ m \in 1..n /\ m + 1 \in 2..n /\ m + 1 \in 1..n /\ (m + 1) - 1 = m
          /\ m + 2 \in 2..(n + 1) /\ (m + 2) - 1 = m + 1 /\ (m + 1) + 1 = m + 2
      BY <1>3
    <3>2. whole[m + 2] = whole[m + 1] \o tt[m + 2] /\ tt[m + 2] = ss[m + 1]
      BY <1>3, <1>4, <3>1 DEF Joins
    <3>3. part[m + 1] = part[m] \o ss[m + 1]
      BY <1>1, <2>1, <3>1 DEF Joins
    <3>4. whole[m + 1] = s \o part[m]
      BY <2>3
    <3>5. part[m] \in Seq(S) /\ ss[m + 1] \in Seq(S)
      BY <1>1, <2>1, <3>1
    <3>6. (s \o part[m]) \o ss[m + 1] = s \o (part[m] \o ss[m + 1])
      <4>1. PICK p, u, sp, pu : p = part[m] /\ u = ss[m + 1] /\ sp = s \o p /\ pu = p \o u
        OBVIOUS
      <4>2. p \in Seq(S) /\ u \in Seq(S) /\ s \in Seq(S)
        BY <3>5, <4>1
      <4>3. sp \o u = s \o pu
        <5>1. Associates(s, p, u)
          BY <4>2, Associative, Zenon
        <5> QED
          BY <4>1, <5>1, Zenon DEF Associates
      <4> QED
        BY <4>1, <4>3, Zenon
    <3> QED
      BY <3>1, <3>2, <3>3, <3>4, <3>6
  <2> HIDE DEF Good
  <2>4. 1..n \subseteq Good
    BY <1>3, <2>2, <2>3, Forwards
  <2>5. n \in Good /\ n \in 1..n
    BY <1>3, <1>6, <2>4
  <2>6. whole[n + 1] = s \o part[n]
    BY <2>5 DEF Good
  <2> QED
    BY <1>1, <1>3, <1>4, <2>1, <2>5, <2>6
<1> QED
  BY <1>5, <1>6

-----------------------------------------------------------------------------
(* What is left of a flattened text after each of the sequences it is made  *)
(* of: rest[i] begins with ss[i], and is the end of the text.               *)
Rests(rest, ss) ==
    /\ rest[1] = FlattenSeq(ss)
    /\ Len(rest[Len(ss) + 1]) = 0
    /\ \A i \in 1..(Len(ss) + 1) : Len(rest[i]) \in Nat
    /\ \A i \in 1..Len(ss) :
          /\ Len(rest[i]) = Len(ss[i]) + Len(rest[i + 1])
          /\ \A k \in 1..Len(ss[i]) : rest[i][k] = ss[i][k]
          /\ \A k \in 1..Len(rest[i + 1]) : rest[i][Len(ss[i]) + k] = rest[i + 1][k]

(* There are such rests. *)
LEMMA FlattenRests ==
  ASSUME NEW S, NEW ss \in Seq(Seq(S))
  PROVE  \E rest : /\ Rests(rest, ss)
                   /\ \A i \in 1..(Len(ss) + 1) : rest[i] \in Seq(S)
<1>1. PICK n : n = Len(ss)
  OBVIOUS
<1>2. n \in Nat /\ \A i \in 1..n : ss[i] \in Seq(S)
  BY <1>1
<1>3. \A i \in 1..(n + 1) : SubSeq(ss, i, n) \in Seq(Seq(S))
  <2> SUFFICES ASSUME NEW i \in 1..(n + 1) PROVE SubSeq(ss, i, n) \in Seq(Seq(S))
    OBVIOUS
  <2>1. \A j \in i..n : ss[j] \in Seq(S)
    BY <1>2
  <2> QED
    BY <1>2, <2>1, SubSeqProperties
<1>4. PICK rest : rest = [i \in 1..(n + 1) |-> FlattenSeq(SubSeq(ss, i, n))]
  OBVIOUS
<1>5. \A i \in 1..(n + 1) : rest[i] = FlattenSeq(SubSeq(ss, i, n))
  BY <1>4
<1>6. ASSUME NEW i \in 1..(n + 1) PROVE rest[i] \in Seq(S)
  <2>1. PICK tt : tt = SubSeq(ss, i, n)
    OBVIOUS
  <2>2. tt \in Seq(Seq(S)) /\ rest[i] = FlattenSeq(tt)
    BY <1>3, <1>5, <2>1, Zenon
  <2>3. FlattenSeq(tt) \in Seq(S)
    BY <2>2, FlattenIsSeq
  <2> QED
    BY <2>2, <2>3
<1>7. rest[1] = FlattenSeq(ss)
  <2>1. SubSeq(ss, 1, n) = ss
    BY <1>1, SubSeqFull
  <2>2. 1 \in 1..(n + 1)
    BY <1>2
  <2> QED
    BY <1>5, <2>1, <2>2, Zenon
<1>8. Len(rest[n + 1]) = 0
  <2>1. SubSeq(ss, n + 1, n) = << >>
    BY <1>2, SubSeqEmpty
  <2>2. n + 1 \in 1..(n + 1)
    BY <1>2
  <2>3. rest[n + 1] = FlattenSeq(<< >>)
    BY <1>5, <2>1, <2>2, Zenon
  <2>4. Len(<< >>) = 0
    OBVIOUS
  <2>5. FlattenSeq(<< >>) = << >>
    BY <2>4, Zenon DEF FlattenSeq
  <2> QED
    BY <2>3, <2>4, <2>5, Zenon
<1>9. ASSUME NEW i \in 1..n
      PROVE  /\ Len(rest[i]) = Len(ss[i]) + Len(rest[i + 1])
             /\ \A k \in 1..Len(ss[i]) : rest[i][k] = ss[i][k]
             /\ \A k \in 1..Len(rest[i + 1]) : rest[i][Len(ss[i]) + k] = rest[i + 1][k]
  <2>1. PICK s, tt : s = ss[i] /\ tt = SubSeq(ss, i + 1, n)
    OBVIOUS
  <2>2. i \in 1..(n + 1) /\ i + 1 \in 1..(n + 1) /\ i \in 1..Len(ss) /\ n \in i..Len(ss)
    BY <1>1, <1>2
  <2>3. SubSeq(ss, i, n) = << ss[i] >> \o SubSeq(ss, i + 1, n)
    BY <2>2, SubSeqRecursiveFirst
  <2>4. rest[i] = FlattenSeq(<< s >> \o tt) /\ rest[i + 1] = FlattenSeq(tt)
    BY <1>5, <2>1, <2>2, <2>3, Zenon
  <2>5. s \in Seq(S) /\ tt \in Seq(Seq(S))
    BY <1>2, <1>3, <2>1, <2>2, Zenon
  <2>6. FlattenSeq(<< s >> \o tt) = s \o FlattenSeq(tt) /\ FlattenSeq(tt) \in Seq(S)
    BY <2>5, FlattenCons
  <2>7. PICK r : r = rest[i + 1]
    OBVIOUS
  <2>8. rest[i] = s \o r /\ r \in Seq(S)
    BY <2>4, <2>6, <2>7, Zenon
  <2>9. PICK w : w = s \o r
    OBVIOUS
  <2>10. /\ Len(w) = Len(s) + Len(r)
         /\ \A k \in 1..(Len(s) + Len(r)) : w[k] = IF k <= Len(s) THEN s[k] ELSE r[k - Len(s)]
    BY <2>5, <2>8, <2>9, ConcatProperties
  <2>11. Len(s) \in Nat /\ Len(r) \in Nat
    BY <2>5, <2>8
  <2>12. \A k \in 1..Len(s) : w[k] = s[k]
    <3>1. \A k \in 1..Len(s) : k \in 1..(Len(s) + Len(r)) /\ k <= Len(s)
      BY <2>11
    <3> QED
      BY <2>10, <3>1, Zenon
  <2>13. \A k \in 1..Len(r) : w[Len(s) + k] = r[k]
    <3>1. \A k \in 1..Len(r) : Len(s) + k \in 1..(Len(s) + Len(r)) /\ ~ (Len(s) + k <= Len(s))
                               /\ (Len(s) + k) - Len(s) = k
      BY <2>11
    <3> QED
      BY <2>10, <3>1, Zenon
  <2>14. w = rest[i]
    BY <2>8, <2>9
  <2> QED
    BY <2>1, <2>7, <2>10, <2>12, <2>13, <2>14, Zenon
<1> HIDE <1>4, <1>5
<1>10. Rests(rest, ss)
  <2>1. \A i \in 1..(n + 1) : Len(rest[i]) \in Nat
    BY <1>6
  <2> QED
    BY <1>1, <1>7, <1>8, <1>9, <2>1, Zenon DEF Rests
<1> QED
  BY <1>1, <1>6, <1>10, Zenon

(* The k-th byte behind the ls first of a rest, counted in the whole. *)
LEMMA Shift ==
  ASSUME NEW n \in Nat, NEW ls \in Nat, NEW lp \in Nat, NEW lr \in Nat, lr = ls + lp,
         NEW k \in 1..lp
  PROVE  ls + k \in 1..lr /\ n - lr + (ls + k) = n - lp + k
  OBVIOUS

EndsIn(rest, whole) ==
    /\ Len(rest) <= Len(whole)
    /\ \A k \in 1..Len(rest) : whole[Len(whole) - Len(rest) + k] = rest[k]

(* Each rest is where the text ends. *)
LEMMA RestsEnd ==
  ASSUME NEW S, NEW ss \in Seq(Seq(S)), NEW rest, Rests(rest, ss)
  PROVE  \A i \in 1..(Len(ss) + 1) : EndsIn(rest[i], rest[1])
<1> DEFINE n == Len(ss)
           Ends(i) == /\ Len(rest[i]) <= Len(rest[1])
                      /\ \A k \in 1..Len(rest[i]) :
                            rest[1][Len(rest[1]) - Len(rest[i]) + k] = rest[i][k]
           Good == {i \in 1..(n + 1) : Ends(i)}
<1>0. n \in Nat /\ \A i \in 1..n : Len(ss[i]) \in Nat
  OBVIOUS
<1>1. \A i \in 1..(n + 1) : Len(rest[i]) \in Nat
  BY Zenon DEF Rests
<1>2. 1 \in Good
  <2>1. 1 \in 1..(n + 1) /\ Len(rest[1]) \in Nat
    BY <1>0, <1>1
  <2>2. \A k \in 1..Len(rest[1]) : Len(rest[1]) - Len(rest[1]) + k = k
    BY <2>1
  <2>3. Len(rest[1]) <= Len(rest[1])
    BY <2>1
  <2>4. Ends(1)
    BY <2>2, <2>3, Zenon
  <2> QED
    BY <2>1, <2>4
<1>3. ASSUME NEW i \in 1..((n + 1) - 1), i \in Good PROVE i + 1 \in Good
  <2>1. i \in 1..n /\ i + 1 \in 1..(n + 1) /\ i \in 1..(n + 1) /\ i \in 1..Len(ss)
    BY <1>0
  <2>2. PICK p, lp, lr, ls : /\ p = i + 1 /\ lp = Len(rest[p])
                             /\ lr = Len(rest[i]) /\ ls = Len(ss[i])
    OBVIOUS
  <2>3. lp \in Nat /\ lr \in Nat /\ ls \in Nat /\ Len(rest[1]) \in Nat
    BY <1>0, <1>1, <2>1, <2>2
  <2>4. lr = ls + lp /\ \A k \in 1..lp : rest[i][ls + k] = rest[p][k]
    BY <2>1, <2>2, Zenon DEF Rests
  <2>5. lr <= Len(rest[1]) /\ \A k \in 1..lr : rest[1][Len(rest[1]) - lr + k] = rest[i][k]
    BY <1>3, <2>2
  <2>6. lp <= Len(rest[1])
    BY <2>3, <2>4, <2>5
  <2>7. ASSUME NEW k \in 1..lp PROVE rest[1][Len(rest[1]) - lp + k] = rest[p][k]
    <3>0. lr = ls + lp
      BY <2>4
    <3>1. ls + k \in 1..lr /\ Len(rest[1]) - lr + (ls + k) = Len(rest[1]) - lp + k
      <4>1. PICK L : L = Len(rest[1])
        OBVIOUS
      <4>2. L \in Nat
        BY <2>3, <4>1
      <4> HIDE <4>1
      <4>3. ls + k \in 1..lr /\ L - lr + (ls + k) = L - lp + k
        BY <2>3, <3>0, <4>2, Shift
      <4> QED
        BY <4>1, <4>3, Zenon
    <3> QED
      BY <2>4, <2>5, <3>1, Zenon
  <2>8. Ends(p)
    BY <2>2, <2>6, <2>7, Zenon
  <2> QED
    BY <2>1, <2>2, <2>8
<1> HIDE DEF Good
<1>4. n + 1 \in Nat
  BY <1>0
<1>5. 1..(n + 1) \subseteq Good
  BY <1>2, <1>3, <1>4, Forwards
<1>6. \A i \in 1..(n + 1) : Ends(i)
  BY <1>5 DEF Good
<1> QED
  BY <1>6, Zenon DEF EndsIn

-----------------------------------------------------------------------------
(* xdebug_raw_url_decode, at one place. *)
Decoding(decode, str, i) ==
    IF i > Len(str) THEN << >>
    ELSE IF Escaped(str, i)
         THEN << xdebug_htoi(str[i + 1], str[i + 2]) >> \o decode[i + 3]
         ELSE << str[i] >> \o decode[i + 1]

(* There is what decode is to be. *)
LEMMA DecodeExists ==
  ASSUME NEW str, Len(str) \in Nat
  PROVE  \E decode : decode = [i \in 1..(Len(str) + 1) |-> Decoding(decode, str, i)]
<1>1. PICK n : n = Len(str)
  OBVIOUS
<1>2. n \in Nat
  BY <1>1
<1> DEFINE From(g, m) == [i \in m..(n + 1) |-> Decoding(g, str, i)]
           Good == {m \in 1..(n + 1) : \E g : g = From(g, m)}
<1>3. ASSUME NEW m \in 1..(n + 1), (m + 1)..(n + 1) \subseteq Good
      PROVE  m \in Good
  <2>1. \E g : \A i \in (m + 1)..(n + 1) : g[i] = Decoding(g, str, i)
    <3>1. CASE m + 1 \in (m + 1)..(n + 1)
      <4>1. PICK g : g = From(g, m + 1)
        BY <1>3, <3>1
      <4>2. \A i \in (m + 1)..(n + 1) : g[i] = From(g, m + 1)[i]
        BY <4>1, Zenon
      <4> QED
        BY <4>2, Zenon
    <3>2. CASE m + 1 \notin (m + 1)..(n + 1)
      <4>1. (m + 1)..(n + 1) = {}
        BY <1>2, <3>2
      <4> QED
        BY <4>1, Zenon
    <3> QED
      BY <3>1, <3>2
  <2>2. PICK g : \A i \in (m + 1)..(n + 1) : g[i] = Decoding(g, str, i)
    BY <2>1
  <2>3. PICK h : h = [i \in m..(n + 1) |-> IF i = m THEN Decoding(g, str, m) ELSE g[i]]
    OBVIOUS
  <2> HIDE DEF Good
  <2>4. \A j \in (m + 1)..(n + 1) : j \in m..(n + 1) /\ j # m
    BY <1>2
  <2>5. \A j \in (m + 1)..(n + 1) : h[j] = g[j]
    BY <2>3, <2>4, Zenon
  <2>6. ASSUME NEW i \in m..(n + 1) PROVE h[i] = Decoding(h, str, i)
    <3>1. Decoding(h, str, i) = Decoding(g, str, i)
      <4>1. CASE i > n
        BY <1>1, <4>1, Zenon DEF Decoding
      <4>2. CASE ~ (i > n)
        <5>1. i + 1 \in (m + 1)..(n + 1)
          BY <1>2, <4>2
        <5>2. Escaped(str, i) => i + 3 \in (m + 1)..(n + 1)
          BY <1>1, <1>2, <4>2 DEF Escaped
        <5>3. h[i + 1] = g[i + 1] /\ (Escaped(str, i) => h[i + 3] = g[i + 3])
          BY <2>5, <5>1, <5>2, Zenon
        <5> QED
          BY <5>3, Zenon DEF Decoding
      <4> QED
        BY <4>1, <4>2
    <3>2. h[i] = IF i = m THEN Decoding(g, str, m) ELSE g[i]
      BY <2>3, Zenon
    <3>3. i = m \/ i \in (m + 1)..(n + 1)
      BY <1>2
    <3> QED
      BY <2>2, <2>4, <3>1, <3>2, <3>3, Zenon
  <2>7. h = From(h, m)
    BY <2>3, <2>6, Zenon
  <2> QED
    BY <2>7, Zenon DEF Good
<1>4. 1..(n + 1) \subseteq Good
  <2> HIDE DEF Good
  <2>1. 1 \in Int /\ n + 1 \in Int
    BY <1>2
  <2> QED
    BY <1>3, <2>1, Backwards
<1>5. 1 \in Good
  <2> HIDE DEF Good
  <2>1. 1 \in 1..(n + 1)
    BY <1>2
  <2> QED
    BY <1>4, <2>1
<1> QED
  BY <1>1, <1>5

(* And so xdebug_raw_url_decode is what it gives for the first place. *)
LEMMA Decodes ==
  ASSUME NEW str, Len(str) \in Nat
  PROVE  \E decode : /\ xdebug_raw_url_decode(str) = decode[1]
                     /\ \A i \in 1..(Len(str) + 1) : decode[i] = Decoding(decode, str, i)
<1> DEFINE Is(g) == g = [i \in 1..(Len(str) + 1) |-> Decoding(g, str, i)]
<1>1. \E g : Is(g)
  BY DecodeExists
<1> DEFINE decode == CHOOSE g : Is(g)
<1>2. xdebug_raw_url_decode(str) = decode[1]
  BY Zenon DEF xdebug_raw_url_decode, Decoding
<1>3. Is(decode)
  <2> HIDE DEF Is
  <2> QED
    BY <1>1, Zenon
<1> HIDE DEF decode
<1>4. \A i \in 1..(Len(str) + 1) :
          decode[i] = [j \in 1..(Len(str) + 1) |-> Decoding(decode, str, j)][i]
  BY <1>3, Zenon
<1>5. \A i \in 1..(Len(str) + 1) : decode[i] = Decoding(decode, str, i)
  BY <1>4, Zenon
<1> QED
  BY <1>2, <1>5, Zenon
-----------------------------------------------------------------------------
(* What xdebug_raw_url_encode makes of one byte. *)
Encoded(c, skip_slash) ==
    IF Escapes(c, skip_slash)
    THEN << Percent, hexchars[(c \div 16) + 1], hexchars[(c % 16) + 1] >>
    ELSE << c >>

Allowed(skip_slash) == {c \in 0..255 : c = Slash => skip_slash}

(* A digit of four bits is one to isxdigit, and xdebug_htoi reads it. *)
LEMMA HexDigits ==
  ASSUME NEW h \in 0..15
  PROVE  LET c == hexchars[h + 1]
         IN  c \in 48..70 /\ IsXdigit(c) /\ HexValue(c) = h
<1>1. hexchars[h + 1] = IF h < 10 THEN 48 + h ELSE 55 + h
  <2>1. \/ h = 0 \/ h = 1 \/ h = 2 \/ h = 3 \/ h = 4 \/ h = 5 \/ h = 6 \/ h = 7
        \/ h = 8 \/ h = 9 \/ h = 10 \/ h = 11 \/ h = 12 \/ h = 13 \/ h = 14 \/ h = 15
    OBVIOUS
  <2> QED
    BY <2>1 DEF hexchars
<1>2. PICK c : c = hexchars[h + 1]
  OBVIOUS
<1>3. c = IF h < 10 THEN 48 + h ELSE 55 + h
  BY <1>1, <1>2
<1>4. c \in 48..70 /\ IsXdigit(c) /\ HexValue(c) = h
  BY <1>3 DEF IsXdigit, IsDigit, HexValue
<1> QED
  BY <1>2, <1>4

(* A byte that is not escaped is no percent sign, and no slash unless that  *)
(* is asked for; an escape is one to Escaped.                              *)
LEMMA EncodedIs ==
  ASSUME NEW c \in 0..255, NEW skip_slash \in BOOLEAN
  PROVE  /\ Encoded(c, skip_slash) \in Seq(Allowed(skip_slash))
         /\ \/ /\ Len(Encoded(c, skip_slash)) = 3
               /\ Encoded(c, skip_slash)[1] = Percent
               /\ IsXdigit(Encoded(c, skip_slash)[2])
               /\ IsXdigit(Encoded(c, skip_slash)[3])
               /\ xdebug_htoi(Encoded(c, skip_slash)[2], Encoded(c, skip_slash)[3]) = c
            \/ /\ Len(Encoded(c, skip_slash)) = 1
               /\ Encoded(c, skip_slash)[1] = c
               /\ c # Percent
<1>1. PICK high, low : high = c \div 16 /\ low = c % 16
  OBVIOUS
<1>2. high \in 0..15 /\ low \in 0..15 /\ high * 16 + low = c
  BY <1>1
<1>3. PICK hc, lc : hc = hexchars[high + 1] /\ lc = hexchars[low + 1]
  OBVIOUS
<1>4. /\ hc \in 48..70 /\ IsXdigit(hc) /\ HexValue(hc) = high
      /\ lc \in 48..70 /\ IsXdigit(lc) /\ HexValue(lc) = low
  BY <1>2, <1>3, HexDigits
<1>5. CASE Escapes(c, skip_slash)
  <2>1. Encoded(c, skip_slash) = << Percent, hc, lc >>
    BY <1>1, <1>3, <1>5, Zenon DEF Encoded
  <2>2. {Percent, hc, lc} \subseteq Allowed(skip_slash)
    BY <1>4 DEF Allowed, Percent, Slash
  <2>3. xdebug_htoi(hc, lc) = c
    BY <1>2, <1>4 DEF xdebug_htoi
  <2>4. PICK w : w = << Percent, hc, lc >>
    OBVIOUS
  <2>5. Len(w) = 3 /\ w[1] = Percent /\ w[2] = hc /\ w[3] = lc
    BY <2>4
  <2>6. w \in Seq(Allowed(skip_slash))
    BY <2>2, <2>4
  <2> QED
    BY <1>4, <2>1, <2>3, <2>4, <2>5, <2>6, Zenon
<1>6. CASE ~ Escapes(c, skip_slash)
  <2>1. Encoded(c, skip_slash) = << c >>
    BY <1>6, Zenon DEF Encoded
  <2>2. c # Percent /\ c \in Allowed(skip_slash)
    BY <1>6 DEF Escapes, Percent, Slash, Allowed
  <2>3. << c >> \in Seq(Allowed(skip_slash)) /\ Len(<< c >>) = 1 /\ << c >>[1] = c
    BY <2>2
  <2> QED
    BY <2>1, <2>2, <2>3
<1> QED
  BY <1>5, <1>6

(* What is decoded from an encoded text, and how long that is. *)
LEMMA DecodesEncoded ==
  ASSUME NEW str \in Seq(0..255), NEW skip_slash \in BOOLEAN
  PROVE  LET encoded == xdebug_raw_url_encode(str, skip_slash)
         IN  /\ xdebug_raw_url_decode(encoded) = str
             /\ encoded \in Seq(Allowed(skip_slash))
             /\ Len(encoded) <= 3 * Len(str)
<1>1. PICK n, ss : n = Len(str) /\ ss = [i \in DOMAIN str |-> Encoded(str[i], skip_slash)]
  OBVIOUS
<1>2. PICK E : E = FlattenSeq(ss)
  OBVIOUS
<1>3. xdebug_raw_url_encode(str, skip_slash) = E
  BY <1>1, <1>2, Zenon DEF xdebug_raw_url_encode, Encoded
<1>4. n \in Nat /\ DOMAIN str = 1..n /\ \A i \in 1..n : str[i] \in 0..255
  BY <1>1
<1>5. \A i \in 1..n : ss[i] = Encoded(str[i], skip_slash)
  BY <1>1, <1>4, Zenon
<1>6. PICK S : S = Allowed(skip_slash)
  OBVIOUS
<1>7. \A i \in 1..n : /\ ss[i] \in Seq(S)
                      /\ \/ /\ Len(ss[i]) = 3 /\ ss[i][1] = Percent
                            /\ IsXdigit(ss[i][2]) /\ IsXdigit(ss[i][3])
                            /\ xdebug_htoi(ss[i][2], ss[i][3]) = str[i]
                         \/ Len(ss[i]) = 1 /\ ss[i][1] = str[i] /\ str[i] # Percent
  <2> SUFFICES ASSUME NEW i \in 1..n
               PROVE  /\ ss[i] \in Seq(S)
                      /\ \/ /\ Len(ss[i]) = 3 /\ ss[i][1] = Percent
                            /\ IsXdigit(ss[i][2]) /\ IsXdigit(ss[i][3])
                            /\ xdebug_htoi(ss[i][2], ss[i][3]) = str[i]
                         \/ Len(ss[i]) = 1 /\ ss[i][1] = str[i] /\ str[i] # Percent
    BY Zenon
  <2>1. PICK c, w : c = str[i] /\ w = ss[i]
    OBVIOUS
  <2>2. c \in 0..255 /\ w = Encoded(c, skip_slash)
    BY <1>4, <1>5, <2>1, Zenon
  <2>3. /\ Encoded(c, skip_slash) \in Seq(Allowed(skip_slash))
        /\ \/ /\ Len(Encoded(c, skip_slash)) = 3
              /\ Encoded(c, skip_slash)[1] = Percent
              /\ IsXdigit(Encoded(c, skip_slash)[2])
              /\ IsXdigit(Encoded(c, skip_slash)[3])
              /\ xdebug_htoi(Encoded(c, skip_slash)[2], Encoded(c, skip_slash)[3]) = c
           \/ /\ Len(Encoded(c, skip_slash)) = 1
              /\ Encoded(c, skip_slash)[1] = c
              /\ c # Percent
    BY <2>2, EncodedIs
  <2> QED
    BY <1>6, <2>1, <2>2, <2>3, Zenon
<1>8. ss \in Seq(Seq(S)) /\ Len(ss) = n
  <2>1. ss \in [1..n -> Seq(S)]
    BY <1>1, <1>4, <1>7
  <2> QED
    BY <1>4, <2>1
<1> HIDE <1>1, <1>2, <1>5, <1>6
<1>9. PICK rest : /\ Rests(rest, ss)
                  /\ \A i \in 1..(n + 1) : rest[i] \in Seq(S)
  <2>1. \E rest : /\ Rests(rest, ss)
                  /\ \A i \in 1..(Len(ss) + 1) : rest[i] \in Seq(S)
    BY <1>8, FlattenRests
  <2> QED
    BY <1>8, <2>1, Zenon
<1>10. E = rest[1] /\ E \in Seq(S)
  <2>1. 1 \in 1..(n + 1)
    BY <1>4
  <2> QED
    BY <1>2, <1>9, <2>1, Zenon DEF Rests
<1>11. PICK L : L = Len(E)
  OBVIOUS
<1>12. \A i \in 1..(n + 1) : Len(rest[i]) \in Nat
  BY <1>9
<1>13. \A i \in 1..n : Len(rest[i]) = Len(ss[i]) + Len(rest[i + 1])
  BY <1>8, <1>9, Zenon DEF Rests
<1>14. Len(rest[n + 1]) = 0
  BY <1>8, <1>9, Zenon DEF Rests
<1>15. \A i \in 1..(n + 1) : /\ Len(rest[i]) <= L
                             /\ \A k \in 1..Len(rest[i]) : E[L - Len(rest[i]) + k] = rest[i][k]
  <2>1. \A i \in 1..(Len(ss) + 1) : EndsIn(rest[i], rest[1])
    BY <1>8, <1>9, RestsEnd
  <2>2. \A i \in 1..(n + 1) : EndsIn(rest[i], E)
    BY <1>8, <1>10, <2>1, Zenon
  <2> QED
    BY <1>11, <2>2, Zenon DEF EndsIn
<1>16. ASSUME NEW i \in 1..n, NEW k \in 1..Len(ss[i])
       PROVE  /\ L - Len(rest[i]) + k \in 1..L
              /\ E[L - Len(rest[i]) + k] = ss[i][k]
  <2>1. i \in 1..(n + 1) /\ i + 1 \in 1..(n + 1)
    BY <1>4
  <2>2. PICK p, q, s : p = Len(rest[i]) /\ q = Len(rest[i + 1]) /\ s = Len(ss[i])
    OBVIOUS
  <2>3. p = s + q /\ p \in Nat /\ q \in Nat /\ s \in Nat /\ p <= L /\ L \in Nat /\ k \in 1..s
    <3>1. p = s + q
      BY <1>13, <2>2, Zenon
    <3>2. p \in Nat /\ q \in Nat
      BY <1>12, <2>1, <2>2, Zenon
    <3>3. s \in Nat
      BY <1>7, <2>2
    <3>4. p <= L
      BY <1>15, <2>1, <2>2, Zenon
    <3>5. L \in Nat
      BY <1>10, <1>11
    <3>6. k \in 1..s
      BY <2>2, Zenon
    <3> QED
      BY <3>1, <3>2, <3>3, <3>4, <3>5, <3>6, Zenon
  <2>4. k \in 1..p /\ L - p + k \in 1..L
    BY <2>3
  <2>5. E[L - p + k] = rest[i][k]
    BY <1>15, <2>1, <2>2, <2>4, Zenon
  <2>6. rest[i][k] = ss[i][k]
    BY <1>8, <1>9, Zenon DEF Rests
  <2> QED
    BY <2>2, <2>4, <2>5, <2>6, Zenon
<1>17. PICK decode : /\ xdebug_raw_url_decode(E) = decode[1]
                     /\ \A p \in 1..(L + 1) : decode[p] = Decoding(decode, E, p)
  <2>1. Len(E) \in Nat
    BY <1>10
  <2> QED
    <3>1. \E decode : /\ xdebug_raw_url_decode(E) = decode[1]
                      /\ \A p \in 1..(Len(E) + 1) : decode[p] = Decoding(decode, E, p)
      BY <2>1, Decodes
    <3> QED
      BY <1>11, <3>1, Zenon
<1>18. L \in Nat
  BY <1>10, <1>11
<1> DEFINE At(i) == L - Len(rest[i]) + 1
           Good == {i \in 1..(n + 1) : /\ decode[At(i)] = SubSeq(str, i, n)
                                       /\ Len(rest[i]) <= 3 * (n + 1 - i)}
<1>19. ASSUME NEW i \in 1..(n + 1), (i + 1)..(n + 1) \subseteq Good
       PROVE  i \in Good
  <2> HIDE DEF Good, At
  <2>1. CASE i = n + 1
    <3>1. At(i) = L + 1
      <4>1. Len(rest[i]) = 0
        BY <1>14, <2>1, Zenon
      <4>2. L - 0 + 1 = L + 1
        BY <1>18
      <4> QED
        BY <4>1, <4>2, Zenon DEF At
    <3>2. decode[L + 1] = << >>
      <4>1. L + 1 > Len(E) /\ L + 1 \in 1..(L + 1)
        BY <1>11, <1>18
      <4> QED
        BY <1>17, <4>1, Zenon DEF Decoding
    <3>3. SubSeq(str, i, n) = << >>
      BY <1>4, <2>1, SubSeqEmpty
    <3>4. Len(rest[i]) <= 3 * (n + 1 - i)
      BY <1>4, <1>14, <2>1
    <3> QED
      BY <3>1, <3>2, <3>3, <3>4, Zenon DEF Good
  <2>2. CASE i # n + 1
    <3>1. i \in 1..n /\ i + 1 \in 1..(n + 1) /\ i + 1 \in (i + 1)..(n + 1)
      BY <1>4, <2>2
    <3>2. decode[At(i + 1)] = SubSeq(str, i + 1, n) /\ Len(rest[i + 1]) <= 3 * (n + 1 - (i + 1))
      BY <1>19, <3>1, Zenon DEF Good
    <3>3. SubSeq(str, i, n) = << str[i] >> \o SubSeq(str, i + 1, n)
      <4>1. i \in 1..Len(str) /\ n \in i..Len(str)
        BY <1>1, <1>4, <3>1
      <4> QED
        BY <4>1, SubSeqRecursiveFirst
    <3>4. PICK p, q, s, r : p = At(i) /\ q = At(i + 1) /\ s = Len(ss[i]) /\ r = SubSeq(str, i + 1, n)
      OBVIOUS
    <3>5. q = p + s /\ p \in 1..(L + 1) /\ s \in {1, 3} /\ p \in Int
      <4>1. PICK u, v : u = Len(rest[i]) /\ v = Len(rest[i + 1])
        OBVIOUS
      <4>2. u = s + v /\ s \in {1, 3} /\ u \in Nat /\ v \in Nat /\ u <= L
        BY <1>7, <1>12, <1>13, <1>15, <3>1, <3>4, <4>1
      <4>3. p = L - u + 1 /\ q = L - v + 1
        BY <3>4, <4>1, Zenon DEF At
      <4> QED
        BY <1>18, <4>2, <4>3
    <3>6. \A k \in 1..s : p + k - 1 \in 1..L /\ E[p + k - 1] = ss[i][k]
      <4> SUFFICES ASSUME NEW k \in 1..s PROVE p + k - 1 \in 1..L /\ E[p + k - 1] = ss[i][k]
        OBVIOUS
      <4>1. L - Len(rest[i]) + k \in 1..L /\ E[L - Len(rest[i]) + k] = ss[i][k]
        BY <1>16, <3>1, <3>4, Zenon
      <4>2. PICK u : u = Len(rest[i])
        OBVIOUS
      <4>3. p = L - u + 1
        BY <3>4, <4>2, Zenon DEF At
      <4>4. u \in Nat
        BY <1>12, <3>1, <4>2
      <4>5. k \in Int
        OBVIOUS
      <4> HIDE <4>2
      <4>6. p + k - 1 = L - u + k
        BY <1>18, <4>3, <4>4, <4>5
      <4> QED
        BY <4>1, <4>2, <4>6, Zenon
    <3>7. p \in 1..L /\ E[p] = ss[i][1]
      <4>1. 1 \in 1..s /\ p + 1 - 1 = p
        BY <3>5
      <4> QED
        BY <3>6, <4>1, Zenon
    <3>8. decode[p] = Decoding(decode, E, p) /\ ~ (p > Len(E))
      BY <1>11, <1>17, <1>18, <3>5, <3>7
    <3>9. decode[q] = r
      BY <3>2, <3>4, Zenon
    <3>10. decode[p] = << str[i] >> \o r
      <4>1. CASE /\ s = 3 /\ ss[i][1] = Percent
                 /\ IsXdigit(ss[i][2]) /\ IsXdigit(ss[i][3])
                 /\ xdebug_htoi(ss[i][2], ss[i][3]) = str[i]
        <5>1. p + 1 = p + 2 - 1 /\ p + 2 = p + 3 - 1 /\ 2 \in 1..s /\ 3 \in 1..s /\ q = p + 3
          BY <3>5, <4>1
        <5>2. E[p + 1] = ss[i][2] /\ E[p + 2] = ss[i][3] /\ p + 2 \in 1..L
          BY <3>6, <5>1, Zenon
        <5>3. Len(E) - p >= 2
          BY <1>11, <1>18, <3>5, <5>2
        <5>4. Escaped(E, p)
          BY <3>7, <4>1, <5>2, <5>3, Zenon DEF Escaped
        <5> QED
          BY <3>8, <3>9, <4>1, <5>1, <5>2, <5>4, Zenon DEF Decoding
      <4>2. CASE s = 1 /\ ss[i][1] = str[i] /\ str[i] # Percent
        <5>1. ~ Escaped(E, p) /\ E[p] = str[i] /\ q = p + 1
          BY <3>5, <3>7, <4>2, Zenon DEF Escaped
        <5> QED
          BY <3>8, <3>9, <5>1, Zenon DEF Decoding
      <4> QED
        BY <1>7, <3>1, <3>4, <4>1, <4>2, Zenon
    <3>11. Len(rest[i]) <= 3 * (n + 1 - i)
      <4>1. PICK u, v : u = Len(rest[i]) /\ v = Len(rest[i + 1])
        OBVIOUS
      <4>2. u = s + v /\ v \in Nat
        BY <1>12, <1>13, <3>1, <3>4, <4>1
      <4>3. v <= 3 * (n + 1 - (i + 1))
        BY <3>2, <4>1, Zenon
      <4>4. s <= 3 /\ s \in Int
        BY <3>5
      <4> HIDE <4>1
      <4>5. u <= 3 * (n + 1 - i)
        BY <1>4, <3>1, <4>2, <4>3, <4>4
      <4> QED
        BY <4>1, <4>5, Zenon
    <3> QED
      BY <3>3, <3>4, <3>10, <3>11, Zenon DEF Good
  <2> QED
    BY <2>1, <2>2
<1> HIDE DEF Good
<1>20. 1 \in Good
  <2>1. 1 \in 1..(n + 1) /\ 1 \in Int /\ n + 1 \in Int
    BY <1>4
  <2>2. 1..(n + 1) \subseteq Good
    BY <1>19, <2>1, Backwards
  <2> QED
    BY <2>1, <2>2
<1>21. decode[At(1)] = SubSeq(str, 1, n) /\ Len(rest[1]) <= 3 * (n + 1 - 1)
  BY <1>20, Zenon DEF Good
<1>22. At(1) = 1
  BY <1>10, <1>11, <1>18
<1> HIDE DEF At
<1>23. SubSeq(str, 1, n) = str
  BY <1>1, SubSeqFull
<1>24. xdebug_raw_url_decode(E) = str
  BY <1>17, <1>21, <1>22, <1>23, Zenon
<1>25. Len(E) <= 3 * Len(str)
  <2>1. Len(E) = L /\ L <= 3 * (n + 1 - 1)
    BY <1>10, <1>11, <1>21, Zenon
  <2>2. n + 1 - 1 = n
    BY <1>4
  <2> QED
    BY <1>1, <2>1, <2>2, Zenon
<1>26. E \in Seq(Allowed(skip_slash))
  BY <1>6, <1>10, Zenon
<1> QED
  BY <1>3, <1>24, <1>25, <1>26, Zenon

ComesBack(str, len) ==
    \A skip_slash \in BOOLEAN :
        LET encoded == xdebug_raw_url_encode(str, skip_slash)
        IN  /\ xdebug_raw_url_decode(encoded) = str
            /\ Len(encoded) <= 3 * len
            /\ Slash \in ToSet(encoded) => skip_slash

(* Whatever the buffer comes to hold, decoding undoes encoding, and three   *)
(* bytes for each of the text's are enough (usefulstuff.c 193-259).        *)
THEOREM RoundTrip == Spec => []UrlRoundTrip
<1>1. IInv => UrlRoundTrip
  <2> SUFFICES ASSUME IInv PROVE UrlRoundTrip
    OBVIOUS
  <2>1. Content \in Seq(Chars) /\ Len(Content) = l
    BY ContentIsText
  <2>2. PICK str : str = Content
    OBVIOUS
  <2>3. str \in Seq(0..255) /\ Len(str) = l
    <3>1. Chars \in SUBSET (0..255)
      BY HelpersAssumption
    <3>2. str \in Seq(Chars)
      BY <2>1, <2>2, Zenon
    <3> HIDE <2>2
    <3>3. str \in Seq(0..255)
      BY <3>1, <3>2, SeqOfMore, Zenon
    <3>4. Len(str) = l
      BY <2>1, <2>2, Zenon
    <3> QED
      BY <3>3, <3>4
  <2> SUFFICES ComesBack(str, l)
    BY <2>2, Zenon DEF UrlRoundTrip, ComesBack
  <2> SUFFICES ASSUME NEW skip_slash \in BOOLEAN
               PROVE  LET encoded == xdebug_raw_url_encode(str, skip_slash)
                      IN  /\ xdebug_raw_url_decode(encoded) = str
                          /\ Len(encoded) <= 3 * l
                          /\ Slash \in ToSet(encoded) => skip_slash
    BY Zenon DEF ComesBack
  <2>4. PICK encoded : encoded = xdebug_raw_url_encode(str, skip_slash)
    OBVIOUS
  <2>5. /\ xdebug_raw_url_decode(encoded) = str
        /\ encoded \in Seq(Allowed(skip_slash))
        /\ Len(encoded) <= 3 * l
    BY <2>3, <2>4, DecodesEncoded, Zenon
  <2>6. Slash \in ToSet(encoded) => skip_slash
    <3> SUFFICES ASSUME NEW i \in DOMAIN encoded, encoded[i] = Slash PROVE skip_slash
      BY Zenon DEF ToSet
    <3>1. encoded[i] \in Allowed(skip_slash)
      BY <2>5
    <3> QED
      BY <3>1 DEF Allowed
  <2> QED
    BY <2>4, <2>5, <2>6, Zenon
<1> QED
  BY <1>1, Invariance, PTL

-----------------------------------------------------------------------------
(* xdebug_memnstr, at one place. *)
Scanning(scan, delim, str, p) ==
    IF p > end(str, Len(delim)) THEN NoMatch
    ELSE IF Matches(str, delim, p) THEN p ELSE scan[p + 1]

(* There is what scan is to be. *)
LEMMA ScanExists ==
  ASSUME NEW str, Len(str) \in Nat, NEW delim, Len(delim) \in Nat \ {0},
         NEW p1 \in 1..(Len(str) + 1)
  PROVE  \E scan : scan = [p \in p1..(Len(str) + 1) |-> Scanning(scan, delim, str, p)]
<1>1. PICK n : n = Len(str)
  OBVIOUS
<1>2. n \in Nat
  BY <1>1
<1> DEFINE From(g, m) == [p \in m..(n + 1) |-> Scanning(g, delim, str, p)]
           Good == {m \in p1..(n + 1) : \E g : g = From(g, m)}
<1>3. ASSUME NEW m \in p1..(n + 1), (m + 1)..(n + 1) \subseteq Good
      PROVE  m \in Good
  <2>1. \E g : \A i \in (m + 1)..(n + 1) : g[i] = Scanning(g, delim, str, i)
    <3>1. CASE m + 1 \in (m + 1)..(n + 1)
      <4>1. PICK g : g = From(g, m + 1)
        BY <1>3, <3>1
      <4>2. \A i \in (m + 1)..(n + 1) : g[i] = From(g, m + 1)[i]
        BY <4>1, Zenon
      <4> QED
        BY <4>2, Zenon
    <3>2. CASE m + 1 \notin (m + 1)..(n + 1)
      <4>1. (m + 1)..(n + 1) = {}
        BY <1>1, <1>2, <3>2
      <4> QED
        BY <4>1, Zenon
    <3> QED
      BY <3>1, <3>2
  <2>2. PICK g : \A i \in (m + 1)..(n + 1) : g[i] = Scanning(g, delim, str, i)
    BY <2>1
  <2>3. PICK h : h = [i \in m..(n + 1) |-> IF i = m THEN Scanning(g, delim, str, m) ELSE g[i]]
    OBVIOUS
  <2> HIDE DEF Good
  <2>4. \A j \in (m + 1)..(n + 1) : j \in m..(n + 1) /\ j # m
    BY <1>1, <1>2
  <2>5. \A j \in (m + 1)..(n + 1) : h[j] = g[j]
    BY <2>3, <2>4, Zenon
  <2>6. ASSUME NEW i \in m..(n + 1) PROVE h[i] = Scanning(h, delim, str, i)
    <3>1. Scanning(h, delim, str, i) = Scanning(g, delim, str, i)
      <4>1. CASE i > end(str, Len(delim))
        BY <4>1, Zenon DEF Scanning
      <4>2. CASE ~ (i > end(str, Len(delim)))
        <5>1. i + 1 \in (m + 1)..(n + 1)
          BY <1>1, <1>2, <4>2 DEF end
        <5>2. h[i + 1] = g[i + 1]
          BY <2>5, <5>1, Zenon
        <5> QED
          BY <5>2, Zenon DEF Scanning
      <4> QED
        BY <4>1, <4>2
    <3>2. h[i] = IF i = m THEN Scanning(g, delim, str, m) ELSE g[i]
      BY <2>3, Zenon
    <3>3. i = m \/ i \in (m + 1)..(n + 1)
      BY <1>1, <1>2
    <3> QED
      BY <2>2, <2>4, <3>1, <3>2, <3>3, Zenon
  <2>7. h = From(h, m)
    BY <2>3, <2>6, Zenon
  <2> QED
    BY <2>7, Zenon DEF Good
<1>4. p1..(n + 1) \subseteq Good
  <2> HIDE DEF Good
  <2>1. p1 \in Int /\ n + 1 \in Int
    BY <1>2
  <2> QED
    BY <1>3, <2>1, Backwards
<1>5. p1 \in Good
  <2> HIDE DEF Good
  <2>1. p1 \in p1..(n + 1)
    BY <1>1, <1>2
  <2> QED
    BY <1>4, <2>1
<1> QED
  BY <1>1, <1>5

(* What xdebug_memnstr finds. *)
FoundAt(r, delim, str, p1) ==
    \/ r = NoMatch /\ \A p \in p1..(Len(str) + 1) : ~ Matches(str, delim, p)
    \/ /\ r \in p1..Len(str) /\ Matches(str, delim, r)
       /\ \A p \in p1..(r - 1) : ~ Matches(str, delim, p)

(* It is the first place from p1 on that the delimiter is at, if any. *)
LEMMA MemnstrFinds ==
  ASSUME NEW str, Len(str) \in Nat, NEW delim, Len(delim) \in Nat \ {0},
         NEW p1 \in 1..(Len(str) + 1)
  PROVE  FoundAt(xdebug_memnstr(delim, str, p1), delim, str, p1)
<1> DEFINE Is(g) == g = [p \in p1..(Len(str) + 1) |-> Scanning(g, delim, str, p)]
<1>1. \E g : Is(g)
  BY ScanExists
<1> DEFINE scan == CHOOSE g : Is(g)
<1>2. xdebug_memnstr(delim, str, p1) = scan[p1]
  BY Zenon DEF xdebug_memnstr, Scanning
<1>3. Is(scan)
  <2> HIDE DEF Is
  <2> QED
    BY <1>1, Zenon
<1> HIDE DEF scan
<1>4. \A p \in p1..(Len(str) + 1) :
          scan[p] = [q \in p1..(Len(str) + 1) |-> Scanning(scan, delim, str, q)][p]
  BY <1>3, Zenon
<1>5. \A p \in p1..(Len(str) + 1) : scan[p] = Scanning(scan, delim, str, p)
  BY <1>4, Zenon
<1> HIDE <1>1, <1>3, <1>4
<1>6. PICK n, needle : n = Len(str) /\ needle = Len(delim)
  OBVIOUS
<1>7. n \in Nat /\ needle \in Nat \ {0} /\ p1 \in 1..(n + 1)
  BY <1>6
<1>8. \A p \in p1..(n + 1) : Matches(str, delim, p) => p <= n - needle + 1
  BY <1>6, <1>7 DEF Matches
<1> DEFINE Good == {p \in p1..(n + 1) : FoundAt(scan[p], delim, str, p)}
<1>9. ASSUME NEW p \in p1..(n + 1), (p + 1)..(n + 1) \subseteq Good PROVE p \in Good
  <2> HIDE DEF Good
  <2>1. scan[p] = IF p > n - needle + 1 THEN NoMatch
                  ELSE IF Matches(str, delim, p) THEN p ELSE scan[p + 1]
    BY <1>5, <1>6, Zenon DEF Scanning, end
  <2>2. CASE p > n - needle + 1
    <3>1. \A q \in p..(n + 1) : q \in p1..(n + 1) /\ ~ (q <= n - needle + 1)
      BY <1>7, <2>2
    <3>2. \A q \in p..(n + 1) : ~ Matches(str, delim, q)
      BY <1>8, <3>1, Zenon
    <3>3. FoundAt(scan[p], delim, str, p)
      BY <1>6, <2>1, <2>2, <3>2, Zenon DEF FoundAt
    <3> QED
      BY <3>3, Zenon DEF Good
  <2>3. CASE ~ (p > n - needle + 1) /\ Matches(str, delim, p)
    <3>1. p \in p..n /\ p..(p - 1) = {}
      BY <1>7, <2>3
    <3>2. FoundAt(scan[p], delim, str, p)
      BY <1>6, <2>1, <2>3, <3>1, Zenon DEF FoundAt
    <3> QED
      BY <3>2, Zenon DEF Good
  <2>4. CASE ~ (p > n - needle + 1) /\ ~ Matches(str, delim, p)
    <3>1. p + 1 \in (p + 1)..(n + 1)
      BY <1>7, <2>4
    <3>2. FoundAt(scan[p + 1], delim, str, p + 1) /\ scan[p] = scan[p + 1]
      BY <1>9, <2>1, <2>4, <3>1, Zenon DEF Good
    <3>3. PICK r : r = scan[p]
      OBVIOUS
    <3>4. FoundAt(r, delim, str, p)
      <4>1. CASE r = NoMatch /\ \A q \in (p + 1)..(n + 1) : ~ Matches(str, delim, q)
        <5>1. \A q \in p..(n + 1) : q = p \/ q \in (p + 1)..(n + 1)
          BY <1>7
        <5> QED
          BY <1>6, <2>4, <4>1, <5>1, Zenon DEF FoundAt
      <4>2. CASE /\ r \in (p + 1)..n /\ Matches(str, delim, r)
                 /\ \A q \in (p + 1)..(r - 1) : ~ Matches(str, delim, q)
        <5>1. r \in p..n /\ \A q \in p..(r - 1) : q = p \/ q \in (p + 1)..(r - 1)
          BY <1>7, <4>2
        <5> QED
          BY <1>6, <2>4, <4>2, <5>1, Zenon DEF FoundAt
      <4> QED
        BY <1>6, <3>2, <3>3, <4>1, <4>2, Zenon DEF FoundAt
    <3> QED
      BY <3>3, <3>4, Zenon DEF Good
  <2> QED
    BY <2>2, <2>3, <2>4
<1>10. p1 \in Good
  <2> HIDE DEF Good
  <2>1. p1 \in p1..(n + 1) /\ p1 \in Int /\ n + 1 \in Int
    BY <1>7
  <2>2. p1..(n + 1) \subseteq Good
    BY <1>9, <2>1, Backwards
  <2> QED
    BY <2>1, <2>2
<1> QED
  BY <1>2, <1>10, Zenon DEF Good

-----------------------------------------------------------------------------
(* xdebug_explode, at one place, when so many pieces are cut off. *)
Exploding(pieces, delim, str, limit, p1, cut) ==
    LET p2 == xdebug_memnstr(delim, str, p1)
    IN  IF p2 # NoMatch /\ (cut = 0 \/ limit = -1 \/ limit - cut > 1)
        THEN << SubSeq(str, p1, p2 - 1) >> \o pieces[p2 + Len(delim)][cut + 1]
        ELSE << SubSeq(str, p1, Len(str)) >>

(* After a delimiter comes a later place of the text. *)
LEMMA BehindDelimiter ==
  ASSUME NEW str, Len(str) \in Nat, NEW delim, Len(delim) \in Nat \ {0},
         NEW p1 \in 1..(Len(str) + 1), NEW p2, p2 = xdebug_memnstr(delim, str, p1),
         p2 # NoMatch
  PROVE  /\ p2 \in p1..Len(str) /\ Matches(str, delim, p2)
         /\ \A p \in p1..(p2 - 1) : ~ Matches(str, delim, p)
         /\ p2 + Len(delim) \in (p1 + 1)..(Len(str) + 1)
<1>1. FoundAt(p2, delim, str, p1)
  BY MemnstrFinds
<1>2. /\ p2 \in p1..Len(str) /\ Matches(str, delim, p2)
      /\ \A p \in p1..(p2 - 1) : ~ Matches(str, delim, p)
  BY <1>1, Zenon DEF FoundAt
<1>3. p2 + Len(delim) - 1 <= Len(str)
  BY <1>2, Zenon DEF Matches
<1>4. p2 + Len(delim) \in (p1 + 1)..(Len(str) + 1)
  BY <1>2, <1>3
<1> QED
  BY <1>2, <1>4, Zenon

Exploded(pieces, delim, str, limit) ==
    pieces = [p1 \in 1..(Len(str) + 1) |->
                 [cut \in Nat |-> Exploding(pieces, delim, str, limit, p1, cut)]]

(* There is what pieces is to be. *)
LEMMA PiecesExist ==
  ASSUME NEW str, Len(str) \in Nat, NEW delim, Len(delim) \in Nat \ {0}, NEW limit
  PROVE  \E pieces : Exploded(pieces, delim, str, limit)
<1>1. PICK n : n = Len(str)
  OBVIOUS
<1>2. n \in Nat
  BY <1>1
<1> DEFINE Row(g, p) == [cut \in Nat |-> Exploding(g, delim, str, limit, p, cut)]
           From(g, m) == [p \in m..(n + 1) |-> Row(g, p)]
           Good == {m \in 1..(n + 1) : \E g : g = From(g, m)}
<1>3. ASSUME NEW m \in 1..(n + 1), (m + 1)..(n + 1) \subseteq Good
      PROVE  m \in Good
  <2> HIDE DEF Row
  <2>1. \E g : \A i \in (m + 1)..(n + 1) : g[i] = Row(g, i)
    <3>1. CASE m + 1 \in (m + 1)..(n + 1)
      <4>1. PICK g : g = From(g, m + 1)
        BY <1>3, <3>1
      <4>2. \A i \in (m + 1)..(n + 1) : g[i] = From(g, m + 1)[i]
        BY <4>1, Zenon
      <4> QED
        BY <4>2, Zenon
    <3>2. CASE m + 1 \notin (m + 1)..(n + 1)
      <4>1. (m + 1)..(n + 1) = {}
        BY <1>1, <1>2, <3>2
      <4> QED
        BY <4>1, Zenon
    <3> QED
      BY <3>1, <3>2
  <2>2. PICK g : \A i \in (m + 1)..(n + 1) : g[i] = Row(g, i)
    BY <2>1
  <2>3. PICK h : h = [i \in m..(n + 1) |-> IF i = m THEN Row(g, m) ELSE g[i]]
    OBVIOUS
  <2> HIDE DEF Good
  <2>4. \A j \in (m + 1)..(n + 1) : j \in m..(n + 1) /\ j # m
    BY <1>1, <1>2
  <2>5. \A j \in (m + 1)..(n + 1) : h[j] = g[j]
    BY <2>3, <2>4, Zenon
  <2>6. ASSUME NEW i \in m..(n + 1) PROVE h[i] = Row(h, i)
    <3>1. Row(h, i) = Row(g, i)
      <4>1. ASSUME NEW cut \in Nat
            PROVE  Exploding(h, delim, str, limit, i, cut) = Exploding(g, delim, str, limit, i, cut)
        <5>1. PICK p2 : p2 = xdebug_memnstr(delim, str, i)
          OBVIOUS
        <5>2. CASE p2 = NoMatch
          BY <5>1, <5>2, Zenon DEF Exploding
        <5>3. CASE p2 # NoMatch
          <6>1. i \in 1..(Len(str) + 1)
            BY <1>1, <1>2
          <6>2. p2 + Len(delim) \in (i + 1)..(Len(str) + 1)
            BY <5>1, <5>3, <6>1, BehindDelimiter
          <6>3. p2 + Len(delim) \in (m + 1)..(n + 1)
            BY <1>1, <1>2, <6>2
          <6>4. h[p2 + Len(delim)] = g[p2 + Len(delim)]
            BY <2>5, <6>3, Zenon
          <6> QED
            BY <5>1, <6>4, Zenon DEF Exploding
        <5> QED
          BY <5>2, <5>3
      <4> QED
        BY <4>1, Zenon DEF Row
    <3>2. h[i] = IF i = m THEN Row(g, m) ELSE g[i]
      BY <2>3, Zenon
    <3>3. i = m \/ i \in (m + 1)..(n + 1)
      BY <1>1, <1>2
    <3> QED
      BY <2>2, <2>4, <3>1, <3>2, <3>3, Zenon
  <2>7. h = From(h, m)
    BY <2>3, <2>6, Zenon
  <2> QED
    BY <2>7, Zenon DEF Good
<1>4. 1..(n + 1) \subseteq Good
  <2> HIDE DEF Good
  <2>1. 1 \in Int /\ n + 1 \in Int
    BY <1>2
  <2> QED
    BY <1>3, <2>1, Backwards
<1>5. 1 \in Good
  <2> HIDE DEF Good
  <2>1. 1 \in 1..(n + 1)
    BY <1>2
  <2> QED
    BY <1>4, <2>1
<1>6. PICK g : g = From(g, 1)
  BY <1>5
<1>7. Exploded(g, delim, str, limit)
  BY <1>1, <1>6, Zenon DEF Exploded
<1> QED
  BY <1>7, Zenon

(* And so xdebug_explode is what it gives for the first place. *)
LEMMA Explodes ==
  ASSUME NEW str, Len(str) \in Nat, NEW delim, Len(delim) \in Nat \ {0}, NEW limit
  PROVE  \E pieces :
            /\ xdebug_explode(delim, str, limit) = pieces[1][0]
            /\ \A p1 \in 1..(Len(str) + 1) : \A cut \in Nat :
                  pieces[p1][cut] = Exploding(pieces, delim, str, limit, p1, cut)
<1>1. \E g : Exploded(g, delim, str, limit)
  BY PiecesExist, Zenon
<1> DEFINE pieces == CHOOSE g : Exploded(g, delim, str, limit)
<1>2. xdebug_explode(delim, str, limit) = pieces[1][0]
  BY Zenon DEF xdebug_explode, Exploded, Exploding
<1>3. Exploded(pieces, delim, str, limit)
  BY <1>1, Zenon
<1> HIDE DEF pieces
<1>4. \A p1 \in 1..(Len(str) + 1) :
          pieces[p1] = [q \in 1..(Len(str) + 1) |->
                          [cut \in Nat |-> Exploding(pieces, delim, str, limit, q, cut)]][p1]
  BY <1>3, Zenon DEF Exploded
<1>5. \A p1 \in 1..(Len(str) + 1) :
          pieces[p1] = [cut \in Nat |-> Exploding(pieces, delim, str, limit, p1, cut)]
  BY <1>4, Zenon
<1>6. \A p1 \in 1..(Len(str) + 1) : \A cut \in Nat :
          pieces[p1][cut] = Exploding(pieces, delim, str, limit, p1, cut)
  BY <1>5, Zenon
<1> QED
  BY <1>2, <1>6, Zenon
-----------------------------------------------------------------------------
(* The pieces put together again. *)
Joined(delim, pieces) ==
    FlattenSeq([i \in 1..(Len(pieces) - 1) |-> pieces[i] \o delim]) \o pieces[Len(pieces)]

(* This is xdebug_join, asked for all the pieces. *)
LEMMA JoinOfAll ==
  ASSUME NEW S, NEW pieces \in Seq(S), Len(pieces) > 0, NEW delim
  PROVE  xdebug_join(delim, pieces, 0, Len(pieces)) = Joined(delim, pieces)
<1>1. PICK n : n = Len(pieces)
  OBVIOUS
<1>2. n \in Nat /\ ~ (0 < 0) /\ n > n - 1 /\ (n - 1) - 0 = n - 1 /\ (n - 1) + 1 = n
  BY <1>1
<1>3. \A i \in 1..(n - 1) : 0 + i = i
  BY <1>2
<1>4. [i \in 1..(n - 1) |-> pieces[0 + i] \o delim] = [i \in 1..(n - 1) |-> pieces[i] \o delim]
  BY <1>3, Zenon
<1>5. xdebug_join(delim, pieces, 0, n) =
        FlattenSeq([i \in 1..(n - 1) |-> pieces[0 + i] \o delim]) \o pieces[n]
  BY <1>1, <1>2, Zenon DEF xdebug_join
<1> QED
  BY <1>1, <1>4, <1>5, Zenon DEF Joined

(* One more piece comes out in front, with a delimiter behind it. *)
LEMMA JoinedInFront ==
  ASSUME NEW S, NEW delim \in Seq(S), NEW s \in Seq(S),
         NEW pieces \in Seq(Seq(S)), Len(pieces) > 0
  PROVE  Joined(delim, << s >> \o pieces) = (s \o delim) \o Joined(delim, pieces)
<1>1. PICK n, tt : n = Len(pieces) /\ tt = << s >> \o pieces
  OBVIOUS
<1>2. n \in Nat /\ n > 0
  BY <1>1
<1>3. /\ tt \in Seq(Seq(S)) /\ Len(tt) = n + 1
      /\ tt[1] = s /\ \A i \in 1..n : tt[i + 1] = pieces[i]
  <2>1. s \in Seq(S)
    OBVIOUS
  <2> QED
    BY <1>1, <2>1, InFront
<1>4. PICK before : before = [i \in 1..(n - 1) |-> pieces[i] \o delim]
  OBVIOUS
<1>5. \A i \in 1..n : pieces[i] \in Seq(S)
  BY <1>1
<1>6. before \in Seq(Seq(S)) /\ Len(before) = n - 1
  <2>1. ASSUME NEW i \in 1..(n - 1) PROVE pieces[i] \o delim \in Seq(S)
    <3>1. PICK u : u = pieces[i]
      OBVIOUS
    <3>2. u \in Seq(S)
      BY <1>2, <1>5, <3>1
    <3>3. u \o delim \in Seq(S)
      BY <3>2, ConcatProperties
    <3> QED
      BY <3>1, <3>3, Zenon
  <2>2. before \in [1..(n - 1) -> Seq(S)]
    BY <1>4, <2>1, Zenon
  <2>3. PICK m : m = n - 1
    OBVIOUS
  <2>4. m \in Nat /\ before \in [1..m -> Seq(S)]
    BY <1>2, <2>2, <2>3
  <2>5. before \in Seq(Seq(S)) /\ Len(before) = m
    BY <2>4, SeqOfFunction, Zenon
  <2> QED
    BY <2>3, <2>5, Zenon
<1>7. PICK sd : sd = s \o delim
  OBVIOUS
<1>8. sd \in Seq(S)
  BY <1>7, ConcatProperties
<1>9. PICK w : w = << sd >> \o before
  OBVIOUS
<1>10. /\ w \in Seq(Seq(S)) /\ Len(w) = n
       /\ w[1] = sd /\ \A i \in 1..(n - 1) : w[i + 1] = before[i]
  <2>1. /\ w \in Seq(Seq(S)) /\ Len(w) = Len(before) + 1
        /\ w[1] = sd /\ \A i \in 1..Len(before) : w[i + 1] = before[i]
    BY <1>6, <1>8, <1>9, InFront
  <2>2. (n - 1) + 1 = n
    BY <1>2
  <2> QED
    BY <1>6, <2>1, <2>2, Zenon
<1>11. w = [i \in 1..n |-> tt[i] \o delim]
  <2>1. ASSUME NEW i \in 1..n PROVE w[i] = tt[i] \o delim
    <3>1. CASE i = 1
      BY <1>3, <1>7, <1>10, <3>1, Zenon
    <3>2. CASE i # 1
      <4>1. PICK j : j = i - 1
        OBVIOUS
      <4>2. j \in 1..(n - 1) /\ j \in 1..n /\ j + 1 = i
        BY <1>2, <3>2, <4>1
      <4>3. w[j + 1] = before[j] /\ tt[j + 1] = pieces[j]
        BY <1>3, <1>10, <4>2, Zenon
      <4>4. before[j] = pieces[j] \o delim
        BY <1>4, <4>2, Zenon
      <4> QED
        BY <4>2, <4>3, <4>4, Zenon
    <3> QED
      BY <3>1, <3>2
  <2>2. w = [i \in 1..n |-> w[i]]
    BY <1>10
  <2> QED
    BY <2>1, <2>2, Zenon
<1>12. (n + 1) - 1 = n /\ n \in 1..n /\ Len(tt) = n + 1
  BY <1>2, <1>3
<1>13. Joined(delim, tt) = FlattenSeq(w) \o pieces[n]
  BY <1>3, <1>11, <1>12, Zenon DEF Joined
<1>14. FlattenSeq(w) = sd \o FlattenSeq(before) /\ FlattenSeq(before) \in Seq(S)
  BY <1>6, <1>8, <1>9, FlattenCons
<1>15. PICK f, u : f = FlattenSeq(before) /\ u = pieces[n]
  OBVIOUS
<1>16. f \in Seq(S) /\ u \in Seq(S)
  BY <1>5, <1>12, <1>14, <1>15, Zenon
<1>17. PICK sf, fu : sf = sd \o f /\ fu = f \o u
  OBVIOUS
<1>18. sf \o u = sd \o fu
  <2>1. Associates(sd, f, u)
    BY <1>8, <1>16, Associative, Zenon
  <2> QED
    BY <1>17, <2>1, Zenon DEF Associates
<1>19. Joined(delim, pieces) = fu
  BY <1>1, <1>4, <1>15, <1>17, Zenon DEF Joined
<1>20. Joined(delim, tt) = sf \o u
  BY <1>13, <1>14, <1>15, <1>17, Zenon
<1> QED
  BY <1>1, <1>7, <1>18, <1>19, <1>20, Zenon

(* One piece is the text itself. *)
LEMMA JoinedOne ==
  ASSUME NEW S, NEW s \in Seq(S), NEW delim
  PROVE  Joined(delim, << s >>) = s
<1>1. PICK w : w = << s >>
  OBVIOUS
<1>2. Len(w) = 1 /\ w[1] = s
  BY <1>1
<1>3. PICK before : before = [i \in 1..(1 - 1) |-> w[i] \o delim]
  OBVIOUS
<1>4. before = << >>
  <2>1. 1..(1 - 1) = {}
    OBVIOUS
  <2>2. before = [i \in {} |-> w[i] \o delim]
    BY <1>3, <2>1, Zenon
  <2> QED
    BY <2>2
<1>5. FlattenSeq(before) = << >>
  <2>1. Len(<< >>) = 0
    OBVIOUS
  <2> QED
    BY <1>4, <2>1, Zenon DEF FlattenSeq
<1>6. << >> \o s = s
  BY ConcatEmptySeq
<1> QED
  BY <1>1, <1>2, <1>3, <1>5, <1>6, Zenon DEF Joined

-----------------------------------------------------------------------------
(* What xdebug_explode makes of a text, or of what is left of it, when it  *)
(* may, if it is bounded, make so many pieces.                             *)
Splits(pieces, delim, text, bounded, bound) ==
    /\ Len(pieces) > 0
    /\ Joined(delim, pieces) = text
    /\ \A i \in 1..(Len(pieces) - 1) : ~ Has(pieces[i], delim)
    /\ ~ Has(pieces[Len(pieces)], delim) \/ (bounded /\ Len(pieces) = bound)
    /\ bounded => Len(pieces) <= bound

(* The last piece. *)
LEMMA SplitsOnce ==
  ASSUME NEW S, NEW text \in Seq(S), NEW delim, NEW bounded \in BOOLEAN, NEW bound \in Nat \ {0},
         ~ Has(text, delim) \/ (bounded /\ bound = 1)
  PROVE  Splits(<< text >>, delim, text, bounded, bound)
<1>1. PICK w : w = << text >>
  OBVIOUS
<1>2. Len(w) = 1 /\ w[1] = text /\ 1 > 0 /\ 1..(1 - 1) = {} /\ 1 <= bound
  BY <1>1
<1>3. Joined(delim, << text >>) = text
  BY JoinedOne
<1>4. Joined(delim, w) = text
  BY <1>1, <1>3, Zenon
<1>5. Splits(w, delim, text, bounded, bound)
  BY <1>2, <1>4, Zenon DEF Splits
<1> QED
  BY <1>1, <1>5, Zenon

PutsInFront(w, s, pieces) == w = << s >> \o pieces
CutsOff(text, s, delim, rest) == text = (s \o delim) \o rest

(* A piece in front of those of the rest. *)
LEMMA SplitsAgain ==
  ASSUME NEW S, NEW s \in Seq(S), NEW delim \in Seq(S), NEW rest, NEW text,
         CutsOff(text, s, delim, rest),
         NEW pieces \in Seq(Seq(S)), NEW bounded \in BOOLEAN,
         NEW less \in Nat, NEW bound \in Nat, bounded => bound = less + 1,
         Splits(pieces, delim, rest, bounded, less), ~ Has(s, delim),
         NEW w, PutsInFront(w, s, pieces)
  PROVE  w \in Seq(Seq(S)) /\ Splits(w, delim, text, bounded, bound)
<1>1. PICK n : n = Len(pieces) /\ w = << s >> \o pieces
  BY DEF PutsInFront
<1>2. n \in Nat /\ n > 0
  BY <1>1 DEF Splits
<1>3. w \in Seq(Seq(S)) /\ Len(w) = n + 1 /\ w[1] = s /\ \A i \in 1..n : w[i + 1] = pieces[i]
  <2>1. s \in Seq(S) /\ pieces \in Seq(Seq(S))
    OBVIOUS
  <2> QED
    BY <1>1, <2>1, InFront
<1>4. Joined(delim, w) = (s \o delim) \o Joined(delim, pieces)
  <2>1. Len(pieces) > 0
    BY <1>1, <1>2
  <2>2. Joined(delim, << s >> \o pieces) = (s \o delim) \o Joined(delim, pieces)
    BY <2>1, JoinedInFront
  <2> QED
    BY <1>1, <2>2, Zenon
<1>5. Joined(delim, w) = text
  BY <1>4, Zenon DEF Splits, CutsOff
<1>6. ASSUME NEW i \in 1..n PROVE ~ Has(w[i], delim)
  <2>1. CASE i = 1
    BY <1>3, <2>1, Zenon
  <2>2. CASE i # 1
    <3>1. PICK j : j = i - 1
      OBVIOUS
    <3>2. j \in 1..(n - 1) /\ j \in 1..n /\ j + 1 = i
      BY <1>2, <2>2, <3>1
    <3>3. w[j + 1] = pieces[j]
      BY <1>3, <3>2, Zenon
    <3> QED
      BY <1>1, <3>2, <3>3, Zenon DEF Splits
  <2> QED
    BY <2>1, <2>2
<1>7. w[n + 1] = pieces[n] /\ (n + 1) - 1 = n /\ n + 1 > 0
  BY <1>2, <1>3
<1>8. bounded => (n + 1 = bound <=> n = less) /\ (n <= less => n + 1 <= bound)
  BY <1>2
<1>9. ~ Has(pieces[n], delim) \/ (bounded /\ n = less)
  BY <1>1, Zenon DEF Splits
<1>10. bounded => n <= less
  BY <1>1, Zenon DEF Splits
<1>11. Splits(w, delim, text, bounded, bound)
  BY <1>3, <1>5, <1>6, <1>7, <1>8, <1>9, <1>10, Zenon DEF Splits
<1> QED
  BY <1>3, <1>11, Zenon

Inside(n, needle, p, q, i, j, k, e) ==
    /\ p \in 1..n /\ q \in 1..n /\ j \in 1..(q - p + 1)
    /\ k \in p..q /\ k \in 1..n /\ e <= n
    /\ j - i + 1 = needle /\ e - k + 1 = needle /\ i <= j /\ k <= e
    /\ i \in Int /\ j \in Int /\ k \in Int /\ e \in Int
    /\ \A x \in i..j : x \in 1..(q - p + 1)
    /\ \A x \in k..e : x \in 1..n
    /\ \A x \in 1..needle :
          i + x - 1 \in 1..(q - p + 1) /\ p + (i + x - 1) - 1 = k + x - 1

(* Places within a part, and where they are in the text. *)
LEMMA Within ==
  ASSUME NEW n \in Nat, NEW needle \in Nat \ {0}, NEW p \in 1..(n + 1), NEW q \in (p - 1)..n,
         NEW i \in 1..(q - p + 1), i + needle - 1 <= q - p + 1,
         NEW j, NEW k, NEW e, j = i + needle - 1, k = p + i - 1, e = k + needle - 1
  PROVE  Inside(n, needle, p, q, i, j, k, e)
  BY DEF Inside

(* A delimiter within a part of a text is one of the text. *)
LEMMA HasNone ==
  ASSUME NEW S, NEW str \in Seq(S), NEW delim, Len(delim) \in Nat \ {0},
         NEW p \in 1..(Len(str) + 1), NEW q \in (p - 1)..Len(str),
         \A k \in p..q : ~ Matches(str, delim, k)
  PROVE  ~ Has(SubSeq(str, p, q), delim)
<1>1. PICK n, needle, w : n = Len(str) /\ needle = Len(delim) /\ w = SubSeq(str, p, q)
  OBVIOUS
<1>2. n \in Nat /\ needle \in Nat \ {0} /\ p \in 1..(n + 1) /\ q \in (p - 1)..n
  BY <1>1
<1>3. w \in Seq(S) /\ Len(w) = q - p + 1
  <2>1. p \in Int /\ q \in Int /\ \A i \in p..q : str[i] \in S
    BY <1>1, <1>2
  <2>2. SubSeq(str, p, q) \in Seq(S) /\ Len(SubSeq(str, p, q)) = IF p <= q THEN q - p + 1 ELSE 0
    BY <2>1, SubSeqProperties
  <2>3. (IF p <= q THEN q - p + 1 ELSE 0) = q - p + 1
    BY <1>2
  <2> QED
    BY <1>1, <2>2, <2>3, Zenon
<1> SUFFICES ASSUME NEW i \in DOMAIN w, Matches(w, delim, i) PROVE FALSE
  BY <1>1, Zenon DEF Has
<1>4. i \in 1..(q - p + 1)
  BY <1>3
<1>5. i + needle - 1 <= q - p + 1 /\ SubSeq(w, i, i + needle - 1) = delim
  BY <1>1, <1>3, Zenon DEF Matches
<1>6. PICK j, k, e : j = i + needle - 1 /\ k = p + i - 1 /\ e = k + needle - 1
  OBVIOUS
<1>7. Inside(n, needle, p, q, i, j, k, e)
  BY <1>2, <1>4, <1>5, <1>6, Within, Zenon
<1>8. SubSeq(w, i, j) = SubSeq(str, k, e)
  <2>1. PICK u, v : u = SubSeq(w, i, j) /\ v = SubSeq(str, k, e)
    OBVIOUS
  <2>2. i \in Int /\ j \in Int /\ k \in Int /\ e \in Int
    BY <1>7, Zenon DEF Inside
  <2>3. (\A x \in i..j : w[x] \in S) /\ (\A x \in k..e : str[x] \in S)
    <3>1. (\A x \in i..j : x \in 1..(q - p + 1)) /\ (\A x \in k..e : x \in 1..n)
      BY <1>7, Zenon DEF Inside
    <3> QED
      BY <1>1, <1>3, <3>1
  <2>4. /\ u \in Seq(S) /\ Len(u) = IF i <= j THEN j - i + 1 ELSE 0
        /\ \A x \in 1..(j - i + 1) : u[x] = w[i + x - 1]
    BY <2>1, <2>2, <2>3, SubSeqProperties
  <2>5. /\ v \in Seq(S) /\ Len(v) = IF k <= e THEN e - k + 1 ELSE 0
        /\ \A x \in 1..(e - k + 1) : v[x] = str[k + x - 1]
    BY <2>1, <2>2, <2>3, SubSeqProperties
  <2>7. Len(u) = needle /\ Len(v) = needle
    BY <1>7, <2>4, <2>5, Zenon DEF Inside
  <2>8. ASSUME NEW x \in 1..needle PROVE u[x] = v[x]
    <3>1. u[x] = w[i + x - 1] /\ v[x] = str[k + x - 1]
      BY <1>7, <2>4, <2>5, Zenon DEF Inside
    <3>2. i + x - 1 \in 1..(q - p + 1) /\ p + (i + x - 1) - 1 = k + x - 1
      BY <1>7, Zenon DEF Inside
    <3>3. w[i + x - 1] = str[p + (i + x - 1) - 1]
      <4>1. \A y \in p..q : str[y] \in S
        BY <1>1, <1>2
      <4>2. \A y \in 1..(q - p + 1) : SubSeq(str, p, q)[y] = str[p + y - 1]
        BY <1>2, <4>1, SubSeqProperties
      <4> QED
        BY <1>1, <3>2, <4>2, Zenon
    <3> QED
      BY <3>1, <3>2, <3>3, Zenon
  <2>9. u = v
    BY <2>4, <2>5, <2>7, <2>8, SeqEqual
  <2> QED
    BY <2>1, <2>9, Zenon
<1>9. SubSeq(str, k, e) = delim
  BY <1>5, <1>6, <1>8, Zenon
<1>10. Matches(str, delim, k)
  BY <1>1, <1>6, <1>7, <1>9, Zenon DEF Matches, Inside
<1> QED
  BY <1>7, <1>10, Zenon DEF Inside

(* The text up to a delimiter, the delimiter, and what is behind it. *)
LEMMA CutInThree ==
  ASSUME NEW S, NEW str \in Seq(S), NEW delim, Len(delim) \in Nat \ {0},
         NEW p1 \in 1..(Len(str) + 1), NEW p2 \in p1..Len(str), Matches(str, delim, p2)
  PROVE  SubSeq(str, p1, Len(str)) =
            (SubSeq(str, p1, p2 - 1) \o delim) \o SubSeq(str, p2 + Len(delim), Len(str))
<1>1. PICK n, needle, e : n = Len(str) /\ needle = Len(delim) /\ e = p2 + needle - 1
  OBVIOUS
<1>2. n \in Nat /\ needle \in Nat \ {0} /\ p1 \in 1..(n + 1) /\ p2 \in p1..n
  BY <1>1
<1>3. e <= n /\ SubSeq(str, p2, e) = delim
  BY <1>1, Zenon DEF Matches
<1>4. e \in p2..n /\ p2 - 1 \in (p1 - 1)..n /\ e \in (p2 - 1)..n /\ (p2 - 1) + 1 = p2
      /\ e \in (p1 - 1)..n /\ n \in e..n /\ e + 1 = p2 + needle
  BY <1>1, <1>2, <1>3
<1>5. SubSeq(str, p1, p2 - 1) \o SubSeq(str, (p2 - 1) + 1, e) = SubSeq(str, p1, e)
  <2>1. /\ p1 \in 1..(Len(str) + 1) /\ p2 - 1 \in (p1 - 1)..Len(str)
        /\ e \in (p2 - 1)..Len(str)
    BY <1>1, <1>4
  <2> QED
    BY <2>1, ConcatAdjacentSubSeq
<1>6. SubSeq(str, p1, e) \o SubSeq(str, e + 1, n) = SubSeq(str, p1, n)
  <2>1. /\ p1 \in 1..(Len(str) + 1) /\ e \in (p1 - 1)..Len(str) /\ n \in e..Len(str)
    BY <1>1, <1>4
  <2> QED
    BY <2>1, ConcatAdjacentSubSeq
<1>7. SubSeq(str, p1, p2 - 1) \o delim = SubSeq(str, p1, e)
  BY <1>3, <1>4, <1>5, Zenon
<1> QED
  BY <1>1, <1>4, <1>6, <1>7, Zenon
-----------------------------------------------------------------------------
(* How many pieces there may be once so many are cut off. *)
Bound(limit, cut) ==
    LET most == IF limit < 2 THEN 2 ELSE limit
    IN  IF cut < most THEN most - cut ELSE 1

(* It goes down with each that is cut off, and one is always left. *)
LEMMA BoundIs ==
  ASSUME NEW limit \in Int, NEW cut \in Nat
  PROVE  /\ Bound(limit, cut) \in Nat \ {0}
         /\ limit # -1 /\ (cut = 0 \/ limit - cut > 1) =>
               Bound(limit, cut) = Bound(limit, cut + 1) + 1
         /\ limit # -1 /\ ~ (cut = 0 \/ limit - cut > 1) => Bound(limit, cut) = 1
  BY DEF Bound

(* From the end of the text to its beginning, whatever is cut off before. *)
LEMMA ExplodeSplits ==
  ASSUME NEW S, NEW str \in Seq(S), NEW delim \in Seq(S), Len(delim) > 0, NEW limit \in Int
  PROVE  LET pieces == xdebug_explode(delim, str, limit)
         IN  /\ pieces \in Seq(Seq(S))
             /\ Splits(pieces, delim, str, limit # -1, Bound(limit, 0))
<1>1. PICK n, needle, bounded : n = Len(str) /\ needle = Len(delim) /\ bounded = (limit # -1)
  OBVIOUS
<1>2. n \in Nat /\ needle \in Nat \ {0} /\ bounded \in BOOLEAN
  BY <1>1
<1>3. PICK pieces :
            /\ xdebug_explode(delim, str, limit) = pieces[1][0]
            /\ \A p1 \in 1..(n + 1) : \A cut \in Nat :
                  pieces[p1][cut] = Exploding(pieces, delim, str, limit, p1, cut)
  <2>1. Len(str) \in Nat /\ Len(delim) \in Nat \ {0}
    BY <1>1, <1>2
  <2>2. \E pieces :
            /\ xdebug_explode(delim, str, limit) = pieces[1][0]
            /\ \A p1 \in 1..(Len(str) + 1) : \A cut \in Nat :
                  pieces[p1][cut] = Exploding(pieces, delim, str, limit, p1, cut)
    BY <2>1, Explodes
  <2> QED
    BY <1>1, <2>2, Zenon
<1>4. \A p \in 1..(n + 1) : \A q \in (p - 1)..n : SubSeq(str, p, q) \in Seq(S)
  <2> SUFFICES ASSUME NEW p \in 1..(n + 1), NEW q \in (p - 1)..n
               PROVE  SubSeq(str, p, q) \in Seq(S)
    OBVIOUS
  <2>1. p \in Int /\ q \in Int /\ \A i \in p..q : str[i] \in S
    BY <1>1, <1>2
  <2> QED
    BY <2>1, SubSeqProperties
<1> DEFINE Right(p1, cut) ==
              /\ pieces[p1][cut] \in Seq(Seq(S))
              /\ Splits(pieces[p1][cut], delim, SubSeq(str, p1, n), bounded, Bound(limit, cut))
           Good == {p1 \in 1..(n + 1) : \A cut \in Nat : Right(p1, cut)}
<1>5. ASSUME NEW p1 \in 1..(n + 1), (p1 + 1)..(n + 1) \subseteq Good PROVE p1 \in Good
  <2> HIDE DEF Good
  <2>1. ASSUME NEW cut \in Nat PROVE Right(p1, cut)
    <3>1. PICK p2, text : p2 = xdebug_memnstr(delim, str, p1) /\ text = SubSeq(str, p1, n)
      OBVIOUS
    <3>2. p1 \in 1..(Len(str) + 1) /\ Len(str) \in Nat /\ Len(delim) \in Nat \ {0}
      BY <1>1, <1>2
    <3>3. text \in Seq(S)
      <4>1. n \in (p1 - 1)..n
        BY <1>2
      <4> QED
        BY <1>4, <3>1, <4>1, Zenon
    <3>4. pieces[p1][cut] =
            IF p2 # NoMatch /\ (cut = 0 \/ limit = -1 \/ limit - cut > 1)
            THEN << SubSeq(str, p1, p2 - 1) >> \o pieces[p2 + needle][cut + 1]
            ELSE << text >>
      BY <1>1, <1>3, <3>1, Zenon DEF Exploding
    <3>5. CASE p2 # NoMatch /\ (cut = 0 \/ limit = -1 \/ limit - cut > 1)
      <4>1. /\ p2 \in p1..n /\ Matches(str, delim, p2)
            /\ \A p \in p1..(p2 - 1) : ~ Matches(str, delim, p)
            /\ p2 + needle \in (p1 + 1)..(n + 1)
        <5>1. /\ p2 \in p1..Len(str) /\ Matches(str, delim, p2)
              /\ \A p \in p1..(p2 - 1) : ~ Matches(str, delim, p)
              /\ p2 + Len(delim) \in (p1 + 1)..(Len(str) + 1)
          BY <3>1, <3>2, <3>5, BehindDelimiter
        <5> QED
          BY <1>1, <5>1, Zenon
      <4>2. PICK s, p3, rest : s = SubSeq(str, p1, p2 - 1) /\ p3 = p2 + needle
                               /\ rest = SubSeq(str, p3, n)
        OBVIOUS
      <4>3. PICK more : more = pieces[p3][cut + 1]
        OBVIOUS
      <4>4. cut + 1 \in Nat
        OBVIOUS
      <4>5. more \in Seq(Seq(S)) /\ Splits(more, delim, rest, bounded, Bound(limit, cut + 1))
        <5>1. p3 \in Good
          BY <1>5, <4>1, <4>2, Zenon
        <5> QED
          BY <4>2, <4>3, <4>4, <5>1, Zenon DEF Good
      <4>6. p2 - 1 \in (p1 - 1)..n
        BY <1>2, <4>1
      <4>7. s \in Seq(S)
        BY <1>4, <4>2, <4>6, Zenon
      <4>8. ~ Has(s, delim)
        <5>1. p2 - 1 \in (p1 - 1)..Len(str)
          BY <1>1, <4>6
        <5>2. ~ Has(SubSeq(str, p1, p2 - 1), delim)
          BY <3>2, <4>1, <5>1, HasNone
        <5> QED
          BY <4>2, <5>2, Zenon
      <4>9. CutsOff(text, s, delim, rest)
        <5>1. p2 \in p1..Len(str)
          BY <1>1, <4>1
        <5>2. SubSeq(str, p1, Len(str)) =
                (SubSeq(str, p1, p2 - 1) \o delim) \o SubSeq(str, p2 + Len(delim), Len(str))
          BY <3>2, <4>1, <5>1, CutInThree
        <5> QED
          BY <1>1, <3>1, <4>2, <5>2, Zenon DEF CutsOff
      <4>10. PICK less, bound : less = Bound(limit, cut + 1) /\ bound = Bound(limit, cut)
        OBVIOUS
      <4>11. less \in Nat /\ bound \in Nat /\ (bounded => bound = less + 1)
        BY <1>1, <3>5, <4>4, <4>10, BoundIs
      <4>12. Splits(more, delim, rest, bounded, less)
        BY <4>5, <4>10, Zenon
      <4>13. PICK w : PutsInFront(w, s, more)
        BY Zenon DEF PutsInFront
      <4>14. w \in Seq(Seq(S)) /\ Splits(w, delim, text, bounded, bound)
        BY <1>2, <4>5, <4>7, <4>8, <4>9, <4>11, <4>12, <4>13, SplitsAgain
      <4>15. pieces[p1][cut] = w
        BY <3>4, <3>5, <4>2, <4>3, <4>13, Zenon DEF PutsInFront
      <4> QED
        BY <3>1, <4>10, <4>14, <4>15, Zenon
    <3>6. CASE ~ (p2 # NoMatch /\ (cut = 0 \/ limit = -1 \/ limit - cut > 1))
      <4>1. pieces[p1][cut] = << text >>
        BY <3>4, <3>6, Zenon
      <4>2. << text >> \in Seq(Seq(S))
        BY <3>3
      <4>3. PICK bound : bound = Bound(limit, cut)
        OBVIOUS
      <4>4. bound \in Nat \ {0}
        BY <4>3, BoundIs
      <4>5. ~ Has(text, delim) \/ (bounded /\ bound = 1)
        <5>1. CASE p2 = NoMatch
          <6>1. FoundAt(p2, delim, str, p1)
            BY <3>1, <3>2, MemnstrFinds
          <6>2. \A p \in p1..(n + 1) : ~ Matches(str, delim, p)
            <7>1. NoMatch \notin p1..n
              BY <1>2 DEF NoMatch
            <7> QED
              BY <1>1, <5>1, <6>1, <7>1, Zenon DEF FoundAt
          <6>3. \A p \in p1..n : p \in p1..(n + 1)
            BY <1>2
          <6>4. \A p \in p1..Len(str) : ~ Matches(str, delim, p)
            BY <1>1, <6>2, <6>3, Zenon
          <6>5. Len(str) \in (p1 - 1)..Len(str)
            BY <3>2
          <6>6. ~ Has(SubSeq(str, p1, Len(str)), delim)
            BY <3>2, <6>4, <6>5, HasNone
          <6> QED
            BY <1>1, <3>1, <6>6, Zenon
        <5>2. CASE p2 # NoMatch
          BY <1>1, <3>6, <4>3, <5>2, BoundIs
        <5> QED
          BY <5>1, <5>2
      <4>6. Splits(<< text >>, delim, text, bounded, bound)
        BY <1>2, <3>3, <4>4, <4>5, SplitsOnce
      <4> QED
        BY <3>1, <4>1, <4>2, <4>3, <4>6, Zenon
    <3> QED
      BY <3>5, <3>6
  <2> QED
    BY <2>1, Zenon DEF Good
<1>6. Right(1, 0)
  <2> HIDE DEF Good, Right
  <2>1. 1 \in 1..(n + 1) /\ 1 \in Int /\ n + 1 \in Int /\ 0 \in Nat
    BY <1>2
  <2>2. 1..(n + 1) \subseteq Good
    BY <1>5, <2>1, Backwards
  <2>3. 1 \in Good
    BY <2>1, <2>2
  <2> QED
    BY <2>1, <2>3, Zenon DEF Good
<1>7. SubSeq(str, 1, n) = str
  BY <1>1, SubSeqFull
<1> HIDE DEF Good
<1> QED
  BY <1>1, <1>3, <1>6, <1>7, Zenon

(* Whatever the buffer comes to hold, no piece of it has the delimiter, but  *)
(* the last if the limit is reached, and together they are the text again  *)
(* (usefulstuff.c 98-170; server.c 892 splits the lines of a source).      *)
THEOREM SplitsRight == Spec => []SplitsAtDelimiters
<1>1. IInv => SplitsAtDelimiters
  <2> SUFFICES ASSUME IInv PROVE SplitsAtDelimiters
    OBVIOUS
  <2>1. PICK str : str = Content
    OBVIOUS
  <2>2. str \in Seq(Chars)
    BY <2>1, ContentIsText
  <2> SUFFICES ASSUME NEW delim \in Delimiters, NEW limit \in Limits
               PROVE  LET pieces == xdebug_explode(delim, str, limit)
                          most   == IF limit < 2 THEN 2 ELSE limit
                      IN  /\ xdebug_join(delim, pieces, 0, Len(pieces)) = str
                          /\ \A i \in 1..(Len(pieces) - 1) : ~ Has(pieces[i], delim)
                          /\ \/ ~ Has(Last(pieces), delim)
                             \/ limit # -1 /\ Len(pieces) = most
                          /\ limit # -1 => Len(pieces) <= most
    BY <2>1, Zenon DEF SplitsAtDelimiters
  <2>3. delim \in Seq(Chars) /\ delim # << >> /\ limit \in Int
    BY HelpersAssumption
  <2>4. Len(delim) > 0
    <3>1. \A seq \in Seq(Chars) : seq # << >> => Len(seq) \in Nat \ {0}
      BY EmptySeq
    <3> QED
      BY <2>3, <3>1
  <2>5. PICK pieces, most : /\ pieces = xdebug_explode(delim, str, limit)
                            /\ most = IF limit < 2 THEN 2 ELSE limit
    OBVIOUS
  <2>6. pieces \in Seq(Seq(Chars)) /\ Splits(pieces, delim, str, limit # -1, Bound(limit, 0))
    <3>1. LET exploded == xdebug_explode(delim, str, limit)
          IN  /\ exploded \in Seq(Seq(Chars))
              /\ Splits(exploded, delim, str, limit # -1, Bound(limit, 0))
      BY <2>2, <2>3, <2>4, ExplodeSplits
    <3> QED
      BY <2>5, <3>1, Zenon
  <2>7. Bound(limit, 0) = most
    BY <2>3, <2>5 DEF Bound
  <2>8. xdebug_join(delim, pieces, 0, Len(pieces)) = Joined(delim, pieces)
    <3>1. Len(pieces) > 0
      BY <2>6, Zenon DEF Splits
    <3> QED
      BY <2>6, <3>1, JoinOfAll
  <2> QED
    BY <2>5, <2>6, <2>7, <2>8, Zenon DEF Splits, Last
<1> QED
  BY <1>1, Invariance, PTL
=============================================================================
