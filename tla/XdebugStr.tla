------------------------------ MODULE XdebugStr -----------------------------
(***************************************************************************)
(* xdebug_str, a string that grows (src/src/xdebug_str.c), as the writer   *)
(* of XML uses it: l bytes in use, a allocated, at d.  d is NULL as long   *)
(* as a is 0.                                                              *)
(***************************************************************************)
EXTENDS Integers, Sequences

CONSTANTS
    Chars, NUL, JUNK,   \* bytes; JUNK is what malloc leaves
    Strings,            \* what is added
    PREALLOC,           \* XDEBUG_STR_PREALLOC
    MaxChop, MaxLength  \* bounds: what is chopped, and how long texts become

ASSUME StrAssumption ==
    /\ NUL \notin Chars /\ JUNK \notin Chars /\ NUL # JUNK
    /\ Strings \subseteq Seq(Chars)
    /\ PREALLOC \in Nat \ {0}
    /\ MaxChop \in Nat /\ MaxLength \in Nat

VARIABLES l, a, d,
    overrun     \* a byte was written outside of d

vars == <<l, a, d, overrun>>

Init ==
    /\ l = 0 /\ a = 0
    /\ d = [i \in {} |-> JUNK]
    /\ overrun = FALSE
-----------------------------------------------------------------------------
(* The size of d once it has room for le bytes more and the NUL. *)
RoomWithoutNul(le) ==           \* faulty
    IF l + le > a THEN a + le + PREALLOC ELSE a
Room(le) ==
    IF l + le > a - 1 THEN a + le + PREALLOC ELSE a

(* realloc keeps what was at i. *)
KeptInPlace(i, le) == IF i < a /\ Room(le) = a THEN d[i] ELSE JUNK  \* faulty: malloc
Kept(i, le) == IF i < a THEN d[i] ELSE JUNK

(* realloc, memcpy, and the NUL. *)
Stored(str) ==
    [i \in 0..(Room(Len(str)) - 1) |->
        IF l <= i /\ i < l + Len(str) THEN str[i - l + 1]
        ELSE IF i = l + Len(str) THEN NUL
        ELSE Kept(i, Len(str))]

Adds(str) ==
    /\ l + Len(str) <= MaxLength
    /\ l' = l + Len(str)
    /\ a' = Room(Len(str))
    /\ d' = Stored(str)
    /\ overrun' = (overrun \/ l + Len(str) >= Room(Len(str)))

xdebug_str_add(str) == Adds(str)
xdebug_str_addl(str, le) == Adds(SubSeq(str, 1, le))

(* A string that was never added to is not chopped: its d is NULL.         *)
xdebug_str_chop(c) ==
    /\ a # 0
    /\ IF c > l
       THEN UNCHANGED <<l, d>>
       ELSE l' = l - c /\ d' = [d EXCEPT ![l - c] = NUL]
    /\ UNCHANGED <<a, overrun>>

Next ==
    \/ \E str \in Strings : xdebug_str_add(str)
    \/ \E str \in Strings : \E le \in 0..Len(str) : xdebug_str_addl(str, le)
    \/ \E c \in 0..MaxChop : xdebug_str_chop(c)

Spec == Init /\ [][Next]_vars
-----------------------------------------------------------------------------
(* The text of the string, and what C makes of d. *)
Content == [i \in 1..l |-> d[i - 1]]

(* No byte is written outside of the memory there is, and C's functions    *)
(* find the end of the string where l says it is, in any order of adding   *)
(* and chopping (30-41, 47-58, 65-70).                                     *)
TerminatedInside ==
    /\ ~ overrun
    /\ a # 0 => /\ l < a
                /\ d[l] = NUL
                /\ \A i \in 0..(l - 1) : d[i] # NUL

T == INSTANCE Text WITH text <- Content

(* Growing keeps the text: it is what was added, less what was chopped.    *)
ImplementsText == T!Spec
=============================================================================
