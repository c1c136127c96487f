-------------------------------- MODULE Text --------------------------------
(***************************************************************************)
(* What a string buffer promises: a text that grows and shrinks at its     *)
(* end, whatever memory it lives in.                                       *)
(***************************************************************************)
EXTENDS Naturals, Sequences

CONSTANTS Strings, MaxChop

VARIABLE text

Init == text = << >>

Adds(str) == text' = text \o str

(* Chopping more than there is does nothing. *)
Chop(c) ==
    text' = IF c > Len(text) THEN text ELSE SubSeq(text, 1, Len(text) - c)

Next ==
    \/ \E str \in Strings : Adds(str)
    \/ \E str \in Strings : \E le \in 0..Len(str) : Adds(SubSeq(str, 1, le))
    \/ \E c \in 0..MaxChop : Chop(c)

Spec == Init /\ [][Next]_text
=============================================================================
