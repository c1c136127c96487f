------------------------------ MODULE MCStrings -----------------------------
(***************************************************************************)
(* The bytes are the percent sign, a slash, the digit 2 and a capital F:   *)
(* "%2F" is an escape, and is cut off at the end of some texts.            *)
(***************************************************************************)
EXTENDS StringHelpers

Bytes == {37, 47, 50, 70}
Pieces == {<< >>, << 37 >>, << 47 >>, << 50, 70 >>, << 50, 50 >>}
SlashOrLonger == {<< 47 >>, << 37, 50 >>, << 50, 50 >>}
SmallLimits == {-1, 0, 1, 2, 3}
=============================================================================
