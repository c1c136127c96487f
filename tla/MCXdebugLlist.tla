---------------------------- MODULE MCXdebugLlist ---------------------------
(* A list of up to four elements for TLC. *)
EXTENDS XdebugLlist

CONSTANTS e1, e2, e3, e4, v, w

FourAddresses == {e1, e2, e3, e4}
TwoValues == {v, w}
=============================================================================
