----------------------------- MODULE MCXdebugHash ---------------------------
(* A table of two slots for TLC, with collisions. *)
EXTENDS XdebugHash

CONSTANTS page1, page2, page3, page4

StringKey(name) == [type |-> "string", value |-> name]
NumberKey(number) == [type |-> "num", value |-> number]

FourKeys == { StringKey(1), StringKey(2), StringKey(3), NumberKey(1) }
FourPages == {page1, page2, page3, page4}

(* All but one string fall into the same slot, the number that reads like *)
(* one of them too.                                                       *)
Collisions == [key \in FourKeys |-> IF key = StringKey(3) THEN 1 ELSE 0]
=============================================================================
