------------------------------ MODULE ValueList -----------------------------
(***************************************************************************)
(* What xdebug_llist promises: a sequence of values, in which a value can  *)
(* be put before or behind any other and from which any can be taken; the  *)
(* destructor is called once, with the value taken.                        *)
(***************************************************************************)
EXTENDS Naturals, SequencesExt

CONSTANTS Values, NULL

VARIABLES
    items,      \* the values, from head to tail
    released    \* the value of the last step's destructor call, or NULL

vars == <<items, released>>

Init == items = << >> /\ released = NULL

PutIn ==
    /\ \E place \in 1..(Len(items) + 1), value \in Values :
          items' = InsertAt(items, place, value)
    /\ released' = NULL

TakeOut ==
    /\ \E place \in DOMAIN items :
          /\ items' = RemoveAt(items, place)
          /\ released' = items[place]

Next == PutIn \/ TakeOut

(* Operations that change nothing leave released alone or clear it. *)
Spec == Init /\ [][Next \/ (UNCHANGED items /\ released' = NULL)]_vars
=============================================================================
