----------------------------- MODULE KeyValueMap ----------------------------
(***************************************************************************)
(* What xdebug_hash promises: at most one value for a key, found again     *)
(* until it is replaced or deleted; the destructor, if there is one, is    *)
(* called once for each value that is replaced, deleted or left at the     *)
(* end.                                                                    *)
(***************************************************************************)
EXTENDS Naturals, FiniteSets, Functions

CONSTANTS Keys, Values, NULL, HasDtor

VARIABLES
    values,     \* the value of each key, or NULL
    visits,     \* the keys with a value, and it, as a walk passes them
    size,       \* how many they are
    found,      \* what the last step found, or NULL
    released    \* the values the last step passed to the destructor

vars == <<values, visits, size, found, released>>

Destroyed(S) == IF HasDtor THEN S \ {NULL} ELSE {}

Init ==
    /\ values = [key \in Keys |-> NULL]
    /\ visits = {} /\ size = 0
    /\ found = NULL
    /\ released = {}

Counted ==
    /\ visits' = {[key |-> key, ptr |-> values'[key]] : key \in {k \in Keys : values'[k] # NULL}}
    /\ size' = Cardinality(visits')

Put(key, value) ==
    /\ values' = [values EXCEPT ![key] = value]
    /\ released' = Destroyed({values[key]})
    /\ Counted
    /\ found' = NULL

Delete(key) ==
    /\ values' = [values EXCEPT ![key] = NULL]
    /\ released' = Destroyed({values[key]})
    /\ Counted
    /\ found' = NULL

Find(key) ==
    /\ found' = values[key]
    /\ released' = {}
    /\ UNCHANGED <<values, visits, size>>

Clear ==
    /\ values' = [key \in Keys |-> NULL]
    /\ released' = Destroyed(Range(values))
    /\ Counted
    /\ found' = NULL

Next ==
    \/ \E key \in Keys :
          \/ \E value \in Values : Put(key, value)
          \/ Delete(key)
          \/ Find(key)
    \/ Clear

Spec == Init /\ [][Next]_vars
=============================================================================
