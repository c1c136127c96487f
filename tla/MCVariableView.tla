--------------------------- MODULE MCVariableView ---------------------------
(* An object of five members and its class name, one member an array. *)
EXTENDS VariableView

CONSTANTS object, scalar, class, first, array, last, one, two, three

Context == << scalar, object >>

Members ==
    [name \in {object, scalar, class, first, array, last, one, two, three} |->
        CASE name = object -> << class, first, array, last >>
          [] name = array  -> << one, two, three >>
          [] OTHER         -> << >>]

ClassNames == {class}

(* What main sets; numbers and sizes are small. *)
Defaults ==
    [k \in Keys |-> CASE k = "port"              -> 9
                      [] k = "max_children"      -> 25
                      [] k = "max_string_length" -> 5
                      [] OTHER                   -> 1]

NothingStored == [k \in Keys |-> 0]

(* Pages of one and of two children, a first start, and no limit on texts. *)
SmallPages ==
    {NothingStored, [NothingStored EXCEPT !["max_string_length"] = -1]}
    \cup {[NothingStored EXCEPT !["max_children"] = n, !["max_depth"] = depth] :
            n \in 1..2, depth \in 0..2}

FirstStart == {NothingStored}

SomeNumbers == {-3, 0, 7}
=============================================================================
