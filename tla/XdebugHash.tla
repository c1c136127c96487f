----------------------------- MODULE XdebugHash -----------------------------
(***************************************************************************)
(* xdebug_hash.c: a table of chains.  A key is a string or a number; which *)
(* slot it falls into is left to the constant Slot, so that any keys may   *)
(* collide.  The chains are the sequences that xdebug_llist implements.    *)
(* The program keeps its source pages in one (code_tabs_hash).             *)
(***************************************************************************)
EXTENDS Integers, FiniteSets, SequencesExt

CONSTANTS
    Keys,       \* records: type, "string" or "num", and value
    Slots,      \* number of slots
    Slot,       \* FIND_SLOT
    Values,     \* what callers store
    HasDtor,    \* is there a destructor? (none for code_tabs_hash)
    NULL

ASSUME HashAssumption ==
    /\ \A key \in Keys : /\ key.type \in {"string", "num"}
                         /\ key = [type |-> key.type, value |-> key.value]
    /\ Slots \in Nat \ {0}
    /\ Slot \in [Keys -> 0..(Slots - 1)]
    /\ HasDtor \in BOOLEAN
    /\ NULL \notin Values

VARIABLES
    table,      \* the chain of each slot: elements with key and ptr
    size,
    found,      \* what the last step stored through p of find, or NULL
    released,   \* the values the last step passed to h->dtor, by their places
    alive       \* until xdebug_hash_destroy

vars == <<table, size, found, released, alive>>

TableSlots == 0..(Slots - 1)

(* Where the elements are: a slot, and a place in its chain. *)
Places == UNION {{slot} \X DOMAIN table[slot] : slot \in TableSlots}

At(place) == table[place[1]][place[2]]

(* xdebug_hash_alloc *)
Init ==
    /\ table = [slot \in TableSlots |-> << >>]
    /\ size = 0
    /\ found = NULL
    /\ released = << >>
    /\ alive = TRUE

-----------------------------------------------------------------------------
compare_values(key1, key2) ==           \* faulty: a number may equal a string
    key1.value = key2.value

xdebug_hash_key_compare(key1, key2) ==
    key1.type = key2.type /\ key1.value = key2.value

(* Where in a chain keys compare equal; the first of them is the one used. *)
Matches(chain, key) ==
    {place \in DOMAIN chain : xdebug_hash_key_compare(key, chain[place].key)}

IsFirstMatch(chain, key, place) ==
    /\ place \in Matches(chain, key)
    /\ \A other \in Matches(chain, key) : place <= other

hash_element_dtor(places) ==
    IF HasDtor THEN [place \in places |-> At(place).ptr] ELSE << >>

update_destroys_new(key, p) ==          \* faulty: replaced before destroyed
    LET chain == table[Slot[key]] IN
    /\ \E place \in DOMAIN chain :
          /\ IsFirstMatch(chain, key, place)
          /\ table' = [table EXCEPT ![Slot[key]][place].ptr = p]
          /\ released' = hash_element_dtor({<<Slot[key], place>>})'
    /\ found' = NULL
    /\ UNCHANGED <<size, alive>>

Update(key, p) ==
    LET chain == table[Slot[key]] IN
    /\ \E place \in DOMAIN chain :
          /\ IsFirstMatch(chain, key, place)
          /\ released' = hash_element_dtor({<<Slot[key], place>>})
          /\ table' = [table EXCEPT ![Slot[key]][place].ptr = p]
    /\ found' = NULL
    /\ UNCHANGED <<size, alive>>

Add(key, p) ==
    LET chain == table[Slot[key]] IN
    /\ Matches(chain, key) = {}
    /\ table' = [table EXCEPT ![Slot[key]] = Append(chain, [key |-> key, ptr |-> p])]
    /\ size' = size + 1
    /\ released' = << >>
    /\ found' = NULL
    /\ UNCHANGED alive

xdebug_hash_add_or_update(key, p) ==
    /\ alive
    /\ Update(key, p) \/ Add(key, p)

DeleteMatch(key) ==
    LET chain == table[Slot[key]] IN
    /\ \E place \in DOMAIN chain :
          /\ IsFirstMatch(chain, key, place)
          /\ released' = hash_element_dtor({<<Slot[key], place>>})
          /\ table' = [table EXCEPT ![Slot[key]] = RemoveAt(chain, place)]
    /\ size' = size - 1

DeleteNothing(key) ==
    /\ Matches(table[Slot[key]], key) = {}
    /\ released' = << >>
    /\ UNCHANGED <<table, size>>

xdebug_hash_extended_delete(key) ==
    /\ alive
    /\ DeleteMatch(key) \/ DeleteNothing(key)
    /\ found' = NULL
    /\ UNCHANGED alive

(* The pointer found through *p, untouched (NULL) when there is none. *)
Found(key) ==
    LET chain == table[Slot[key]] IN
    IF Matches(chain, key) = {} THEN NULL
    ELSE chain[CHOOSE place \in DOMAIN chain : IsFirstMatch(chain, key, place)].ptr

xdebug_hash_extended_find(key) ==
    /\ alive
    /\ found' = Found(key)
    /\ released' = << >>
    /\ UNCHANGED <<table, size, alive>>

(* All chains, slot by slot. *)
xdebug_hash_destroy ==
    /\ alive
    /\ released' = hash_element_dtor(Places)
    /\ table' = [slot \in TableSlots |-> << >>]
    /\ size' = 0
    /\ found' = NULL
    /\ alive' = FALSE

(* The values the callers hold that are not in the table: a caller stores *)
(* what it has just allocated.                                            *)
Stored == {At(place).ptr : place \in Places}

Next ==
    \/ \E key \in Keys :
          \/ \E p \in Values \ Stored : xdebug_hash_add_or_update(key, p)
          \/ xdebug_hash_extended_delete(key)
          \/ xdebug_hash_extended_find(key)
    \/ xdebug_hash_destroy

Spec == Init /\ [][Next]_vars

-----------------------------------------------------------------------------
(* The elements xdebug_hash_apply and xdebug_hash_apply_with_argument visit. *)
xdebug_hash_apply == {At(place) : place \in Places}

(* No destructor runs on a value that can still be found, and none twice in *)
(* one call (156-162, 70-84).                                                 *)
NoneDestroyedInUse ==
    /\ IsInjective(released)
    /\ Range(released) \cap Stored = {}

(* The table is a map: what is added, updated and deleted by key, found by *)
(* key, counted and visited agree, whatever the keys that share a slot     *)
(* (76-84, 136-243).                                                       *)
Map == INSTANCE KeyValueMap
    WITH values <- [key \in Keys |-> Found(key)],
         visits <- xdebug_hash_apply,
         released <- Range(released)

ImplementsMap == Map!Spec
=============================================================================
