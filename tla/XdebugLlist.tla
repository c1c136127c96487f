----------------------------- MODULE XdebugLlist ----------------------------
(***************************************************************************)
(* xdebug_llist.c: a doubly linked list with head, tail and size.  An      *)
(* address denotes a list element while it is in the domain of heap, from  *)
(* malloc to free.  The callers are any that pass elements of the list.    *)
(***************************************************************************)
EXTENDS Integers, FiniteSets

CONSTANTS
    Addresses,      \* where elements can be allocated
    Values,         \* what elements point to
    NULL

ASSUME LlistAssumption == NULL \notin Addresses \cup Values

VARIABLES
    list,           \* xdebug_llist: head, tail, size
    heap,           \* xdebug_llist_element: ptr, prev, next
    emptying,       \* within the loop of xdebug_llist_empty
    released        \* the value the last step passed to dtor, or NULL

vars == <<list, heap, emptying, released>>

Elements == DOMAIN heap
Links == Addresses \cup {NULL}

xdebug_llist_init == [head |-> NULL, tail |-> NULL, size |-> 0]

Init ==
    /\ list = xdebug_llist_init
    /\ heap = << >>
    /\ emptying = FALSE
    /\ released = NULL

-----------------------------------------------------------------------------
(* e->next = n and e->prev = p, in h; nothing for a null e. *)
WithNext(h, e, n) == IF e = NULL THEN h ELSE [h EXCEPT ![e].next = n]
WithPrev(h, e, p) == IF e = NULL THEN h ELSE [h EXCEPT ![e].prev = p]

(* ne = malloc, and its fields. *)
WithNew(h, ne, fields) == [e \in DOMAIN h \cup {ne} |-> IF e = ne THEN fields ELSE h[e]]

Or(e, default) == IF e = NULL THEN default ELSE e

Alone(ne, p) ==
    /\ list' = [head |-> ne, tail |-> ne, size |-> 1]
    /\ heap' = WithNew(heap, ne, [ptr |-> p, prev |-> NULL, next |-> NULL])

(* Behind e, or behind the tail. *)
xdebug_llist_insert_next(arg, p) ==
    /\ ~emptying
    /\ \E ne \in Addresses \ Elements :
          IF list.size = 0 THEN Alone(ne, p)
          ELSE LET e == Or(arg, list.tail)
                   n == heap[e].next
               IN /\ list' = [list EXCEPT !.size = @ + 1,
                                          !.tail = IF n = NULL THEN ne ELSE @]
                  /\ heap' = WithNew(WithNext(WithPrev(heap, n, ne), e, ne),
                                      ne, [ptr |-> p, prev |-> e, next |-> n])
    /\ released' = NULL
    /\ UNCHANGED emptying

(* Before e, or before the head. *)
insert_prev_one_way(arg, p) ==          \* faulty: e->prev is not set
    /\ ~emptying
    /\ \E ne \in Addresses \ Elements :
          IF list.size = 0 THEN Alone(ne, p)
          ELSE LET e == Or(arg, list.head)
                   q == heap[e].prev
               IN /\ list' = [list EXCEPT !.size = @ + 1,
                                          !.head = IF q = NULL THEN ne ELSE @]
                  /\ heap' = WithNew(WithNext(heap, q, ne),
                                      ne, [ptr |-> p, prev |-> q, next |-> e])
    /\ released' = NULL
    /\ UNCHANGED emptying

xdebug_llist_insert_prev(arg, p) ==
    /\ ~emptying
    /\ \E ne \in Addresses \ Elements :
          IF list.size = 0 THEN Alone(ne, p)
          ELSE LET e == Or(arg, list.head)
                   q == heap[e].prev
               IN /\ list' = [list EXCEPT !.size = @ + 1,
                                          !.head = IF q = NULL THEN ne ELSE @]
                  /\ heap' = WithNew(WithPrev(WithNext(heap, q, ne), e, ne),
                                      ne, [ptr |-> p, prev |-> q, next |-> e])
    /\ released' = NULL
    /\ UNCHANGED emptying

Without(h, e) == [x \in DOMAIN h \ {e} |-> h[x]]

(* What a removal leaves of the links: the neighbours joined, e freed. *)
Unlinked(e) ==
    Without(WithPrev(WithNext(heap, heap[e].prev, heap[e].next),
                     heap[e].next, heap[e].prev), e)

remove_uncounted(e) ==                  \* faulty: the size stays
    /\ e # NULL /\ list.size # 0
    /\ list' = [list EXCEPT !.head = IF e = @ THEN heap[e].next ELSE @,
                            !.tail = IF heap[e].next = NULL THEN heap[e].prev ELSE @]
    /\ heap' = Unlinked(e)
    /\ released' = heap[e].ptr

removes_silently(e) ==                  \* faulty: dtor is not called
    /\ e # NULL /\ list.size # 0
    /\ list' = [head |-> IF e = list.head THEN heap[e].next ELSE list.head,
                tail |-> IF heap[e].next = NULL THEN heap[e].prev ELSE list.tail,
                size |-> list.size - 1]
    /\ heap' = Unlinked(e)
    /\ released' = NULL

Removes(e) ==
    /\ e # NULL /\ list.size # 0
    /\ list' = [head |-> IF e = list.head THEN heap[e].next ELSE list.head,
                tail |-> IF heap[e].next = NULL THEN heap[e].prev ELSE list.tail,
                size |-> list.size - 1]
    /\ heap' = Unlinked(e)
    /\ released' = heap[e].ptr

RemovesNothing(e) ==
    /\ e = NULL \/ list.size = 0
    /\ released' = NULL
    /\ UNCHANGED <<list, heap>>

xdebug_llist_remove(e) ==
    /\ ~emptying
    /\ Removes(e) \/ RemovesNothing(e)
    /\ UNCHANGED emptying

xdebug_llist_remove_next(e) == xdebug_llist_remove(heap[e].next)

xdebug_llist_remove_prev(e) == xdebug_llist_remove(heap[e].prev)

(* xdebug_llist_empty, also from xdebug_llist_destroy: begin, one round, *)
(* end.                                                                  *)
xdebug_llist_empty ==
    /\ ~emptying
    /\ emptying' = TRUE
    /\ released' = NULL
    /\ UNCHANGED <<list, heap>>

EmptyRound ==
    /\ emptying
    /\ list.size > 0
    /\ Removes(list.tail) \/ RemovesNothing(list.tail)
    /\ UNCHANGED emptying

EmptyEnds ==
    /\ emptying
    /\ list.size = 0
    /\ emptying' = FALSE
    /\ released' = NULL
    /\ UNCHANGED <<list, heap>>

Next ==
    \/ \E e \in Elements \cup {NULL}, p \in Values :
          \/ xdebug_llist_insert_next(e, p)
          \/ xdebug_llist_insert_prev(e, p)
    \/ \E e \in Elements \cup {NULL} : xdebug_llist_remove(e)
    \/ \E e \in Elements :
          \/ xdebug_llist_remove_next(e)
          \/ xdebug_llist_remove_prev(e)
    \/ xdebug_llist_empty
    \/ EmptyRound
    \/ EmptyEnds

Spec == Init /\ [][Next]_vars

-----------------------------------------------------------------------------
(* xdebug_llist_jump: pos steps from the head of a list that has so many. *)
jump_head[pos \in 0..(list.size - 1)] ==
    IF pos = 0 THEN list.head ELSE heap[jump_head[pos - 1]].next

Items == [place \in 1..list.size |-> heap[jump_head[place - 1]].ptr]

(* The fields keep their types, and what is linked is allocated. *)
TypeOK ==
    /\ list \in [head : Elements \cup {NULL}, tail : Elements \cup {NULL}, size : Nat]
    /\ Elements \subseteq Addresses
    /\ \A e \in Elements :
          heap[e] \in [ptr : Values, prev : Elements \cup {NULL}, next : Elements \cup {NULL}]
    /\ emptying \in BOOLEAN
    /\ released \in Values \cup {NULL}

(* Each element is the prev of its next and the next of its prev. *)
LinksMatch ==
    /\ \A e \in Elements : heap[e].prev = NULL <=> e = list.head
    /\ \A e \in Elements : heap[e].next = NULL <=> e = list.tail
    /\ \A e, f \in Elements : heap[e].next = f <=> heap[f].prev = e

SizeMatches ==
    /\ list.size = Cardinality(Elements)
    /\ list.size = 0 <=> list.head = NULL
    /\ list.size = 0 <=> list.tail = NULL

(* An element is the head exactly when nothing precedes it, the tail        *)
(* exactly when nothing follows it, neighbours agree that they are; and     *)
(* size is the number of elements, so that none is leaked, none freed is    *)
(* counted, and the loop of xdebug_llist_empty, which asks the size, always *)
(* has a tail to remove (insertions 45-104, removal 106-133, loop 173).     *)
WellLinked == LinksMatch /\ SizeMatches

(* The linked list is a sequence of values. *)
Sequence == INSTANCE ValueList WITH items <- Items

ImplementsList == Sequence!Spec
=============================================================================
