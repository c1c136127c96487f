---------------------------- MODULE VariableView ----------------------------
(***************************************************************************)
(* The tree of variables and its pages: add_property and the selection     *)
(* handler of src/src/server.c, with the engine that cuts the children of  *)
(* a variable into pages, and the settings both sides take the size of a   *)
(* page from: the engine begins with its own and is sent the client's      *)
(* behind the first stop (616-624), the client reads its own whenever it   *)
(* shows a property.                                                       *)
(*                                                                         *)
(* The user waits for the end of a list before opening a row.              *)
(***************************************************************************)
EXTENDS Preferences, SequencesExt

CONSTANTS
    NULL,
    TopNames,   \* the variables of a context
    Children,   \* the children of a variable, by full names, in order
    Hidden,     \* names that are not shown: CLASSNAME
    EngineSize, EngineDepth,    \* what the engine goes by until it is told
    MaxSessions, MaxContexts, MaxFetches

Paths == Seq(Nat)

ASSUME ViewAssumption ==
    /\ TopNames \in Seq(DOMAIN Children)
    /\ \A name \in DOMAIN Children : Children[name] \in Seq(DOMAIN Children)
    /\ NULL \notin [row : Paths, name : DOMAIN Children, page : Nat]
    /\ NULL \notin [size : Nat, depth : Int]
    /\ EngineSize \in Nat /\ EngineDepth \in Int
    /\ {MaxSessions, MaxContexts, MaxFetches} \subseteq Nat

(* A page has no negative size: neither main nor the spin button sets one. *)
ASSUME SizeAssumption ==
    /\ SpinLower >= 0
    /\ \A c \in Stored \cup {Default} : c["max_children"] >= 0

FETCH_MORE == 1
FETCH_PAGES == 2

VARIABLES
    session,    \* the sizes the engine goes by; NULL: no connection
    begun,      \* how far the initial list is: what comes next of it, or "done"
    steady,     \* what is shown came in pages of the size the client counts in
    rows,       \* the rows of the tree store, by their paths
    selected,   \* the path of the selected row, or << >>
    asked,      \* the property asked for and not yet answered, or NULL
    failed,     \* rows whose property the engine could not give
    counts,     \* sessions, contexts and fetches so far
    fault

viewVars == <<session, begun, steady, rows, selected, asked, failed, counts, fault>>
vars == <<prefVars, viewVars>>

EmptyRow(name) ==
    [name |-> name, hint |-> 0, count |-> 0, fetched |-> 0, kids |-> 0]

(* The rows below a place so far; nothing is above the variables themselves. *)
KidsOf(store, path) == IF path \in DOMAIN store THEN store[path].kids ELSE 0
-----------------------------------------------------------------------------
(* The engine: the element for a variable, with a page of its children     *)
(* unless they are nested deeper than it was told to go, and `left' levels *)
(* are left.  The document of a context has the variables for children.    *)
Page(names, size, page) ==
    SubSeq(names, page * size + 1,
           IF (page + 1) * size < Len(names) THEN (page + 1) * size ELSE Len(names))

Levels == IF session.depth > 0 THEN session.depth ELSE 0

Element(name, left, page) ==
    LET number == Len(Children[name])
        paged  == number > 0 /\ left > 0
    IN  [ name     |-> name,
          number   |-> number,      \* numchildren; children is "1" if there are any
          paged    |-> paged,       \* there is an attribute page
          elements |-> IF paged THEN Page(Children[name], session.size, page) ELSE << >> ]

ContextElement == [name |-> NULL, number |-> 0, paged |-> FALSE, elements |-> TopNames]
-----------------------------------------------------------------------------
(* add_property. *)

Pages(number) ==
    (number + conf["max_children"] - 1) \div conf["max_children"]

(* The row of a property with children counts the page that came with it. *)
Counted(row, element) ==
    [row EXCEPT !.hint    = IF row.fetched + 1 = Pages(element.number) THEN 0 ELSE @,
                !.count   = Pages(element.number),
                !.fetched = IF element.paged THEN @ + 1 ELSE @]

(* The position the page begins at. *)
OffsetAfter(row) == (row.fetched + 1) * conf["max_children"]    \* faulty: the next page
Offset(row) == row.fetched * conf["max_children"]

MoreIsLeftOrNone(row, element) ==   \* faulty: one too many
    Offset(row) + Len(element.elements) <= element.number
MoreIsLeft(row, element) ==
    Offset(row) + Len(element.elements) < element.number

(* The children that get a row. *)
Shown(names) ==
    LET kept[i \in 0..Len(names)] ==
            IF i = 0 THEN << >>
            ELSE IF names[i] \in Hidden THEN kept[i - 1]
            ELSE Append(kept[i - 1], names[i])
    IN  kept[Len(names)]

(* A row after its property was added; without children it stays as it is. *)
Filled(row, element) ==
    LET counted == Counted(row, element)
    IN  IF element.number = 0 THEN row
        ELSE [counted EXCEPT
                !.hint = IF element.elements = << >> THEN FETCH_MORE
                         ELSE IF MoreIsLeft(row, element) THEN FETCH_PAGES ELSE @,
                !.kids = @ + Len(Shown(element.elements))]

(* The elements one level below others, by the paths of the rows that are  *)
(* appended for them.                                                      *)
Nested(store, above, left) ==
    LET kids == [r \in DOMAIN above |-> Shown(above[r].elements)]
        new  == UNION {{Append(r, KidsOf(store, r) + k) : k \in DOMAIN kids[r]} : r \in DOMAIN above}
    IN  [q \in new |-> Element(kids[Front(q)][Last(q) - KidsOf(store, Front(q))], left, 0)]

(* The levels below the element that goes to path. *)
Nesting(store, path, element, left) ==
    LET level[n \in 0..left] ==
            IF n = 0 THEN [q \in {path} |-> element]
            ELSE Nested(store, level[n - 1], left - n)
    IN  level

(* The document of a context has no row itself: its path is << >>. *)
add_property(store, path, element, left) ==
    LET level == Nesting(store, path, element, left)
        added == UNION {DOMAIN level[n] : n \in 1..left}
    IN  [q \in DOMAIN store \cup added |->
            IF q \in added
            THEN LET nested == level[Len(q) - Len(path)][q]
                 IN  Filled(EmptyRow(nested.name), nested)
            ELSE IF q = path THEN Filled(store[q], element)
            ELSE store[q]]

(* Counting pages divides by max_children. *)
Divides(element) ==
    \/ element.number > 0
    \/ \E name \in Range(Shown(element.elements)) : Children[name] # << >>

Shows(store, path, element, left) ==
    IF conf["max_children"] = 0 /\ Divides(element)
    THEN fault' = "division by zero" /\ rows' = store
    ELSE fault' = fault /\ rows' = add_property(store, path, element, left)
-----------------------------------------------------------------------------
SizesAgree == session.size = conf["max_children"]

(* A connection: the engine has its own sizes, and the first stop comes.   *)
async_accept ==
    /\ running /\ session = NULL
    /\ counts.sessions < MaxSessions
    /\ session' = [size |-> EngineSize, depth |-> EngineDepth]
    /\ begun' = "context"
    /\ steady' = (EngineSize = conf["max_children"])
    /\ counts' = [counts EXCEPT !.sessions = @ + 1]
    /\ UNCHANGED <<prefVars, rows, selected, asked, failed, fault>>

(* do_set_feature, when the first stop is shown already.                   *)
SetsMaxChildren ==
    /\ session # NULL /\ begun = "max_children"
    /\ session' = [session EXCEPT !.size = conf["max_children"]]
    /\ begun' = "max_depth"
    /\ steady' = (steady /\ SizesAgree)
    /\ UNCHANGED <<prefVars, rows, selected, asked, failed, counts, fault>>

SetsMaxDepth ==
    /\ session # NULL /\ begun = "max_depth"
    /\ session' = [session EXCEPT !.depth = conf["max_depth"]]
    /\ begun' = "done"
    /\ UNCHANGED <<prefVars, steady, rows, selected, asked, failed, counts, fault>>

(* The connection is lost: the view is emptied. *)
ConnectionLost ==
    /\ session # NULL
    /\ session' = NULL
    /\ rows' = << >> /\ selected' = << >>
    /\ asked' = NULL /\ failed' = {}
    /\ UNCHANGED <<prefVars, begun, steady, counts, fault>>

(* The script has stopped, and its variables arrive: at the first stop in  *)
(* the middle of the initial list, later in a list of their own.           *)
process_update_context_vars ==
    /\ session # NULL /\ asked = NULL
    /\ begun \in {"context", "done"}
    /\ begun' = IF begun = "context" THEN "max_children" ELSE "done"
    /\ steady' = SizesAgree
    /\ counts.contexts < MaxContexts
    /\ counts' = [counts EXCEPT !.contexts = @ + 1]
    /\ Shows(<< >>, << >>, ContextElement, Levels + 1)
    /\ selected' = << >>
    /\ failed' = {}
    /\ UNCHANGED <<prefVars, session, asked>>

(* do_property_get: -p only for a page other than the first. *)
Asked(path, page) == [row |-> path, name |-> rows[path].name, page |-> page]

varview_selection_function(path) ==
    /\ session # NULL /\ begun = "done" /\ asked = NULL
    /\ path # selected
    /\ counts.fetches < MaxFetches
    /\ selected' = path
    /\ \/ /\ rows[path].hint = FETCH_MORE
          /\ asked' = Asked(path, 0)
       \/ /\ rows[path].hint = FETCH_PAGES
          /\ asked' = Asked(path, rows[path].fetched)
    /\ rows' = [rows EXCEPT ![path].hint = 0]
    /\ counts' = [counts EXCEPT !.fetches = @ + 1]
    /\ UNCHANGED <<prefVars, session, begun, steady, failed, fault>>

(* A row with nothing to fetch is just selected. *)
SelectsOnly(path) ==
    /\ path # selected
    /\ rows[path].hint = 0
    /\ selected' = path
    /\ UNCHANGED <<prefVars, session, begun, steady, rows, asked, failed, counts, fault>>

process_fetched_property ==
    /\ asked # NULL
    /\ Shows(rows, asked.row, Element(asked.name, Levels, asked.page), Levels)
    /\ asked' = NULL
    /\ UNCHANGED <<prefVars, session, begun, steady, selected, failed, counts>>

(* An error has neither attributes nor property elements to show. *)
process_fetched_error ==
    /\ asked # NULL
    /\ failed' = failed \cup {asked.row}
    /\ asked' = NULL
    /\ UNCHANGED <<prefVars, session, begun, steady, rows, selected, counts, fault>>

(* Settings may change while a session is under way. *)
SettingsStep ==
    /\ DialogStep
    /\ steady' = (steady /\ conf'["max_children"] = conf["max_children"])
    /\ UNCHANGED <<session, begun, rows, selected, asked, failed, counts, fault>>

ProgramStarts == Starts(Typed) /\ UNCHANGED viewVars

ProgramQuits ==
    /\ on_quit_activate
    /\ session' = NULL /\ rows' = << >> /\ selected' = << >>
    /\ asked' = NULL /\ failed' = {}
    /\ UNCHANGED <<begun, steady, counts, fault>>
-----------------------------------------------------------------------------
Init ==
    /\ PrefInit
    /\ session = NULL /\ begun = "done" /\ steady = TRUE
    /\ rows = << >> /\ selected = << >>
    /\ asked = NULL /\ failed = {}
    /\ counts = [sessions |-> 0, contexts |-> 0, fetches |-> 0]
    /\ fault = "none"

Next ==
    /\ fault = "none"
    /\ \/ ProgramStarts
       \/ ProgramQuits
       \/ SettingsStep
       \/ async_accept
       \/ SetsMaxChildren
       \/ SetsMaxDepth
       \/ ConnectionLost
       \/ process_update_context_vars
       \/ \E path \in DOMAIN rows : varview_selection_function(path)
       \/ \E path \in DOMAIN rows : SelectsOnly(path)
       \/ process_fetched_property
       \/ process_fetched_error

Spec == Init /\ [][Next]_vars
-----------------------------------------------------------------------------
Below(path) == [k \in 1..rows[path].kids |-> rows[Append(path, k)].name]

Visible(name) == Shown(Children[name])

(* Pages are hung below their row each once and in order, whatever the     *)
(* order rows are opened in: what is there is where the children begin.    *)
(* That is so while the rows came, and still come, in pages of the size    *)
(* the client counts in: of the first stop, which comes before the engine  *)
(* is told it (616, 623), only if the engine's own is that size.           *)
ChildrenInOrder ==
    steady => \A path \in DOMAIN rows : IsPrefix(Below(path), Visible(rows[path].name))

(* A row stops offering more only when all of its children are shown, or   *)
(* the engine failed to give them, under the same condition.               *)
NothingLeftBehind ==
    steady =>
        \A path \in DOMAIN rows \ failed :
            rows[path].hint = 0 /\ (asked # NULL => asked.row # path)
            => Below(path) = Visible(rows[path].name)

(* The pages counted for an array are what its children fill, to the last  *)
(* of them, also where they are nested or shown already.                   *)
PagesCounted ==
    steady => \A path \in DOMAIN rows :
                 LET number == Len(Children[rows[path].name])
                     count  == rows[path].count
                 IN  number # 0 => /\ (count - 1) * session.size < number
                                   /\ number <= count * session.size

(* The page count of every array is calculated, also of those whose        *)
(* children are shown already (src/Changelog, Nov 25 2006).                *)
PageCountForAllArrays == fault = "none" /\ PagesCounted
=============================================================================
