---------------------------- MODULE DocumentTree ----------------------------
(***************************************************************************)
(* What reading a document promises: a tree of the elements reported, each *)
(* below the element open when it began, with its attributes and all of    *)
(* its text.                                                               *)
(***************************************************************************)
EXTENDS Naturals, SequencesExt

CONSTANTS
    Texts, AttributeLists,
    Terminators,    \* texts that contain ]]>
    Base64          \* the attribute such texts earn their element

VARIABLES
    elements,       \* in document order: parent, text, attribute
    path,           \* the open elements, outermost first
    done            \* the tree has been handed over

vars == <<elements, path, done>>

Init == elements = << >> /\ path = << >> /\ done = FALSE

Start(attribute) ==
    /\ ~done
    /\ elements' = Append(elements,
                          [parent |-> IF path = << >> THEN 0 ELSE Last(path),
                           text |-> << >>, attribute |-> attribute])
    /\ path' = Append(path, Len(elements) + 1)
    /\ UNCHANGED done

Text(text) ==
    /\ ~done /\ path # << >>
    /\ elements' = [elements EXCEPT ![Last(path)].text = Append(@, text)]
    /\ UNCHANGED <<path, done>>

End ==
    /\ ~done /\ path # << >>
    /\ path' = Front(path)
    /\ UNCHANGED <<elements, done>>

Marked(element) ==
    IF \E n \in DOMAIN element.text : element.text[n] \in Terminators
    THEN [element EXCEPT !.attribute = Append(@, Base64)]
    ELSE element

HandOver ==
    /\ ~done
    /\ elements' = [n \in DOMAIN elements |-> Marked(elements[n])]
    /\ done' = TRUE
    /\ UNCHANGED path

Next ==
    \/ \E attribute \in AttributeLists : Start(attribute)
    \/ \E text \in Texts : Text(text)
    \/ End
    \/ HandOver

Spec == Init /\ [][Next]_vars
=============================================================================
