------------------------------- MODULE XmlTree ------------------------------
(***************************************************************************)
(* How parse_message (xdebug_xml_reader.c) builds a tree (xdebug_xml.c)    *)
(* from what libxml reports: the beginning of an element, text, the end of *)
(* an element.  Nodes are numbered in the order they are allocated; 0 is   *)
(* NULL.  Tags are left out: nothing depends on them here.                 *)
(***************************************************************************)
EXTENDS Integers, SequencesExt

CONSTANTS
    Texts,          \* texts libxml reports in one call
    Terminators,    \* those that contain ]]>
    AttributeLists, \* attributes of elements: sequences of name and value
    StackSize,      \* elements of xdebug_xml_reader_priv.stack
    SplitsText,     \* may the text of an element be reported in pieces?
    MaxNodes

NULL == 0

Base64 == [name |-> "encoding", value |-> "base64"]

Attributes == {Base64} \cup UNION {ToSet(attribute) : attribute \in AttributeLists}

(* XML has an attribute once in an element. *)
NamesOnce(attribute) ==
    \A k, l \in DOMAIN attribute : attribute[k].name = attribute[l].name => k = l

ASSUME XmlAssumption ==
    /\ Terminators \subseteq Texts /\ NULL \notin Texts
    /\ \A attribute \in AttributeLists : attribute \in Seq(Attributes) /\ NamesOnce(attribute)
    /\ StackSize \in Nat \ {0}
    /\ SplitsText \in BOOLEAN
    /\ MaxNodes \in Nat

VARIABLES
    data,           \* xdebug_xml_reader_priv: level, xml, stack, current
    nodes,          \* xdebug_xml_node: text, encode, attribute, child, next
    returned,       \* parse_message has returned
    fault           \* stack was written beyond its end

vars == <<data, nodes, returned, fault>>

Init ==
    /\ data = [level |-> 0, xml |-> NULL, current |-> NULL,
               stack |-> [n \in 0..(StackSize - 1) |-> NULL]]
    /\ nodes = << >>
    /\ returned = FALSE
    /\ fault = FALSE

-----------------------------------------------------------------------------
(* A node and its later siblings. *)
Siblings[n \in 0..Len(nodes)] ==
    IF n = NULL THEN << >> ELSE << n >> \o Siblings[nodes[n].next]

Children(n) == Siblings[nodes[n].child]

xdebug_xml_node_init_ex(attribute) ==
    [text |-> NULL, encode |-> FALSE, attribute |-> attribute, child |-> NULL, next |-> NULL]

(* ns with child behind the last child of xml. *)
add_child_first(ns, xml, child) ==      \* faulty: the children so far are lost
    [ns EXCEPT ![xml].child = child]

xdebug_xml_add_child(ns, xml, child) ==
    IF xml = NULL THEN ns
    ELSE IF ns[xml].child = NULL THEN [ns EXCEPT ![xml].child = child]
    ELSE [ns EXCEPT ![Last(Children(xml))].next = child]

(* libxml reports one root, and what lies within it. *)
Reports ==
    /\ ~fault
    /\ ~returned

xdebug_xml_start_element_handler(attribute) ==
    /\ Reports
    /\ data.level > 0 \/ nodes = << >>
    /\ data.level < StackSize
    /\ Len(nodes) < MaxNodes
    /\ nodes' = xdebug_xml_add_child(
                    Append(nodes, xdebug_xml_node_init_ex(attribute)),
                    data.current, Len(nodes) + 1)
    /\ data' = [data EXCEPT !.stack[data.level] = data.current,
                            !.level = @ + 1, !.current = Len(nodes) + 1,
                            !.xml = IF @ = NULL THEN Len(nodes) + 1 ELSE @]
    /\ UNCHANGED <<returned, fault>>

start_element_overrun ==
    /\ Reports
    /\ data.level = StackSize
    /\ Len(nodes) < MaxNodes
    /\ fault' = TRUE
    /\ UNCHANGED <<data, nodes, returned>>

end_below ==                            \* faulty: current stays
    /\ Reports
    /\ data.level > 0
    /\ data' = [data EXCEPT !.level = @ - 1]
    /\ UNCHANGED <<nodes, returned, fault>>

xdebug_xml_end_element_handler ==
    /\ Reports
    /\ data.level > 0
    /\ data' = [data EXCEPT !.level = @ - 1, !.current = data.stack[data.level - 1]]
    /\ UNCHANGED <<nodes, returned, fault>>

(* xdebug_xml_add_text: a text replaces the one before it. *)
xdebug_xml_char_handler(text) ==
    /\ Reports
    /\ data.level > 0
    /\ SplitsText \/ nodes[data.current].text = NULL
    /\ nodes' = [nodes EXCEPT ![data.current].text = text,
                              ![data.current].encode = text \in Terminators]
    /\ UNCHANGED <<data, returned, fault>>

(* The nodes xdebug_xml_return_node comes by, in order, *)
Written[n \in 0..Len(nodes)] ==
    IF n = NULL THEN << >>
    ELSE << n >> \o Written[nodes[n].child] \o Written[nodes[n].next]

(* and those xdebug_xml_node_dtor frees. *)
Freed[n \in 0..Len(nodes)] ==
    IF n = NULL THEN << >>
    ELSE Freed[nodes[n].next] \o Freed[nodes[n].child] \o << n >>

xdebug_xml_add_attribute_ex(node) == [node EXCEPT !.attribute = Append(@, Base64)]

(* The last lines of parse_message: the message is written to a log, and    *)
(* writing it leaves an attribute with nodes whose text contains ]]>.  The  *)
(* parser may also have stopped before the end.                             *)
parse_message_returns ==
    /\ Reports
    /\ returned' = TRUE
    /\ nodes' = [n \in DOMAIN nodes |->
                    IF nodes[n].encode /\ n \in ToSet(Written[data.xml])
                    THEN xdebug_xml_add_attribute_ex(nodes[n]) ELSE nodes[n]]
    /\ UNCHANGED <<data, fault>>

Next ==
    \/ \E attribute \in AttributeLists : xdebug_xml_start_element_handler(attribute)
    \/ start_element_overrun
    \/ \E text \in Texts : xdebug_xml_char_handler(text)
    \/ xdebug_xml_end_element_handler
    \/ parse_message_returns

Spec == Init /\ [][Next]_vars

-----------------------------------------------------------------------------
(* Which attribute of a node is found under a name, or NULL. *)
fetch_attribute_last(n, name) ==        \* faulty: the last one
    LET attribute == nodes[n].attribute
        places == {k \in DOMAIN attribute : attribute[k].name = name}
    IN IF places = {} THEN NULL ELSE CHOOSE k \in places : \A l \in places : l <= k

xdebug_xml_fetch_attribute(n, name) ==
    LET attribute == nodes[n].attribute
        places == {k \in DOMAIN attribute : attribute[k].name = name}
    IN IF places = {} THEN NULL ELSE CHOOSE k \in places : \A l \in places : k <= l

(* Children are chained in the order of the document, below one parent, and *)
(* the walks over the tree come by every node once: none is leaked, none    *)
(* freed twice (xdebug_xml_add_child, xdebug_xml_node_dtor).                *)
EachNodeOnce ==
    /\ \A n \in DOMAIN nodes :
          \A k, l \in DOMAIN Children(n) : k < l => Children(n)[k] < Children(n)[l]
    /\ Written[data.xml] = [n \in DOMAIN nodes |-> n]
    /\ IsInjective(Freed[data.xml])
    /\ ToSet(Freed[data.xml]) = DOMAIN nodes

(* add_property sees the encoding the engine sent, if it sent one: the      *)
(* attribute that writing adds does not get in its way (server.c:472).      *)
EngineEncodingWins ==
    \A n \in DOMAIN nodes :
        LET found == xdebug_xml_fetch_attribute(n, "encoding") IN
        found # NULL /\ nodes[n].attribute[found] = Base64 =>
            \A k \in DOMAIN nodes[n].attribute :
                nodes[n].attribute[k].name = "encoding" => nodes[n].attribute[k] = Base64

-----------------------------------------------------------------------------
ParentOf(n) ==
    IF \E p \in DOMAIN nodes : n \in ToSet(Children(p))
    THEN CHOOSE p \in DOMAIN nodes : n \in ToSet(Children(p))
    ELSE 0

(* The tree is the document's. *)
Tree == INSTANCE DocumentTree
    WITH elements <- [n \in DOMAIN nodes |->
                         [parent |-> ParentOf(n),
                          text |-> IF nodes[n].text = NULL THEN << >> ELSE << nodes[n].text >>,
                          attribute |-> nodes[n].attribute]],
         path <- [k \in 1..data.level |->
                     IF k < data.level THEN data.stack[k] ELSE data.current],
         done <- returned

ImplementsTree == Tree!Spec
=============================================================================
